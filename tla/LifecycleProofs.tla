--------------------------- MODULE LifecycleProofs ---------------------------
(***************************************************************************)
(* Theorems about Lifecycle, for any number of requests and any pool: its  *)
(* type, the accounts of the pool, how long the pool lives, and the        *)
(* refinement of GracefulServer.                                           *)
(***************************************************************************)
EXTENDS Lifecycle, SequenceTheorems, FiniteSetTheorems, TLAPS

-----------------------------------------------------------------------------
(* The inductive invariant *)

\* What is counted is finite.
Accounted == ConnectionsAccounted /\ IsFiniteSet(held)

Opening == {"config", "migrate", "opened"} \cup StatementPCs
Early == Opening \cup {"prepare"}
Late == {"leaving", "closing", "ended"}

\* Where main is tells what has become of the collector, the pool, the listener
\* and the requests.
Ordered ==
  /\ pc[Main] \in Opening => pc[Collector] = "off"
  /\ closed => pc[Main] \in {"closing", "ended"}
  /\ server \in {"starting", "open"} => pc[Main] = "serving"
  /\ pc[Main] \in Early => server = "none"
  /\ pc[Main] = "shutdown" => server = "closed"
  /\ server \in {"none", "starting", "unbound"} => Quiescent
  /\ pc[Main] \in Late => Quiescent \/ timer = "fired" \/ server = "broken"
  /\ pc[Main] \in Late => status \in {"ok", "failed"}
  /\ status = "ok" => pc[Main] \in Late /\ server = "closed" /\ Quiescent

IInv == TypeOK /\ Accounted /\ Ordered

-----------------------------------------------------------------------------
(* Sequences that hold each element once *)

InLine(q, c) == \E i \in 1 .. Len(q) : q[i] = c
Once(q) == \A i, j \in 1 .. Len(q) : q[i] = q[j] => i = j

\* Append puts a newcomer in line.
LEMMA AppendOnce ==
  ASSUME NEW S, NEW q \in Seq(S), NEW c \in S, ~ InLine(q, c), Once(q)
  PROVE  /\ Append(q, c) \in Seq(S) /\ Once(Append(q, c))
         /\ \A d : InLine(Append(q, c), d) <=> InLine(q, d) \/ d = c
<1> DEFINE a == Append(q, c)
<1>1. /\ a \in Seq(S) /\ Len(a) = Len(q) + 1 /\ Len(q) \in Nat
      /\ \A i \in 1 .. Len(q) : a[i] = q[i]
      /\ a[Len(q) + 1] = c
  BY AppendProperties
<1> HIDE DEF a
<1>2. Once(a)
  BY <1>1 DEF Once, InLine
<1>3. ASSUME NEW d PROVE InLine(a, d) <=> InLine(q, d) \/ d = c
  BY <1>1 DEF InLine
<1>4. QED BY <1>1, <1>2, <1>3 DEF a

\* Tail takes the head, and only it, out of line.
LEMMA TailOnce ==
  ASSUME NEW S, NEW q \in Seq(S), q # <<>>, Once(q)
  PROVE  /\ Tail(q) \in Seq(S) /\ Once(Tail(q))
         /\ InLine(q, Head(q)) /\ Head(q) \in S
         /\ \A d : InLine(Tail(q), d) <=> InLine(q, d) /\ d # Head(q)
<1> DEFINE t == Tail(q)
<1>1. /\ t \in Seq(S) /\ Len(t) = Len(q) - 1 /\ Len(q) \in Nat \ {0}
      /\ \A i \in 1 .. Len(t) : t[i] = q[i + 1]
      /\ Head(q) = q[1] /\ Head(q) \in S
  BY HeadTailProperties
<1> HIDE DEF t
<1>2. Once(t)
  BY <1>1 DEF Once
<1>3. ASSUME NEW d PROVE InLine(t, d) <=> InLine(q, d) /\ d # q[1]
  <2>1. ASSUME InLine(t, d) PROVE InLine(q, d) /\ d # q[1]
    BY <1>1, <2>1 DEF InLine, Once
  <2>2. ASSUME InLine(q, d), d # q[1] PROVE InLine(t, d)
    <3>1. PICK i \in 1 .. Len(q) : q[i] = d
      BY <2>2 DEF InLine
    <3>2. i - 1 \in 1 .. Len(t) /\ t[i - 1] = d
      BY <1>1, <2>2, <3>1
    <3>3. QED BY <3>2 DEF InLine
  <2>3. QED BY <2>1, <2>2
<1>4. InLine(q, q[1])
  BY <1>1 DEF InLine
<1>5. QED BY <1>1, <1>2, <1>3, <1>4 DEF t

\* RemoveAt takes one out of line, wherever it stands.
LEMMA RemoveOnce ==
  ASSUME NEW S, NEW q \in Seq(S), NEW k \in 1 .. Len(q), Once(q)
  PROVE  /\ RemoveAt(q, k) \in Seq(S) /\ Once(RemoveAt(q, k))
         /\ InLine(q, q[k]) /\ q[k] \in S
         /\ \A d : InLine(RemoveAt(q, k), d) <=> InLine(q, d) /\ d # q[k]
<1> DEFINE front == SubSeq(q, 1, k - 1)
           back == SubSeq(q, k + 1, Len(q))
           s == RemoveAt(q, k)
<1>1. Len(q) \in Nat /\ k \in Int /\ \A i \in 1 .. Len(q) : q[i] \in S
  OBVIOUS
<1>2. /\ front \in Seq(S) /\ Len(front) = k - 1
      /\ \A i \in 1 .. k - 1 : front[i] = q[i]
  <2>1. \A i \in 1 .. k - 1 : q[i] \in S
    BY <1>1
  <2>2. /\ front \in Seq(S)
        /\ Len(front) = IF 1 <= k - 1 THEN (k - 1) - 1 + 1 ELSE 0
        /\ \A i \in 1 .. (k - 1) - 1 + 1 : front[i] = q[1 + i - 1]
    BY <1>1, <2>1, SubSeqProperties
  <2> HIDE DEF front
  <2>3. QED BY <1>1, <2>2
<1>3. /\ back \in Seq(S) /\ Len(back) = Len(q) - k
      /\ \A i \in 1 .. Len(q) - k : back[i] = q[k + i]
  <2>1. \A i \in k + 1 .. Len(q) : q[i] \in S
    BY <1>1
  <2>2. /\ back \in Seq(S)
        /\ Len(back) = IF k + 1 <= Len(q) THEN Len(q) - (k + 1) + 1 ELSE 0
        /\ \A i \in 1 .. Len(q) - (k + 1) + 1 : back[i] = q[(k + 1) + i - 1]
    BY <1>1, <2>1, SubSeqProperties
  <2> HIDE DEF back
  <2>3. QED BY <1>1, <2>2
<1>4. s = front \o back
  BY DEF RemoveAt
<1> HIDE DEF front, back, s
<1>5. /\ s \in Seq(S) /\ Len(s) = Len(q) - 1
      /\ \A i \in 1 .. Len(q) - 1 : s[i] = IF i < k THEN q[i] ELSE q[i + 1]
  <2>1. /\ s \in Seq(S) /\ Len(s) = Len(front) + Len(back)
        /\ \A i \in 1 .. Len(front) + Len(back) :
             s[i] = IF i <= Len(front) THEN front[i] ELSE back[i - Len(front)]
    BY <1>2, <1>3, <1>4, ConcatProperties
  <2>2. Len(front) + Len(back) = Len(q) - 1
    BY <1>1, <1>2, <1>3
  <2>3. ASSUME NEW i \in 1 .. Len(q) - 1
        PROVE  s[i] = IF i < k THEN q[i] ELSE q[i + 1]
    <3>1. CASE i < k
      BY <1>1, <1>2, <2>1, <2>2, <3>1
    <3>2. CASE i >= k
      <4>1. i - (k - 1) \in 1 .. Len(q) - k
        BY <1>1, <3>2
      <4>2. /\ k + (i - (k - 1)) = i + 1
            /\ ~ i <= Len(front) /\ i - Len(front) = i - (k - 1)
            /\ i \in 1 .. Len(front) + Len(back)
        BY <1>1, <1>2, <2>2, <3>2
      <4>3. s[i] = back[i - (k - 1)]
        BY <2>1, <4>2
      <4>4. QED BY <1>1, <1>3, <3>2, <4>1, <4>2, <4>3
    <3>3. QED BY <1>1, <3>1, <3>2
  <2>4. QED BY <2>1, <2>2, <2>3
<1>6. Once(s)
  <2> DEFINE at(i) == IF i < k THEN i ELSE i + 1
  <2>1. ASSUME NEW i \in 1 .. Len(s)
        PROVE  at(i) \in 1 .. Len(q) /\ s[i] = q[at(i)]
    BY <1>1, <1>5
  <2>2. ASSUME NEW i \in 1 .. Len(s), NEW j \in 1 .. Len(s), at(i) = at(j)
        PROVE  i = j
    BY <1>1, <1>5, <2>2
  <2> HIDE DEF at
  <2>3. QED BY <2>1, <2>2 DEF Once
<1>7. ASSUME NEW d PROVE InLine(s, d) <=> InLine(q, d) /\ d # q[k]
  <2>1. ASSUME InLine(s, d) PROVE InLine(q, d) /\ d # q[k]
    <3>1. PICK i \in 1 .. Len(s) : s[i] = d
      BY <2>1 DEF InLine
    <3>2. CASE i < k
      BY <1>1, <1>5, <3>1, <3>2 DEF InLine, Once
    <3>3. CASE i >= k
      <4>1. i + 1 \in 1 .. Len(q) /\ q[i + 1] = d /\ i + 1 # k
        BY <1>1, <1>5, <3>1, <3>3
      <4>2. QED BY <4>1 DEF InLine, Once
    <3>4. QED BY <1>1, <1>5, <3>1, <3>2, <3>3
  <2>2. ASSUME InLine(q, d), d # q[k] PROVE InLine(s, d)
    <3>1. PICK i \in 1 .. Len(q) : q[i] = d
      BY <2>2 DEF InLine
    <3>2. CASE i < k
      <4>1. i \in 1 .. Len(s) /\ s[i] = d
        BY <1>1, <1>5, <3>1, <3>2
      <4>2. QED BY <4>1 DEF InLine
    <3>3. CASE i > k
      <4>1. i - 1 \in 1 .. Len(s) /\ s[i - 1] = d
        BY <1>1, <1>5, <3>1, <3>3
      <4>2. QED BY <4>1 DEF InLine
    <3>4. QED BY <1>1, <2>2, <3>1, <3>2, <3>3
  <2>3. QED BY <2>1, <2>2
<1>8. QED BY <1>1, <1>5, <1>6, <1>7 DEF s, InLine

-----------------------------------------------------------------------------
(* TypeOK is preserved, one step per action *)

\* Clients are who the code says they are.
LEMMA ClientKinds ==
  /\ Main \in Clients /\ Collector \in Clients /\ Main # Collector
  /\ Cleaners \subseteq Clients /\ Requests \subseteq Clients
  /\ Main \notin Requests /\ Collector \notin Requests
  /\ \A c \in Clients : c \in Requests \/ c = Main \/ c = Collector
BY LifecycleAssumption DEF Clients, Cleaners, Main, Collector

\* The places of the clients, apart from the rest of the type invariant.
Places ==
  /\ pc \in [Clients -> MainPCs \cup RequestPCs \cup CollectorPCs]
  /\ \A r \in Requests : pc[r] \in RequestPCs
  /\ pc[Main] \in MainPCs /\ pc[Collector] \in CollectorPCs

\* A client that moves goes to a place of its kind, and the others stay.
LEMMA Moves ==
  ASSUME Places, NEW c \in Clients, NEW w, GoTo(c, w),
         c \in Requests => w \in RequestPCs,
         c = Main => w \in MainPCs,
         c = Collector => w \in CollectorPCs
  PROVE  /\ Places'
         /\ pc'[c] = w /\ \A d \in Clients \ {c} : pc'[d] = pc[d]
<1>1. pc' = [pc EXCEPT ![c] = w] /\ DOMAIN pc = Clients
  BY DEF GoTo, Places
<1>2. w \in MainPCs \cup RequestPCs \cup CollectorPCs
  BY ClientKinds
<1>3. pc'[c] = w /\ \A d \in Clients \ {c} : pc'[d] = pc[d]
  BY <1>1
<1>4. pc' \in [Clients -> MainPCs \cup RequestPCs \cup CollectorPCs]
  BY <1>1, <1>2 DEF Places
<1>5. \A r \in Requests : pc'[r] \in RequestPCs
  BY <1>3, ClientKinds DEF Places
<1>6. pc'[Main] \in MainPCs /\ pc'[Collector] \in CollectorPCs
  BY <1>3, ClientKinds DEF Places
<1>7. QED BY <1>3, <1>4, <1>5, <1>6 DEF Places

\* Where a statement leaves its client.
LEMMA GoesOn ==
  ASSUME TypeOK, NEW c \in Clients, NEW ok \in BOOLEAN, GoOn(c, ok)
  PROVE  /\ Places' /\ part' \in [Cleaners -> 1 .. 2]
         /\ status' \in {"none", "ok", "failed"}
         /\ UNCHANGED <<signalled, server, timer>>
         /\ pc'[c] \in {"running", "resting", "leaving", "opened"}
         /\ \A d \in Clients \ {c} : pc'[d] = pc[d]
         /\ c \in Requests => pc'[c] = "running" /\ status' = status
         /\ c = Collector => pc'[c] \in {"running", "resting"} /\ status' = status
         /\ c = Main => \/ pc'[c] = "leaving" /\ status' = "failed"
                        \/ pc'[c] \in {"running", "opened"} /\ status' = status
<1> DEFINE w == After(c, ok)
<1>1. /\ c \in Requests => w = "running"
      /\ c = Collector => w \in {"running", "resting"}
      /\ c = Main => IF ok THEN w \in {"running", "opened"} ELSE w = "leaving"
  BY ClientKinds DEF After
<1>2. GoTo(c, w)
  BY DEF GoOn
<1> HIDE DEF w
<1>3. Places' /\ pc'[c] = w /\ \A d \in Clients \ {c} : pc'[d] = pc[d]
  <2>1. Places
    BY DEF TypeOK, Places
  <2>2. QED
    BY <1>1, <1>2, <2>1, Moves DEF RequestPCs, MainPCs, CollectorPCs, StatementPCs
<1>4. part' \in [Cleaners -> 1 .. 2]
  BY DEF GoOn, PartAfter, TypeOK
<1>5. /\ status' \in {"none", "ok", "failed"}
      /\ c # Main => status' = status
      /\ c = Main => status' = IF ok THEN status ELSE "failed"
      /\ UNCHANGED <<signalled, server, timer>>
  BY DEF GoOn, TypeOK
<1>6. QED BY <1>1, <1>3, <1>4, <1>5, ClientKinds

\* A statement keeps the types, whatever becomes of it.
LEMMA StatementTyped ==
  ASSUME TypeOK, NEW c \in Clients, Statement(c)
  PROVE  TypeOK'
<1>0. Places
  BY DEF TypeOK, Places
<1>1. CASE Ask(c)
  <2>1. Append(queue, c) \in Seq(Clients)
    BY AppendProperties DEF TypeOK
  <2>2. Places'
    BY <1>0, <1>1, Moves DEF Ask, RequestPCs, MainPCs, CollectorPCs, StatementPCs
  <2>3. QED BY <1>1, <2>1, <2>2 DEF Ask, Enqueue, TypeOK, Places
<1>2. CASE AskTooLate(c)
  <2>1. GoOn(c, FALSE) /\ UNCHANGED poolVars
    BY <1>2 DEF AskTooLate
  <2>2. QED BY <2>1, GoesOn DEF TypeOK, Places, poolVars
<1>3. CASE Query(c)
  <2>1. Tail(queue) \in Seq(Clients)
    BY <1>3, HeadTailProperties DEF Query, Acquire, IsNext, TypeOK
  <2>2. Places'
    BY <1>0, <1>3, Moves DEF Query, RequestPCs, MainPCs, CollectorPCs, StatementPCs
  <2>3. QED BY <1>3, <2>1, <2>2 DEF Query, Acquire, TypeOK, Places
<1>4. CASE TurnedAway(c)
  <2>1. Tail(queue) \in Seq(Clients)
    BY <1>4, HeadTailProperties DEF TurnedAway, Refuse, IsNext, TypeOK
  <2>2. GoOn(c, FALSE)
    BY <1>4 DEF TurnedAway
  <2>3. QED BY <1>4, <2>1, <2>2, GoesOn DEF TurnedAway, Refuse, TypeOK, Places
<1>5. CASE GiveUp(c)
  <2>1. PICK i \in 1 .. Len(queue) : queue' = RemoveAt(queue, i)
    BY <1>5 DEF GiveUp, Withdraw
  <2>2. queue' \in Seq(Clients)
    <3>1. /\ SubSeq(queue, 1, i - 1) \in Seq(Clients)
          /\ SubSeq(queue, i + 1, Len(queue)) \in Seq(Clients)
      BY SubSeqProperties DEF TypeOK
    <3>2. QED BY <2>1, <3>1, ConcatProperties DEF RemoveAt
  <2>3. GoOn(c, FALSE)
    BY <1>5 DEF GiveUp
  <2>4. QED BY <1>5, <2>2, <2>3, GoesOn DEF GiveUp, Withdraw, TypeOK, Places
<1>6. CASE Answer(c)
  <2>1. PICK ok \in BOOLEAN : GoOn(c, ok)
    BY <1>6 DEF Answer
  <2>2. QED BY <1>6, <2>1, GoesOn DEF Answer, Release, TypeOK, Places
<1>7. QED BY <1>1, <1>2, <1>3, <1>4, <1>5, <1>6 DEF Statement

\* So does a step of main.
LEMMA MainTyped ==
  ASSUME TypeOK, MainStep
  PROVE  TypeOK'
<1>0. Places
  BY DEF TypeOK, Places
<1>1. \A w \in MainPCs : GoTo(Main, w) => Places'
  BY <1>0, Moves, ClientKinds
<1>2. \A how \in {"ok", "failed"} :
        Leave(how) => Places' /\ status' \in {"none", "ok", "failed"}
  BY <1>1 DEF Leave, MainPCs
<1> USE DEF MainPCs
<1>3. CASE LoadConfig
  BY <1>1, <1>3 DEF LoadConfig, TypeOK, Places, poolVars
<1>4. CASE Migrate
  BY <1>1, <1>2, <1>4 DEF Migrate, TypeOK, Places, poolVars, StatementPCs
<1>5. CASE StartCollector
  <2>1. /\ pc' = [pc EXCEPT ![Main] = "prepare", ![Collector] = "resting"]
        /\ UNCHANGED <<poolVars, part, signalled, server, timer, status>>
    BY <1>5 DEF StartCollector
  <2>2. /\ pc' \in [Clients -> MainPCs \cup RequestPCs \cup CollectorPCs]
        /\ pc'[Main] = "prepare" /\ pc'[Collector] = "resting"
        /\ \A r \in Requests : pc'[r] = pc[r]
    BY <2>1, ClientKinds DEF TypeOK, CollectorPCs
  <2>3. QED BY <2>1, <2>2 DEF TypeOK, poolVars, CollectorPCs
<1>6. CASE Prepare
  BY <1>1, <1>2, <1>6 DEF Prepare, TypeOK, Places, poolVars
<1>7. CASE ListenerLost
  BY <1>2, <1>7 DEF ListenerLost, TypeOK, Places, poolVars
<1>8. CASE Shutdown
  BY <1>1, <1>8 DEF Shutdown, TypeOK, Places, poolVars
<1>9. CASE ShutdownDone
  BY <1>2, <1>9 DEF ShutdownDone, TypeOK, Places, poolVars
<1>10. CASE ShutdownLate
  BY <1>2, <1>10 DEF ShutdownLate, TypeOK, Places, poolVars
<1>11. CASE CloseDB
  BY <1>1, <1>11 DEF CloseDB, ClosePool, TypeOK, Places
<1>12. CASE End
  BY <1>1, <1>12 DEF End, TypeOK, Places, poolVars
<1>13. QED
  BY <1>3, <1>4, <1>5, <1>6, <1>7, <1>8, <1>9, <1>10, <1>11, <1>12 DEF MainStep

\* And everything else.
LEMMA OtherTyped ==
  ASSUME TypeOK,
         \/ Listen \/ ServeFails \/ Signal \/ TimerFires
         \/ \E r \in Requests : RequestStep(r)
         \/ CollectorWakes \/ CollectorStops \/ UNCHANGED vars
  PROVE  TypeOK'
<1>0. Places
  BY DEF TypeOK, Places
<1>1. CASE Listen \/ ServeFails \/ Signal \/ TimerFires \/ UNCHANGED vars
  BY <1>1 DEF Listen, ServeFails, Signal, TimerFires, vars, TypeOK, poolVars
<1>2. ASSUME NEW r \in Requests, RequestStep(r) PROVE TypeOK'
  <2>1. /\ UNCHANGED <<poolVars, part, signalled, server, timer, status>>
        /\ \E w \in {"idle", "new", "running"} : GoTo(r, w)
    BY <1>2 DEF RequestStep, Accept, Begin, Drop, Respond
  <2>2. Places'
    BY <1>0, <2>1, Moves, ClientKinds DEF RequestPCs, StatementPCs
  <2>3. QED BY <2>1, <2>2 DEF TypeOK, Places, poolVars
<1>3. CASE CollectorWakes \/ CollectorStops
  <2>1. /\ UNCHANGED <<poolVars, part, signalled, server, timer, status>>
        /\ \E w \in {"running", "off"} : GoTo(Collector, w)
    BY <1>3 DEF CollectorWakes, CollectorStops
  <2>2. Places'
    BY <1>0, <2>1, Moves, ClientKinds DEF CollectorPCs, StatementPCs
  <2>3. QED BY <2>1, <2>2 DEF TypeOK, Places, poolVars
<1>4. QED BY <1>1, <1>2, <1>3

\* And at the start.
LEMMA InitTyped == Init => TypeOK
<1> SUFFICES ASSUME Init PROVE TypeOK
  OBVIOUS
<1>1. /\ queue = <<>> /\ held = {} /\ closed = FALSE
      /\ part = [c \in Cleaners |-> 1] /\ signalled = FALSE
      /\ server = "none" /\ timer = "off" /\ status = "none"
  BY DEF Init, PoolInit
<1>2. /\ DOMAIN pc = Clients /\ pc = [c \in Clients |-> pc[c]]
      /\ pc[Main] = "config" /\ pc[Collector] = "off"
      /\ \A r \in Requests : pc[r] = "idle"
  BY ClientKinds DEF Init
<1>3. \A c \in Clients : pc[c] \in {"config", "off", "idle"}
  BY <1>2, ClientKinds
<1>4. Places
  BY <1>2, <1>3 DEF Places, RequestPCs, MainPCs, CollectorPCs
<1>5. queue \in Seq(Clients)
  BY <1>1
<1>6. part \in [Cleaners -> 1 .. 2] /\ held \subseteq Clients
  BY <1>1
<1>7. QED BY <1>1, <1>4, <1>5, <1>6 DEF TypeOK, Places

\* Every variable keeps its type (main.go, database.go).
THEOREM TypeCorrect == Spec => []TypeOK
<1>1. TypeOK /\ [Next]_vars => TypeOK'
  BY StatementTyped, MainTyped, OtherTyped DEF Next, Gone
<1>2. QED BY <1>1, InitTyped, PTL DEF Spec

-----------------------------------------------------------------------------
(* The accounts of the pool *)

\* ConnectionsAccounted in the words of the lemmas on sequences.
LEMMA AccountedForm ==
  Accounted <=>
    /\ held = {c \in Clients : pc[c] = "query"}
    /\ \A c \in Clients : pc[c] = "asking" <=> InLine(queue, c)
    /\ Once(queue)
    /\ IsFiniteSet(held) /\ Cardinality(held) <= PoolSize
BY DEF Accounted, ConnectionsAccounted, InLine, Once

\* A step that moves nobody to the database, into line or away from there.
LEMMA ElsewhereAccounts ==
  ASSUME Accounted, queue' = queue, held' = held,
         \A c \in Clients : /\ pc'[c] = "query" <=> pc[c] = "query"
                            /\ pc'[c] = "asking" <=> pc[c] = "asking"
  PROVE  Accounted'
BY DEF Accounted, ConnectionsAccounted

\* Each thing a client can do at the pool keeps the accounts.
LEMMA StatementAccounts ==
  ASSUME TypeOK, Accounted, NEW c \in Clients, Statement(c)
  PROVE  Accounted'
<1>0. Places /\ queue \in Seq(Clients)
  BY DEF TypeOK, Places
<1>1. /\ held = {d \in Clients : pc[d] = "query"}
      /\ \A d \in Clients : pc[d] = "asking" <=> InLine(queue, d)
      /\ Once(queue)
      /\ IsFiniteSet(held) /\ Cardinality(held) <= PoolSize
  BY AccountedForm
<1> DEFINE Goal ==
      /\ held' = {d \in Clients : pc'[d] = "query"}
      /\ \A d \in Clients : pc'[d] = "asking" <=> InLine(queue', d)
      /\ Once(queue')
      /\ IsFiniteSet(held') /\ Cardinality(held') <= PoolSize
<1>2. SUFFICES Goal
  BY DEF Accounted, ConnectionsAccounted, InLine, Once
<1>3. CASE Ask(c)
  <2>1. pc'[c] = "asking" /\ \A d \in Clients \ {c} : pc'[d] = pc[d]
    BY <1>0, <1>3, Moves DEF Ask, RequestPCs, MainPCs, CollectorPCs, StatementPCs
  <2>2. queue' = Append(queue, c) /\ held' = held /\ pc[c] = "running"
    BY <1>3 DEF Ask, Enqueue
  <2>3. ~ InLine(queue, c)
    BY <1>1, <2>2
  <2>4. Once(queue') /\ \A d : InLine(queue', d) <=> InLine(queue, d) \/ d = c
    BY <1>0, <1>1, <2>2, <2>3, AppendOnce
  <2>5. QED BY <1>1, <2>1, <2>2, <2>4
<1>4. CASE AskTooLate(c)
  <2>1. GoOn(c, FALSE) /\ queue' = queue /\ held' = held /\ pc[c] = "running"
    BY <1>4 DEF AskTooLate, poolVars
  <2>2. QED BY <1>1, <2>1, GoesOn
<1>5. CASE Query(c)
  <2>1. pc'[c] = "query" /\ \A d \in Clients \ {c} : pc'[d] = pc[d]
    BY <1>0, <1>5, Moves DEF Query, RequestPCs, MainPCs, CollectorPCs, StatementPCs
  <2>2. /\ queue # <<>> /\ c = Head(queue) /\ Cardinality(held) < PoolSize
        /\ queue' = Tail(queue) /\ held' = held \cup {c}
        /\ pc[c] = "asking"
    BY <1>5 DEF Query, Acquire, IsNext
  <2>3. Once(queue') /\ \A d : InLine(queue', d) <=> InLine(queue, d) /\ d # c
    BY <1>0, <1>1, <2>2, TailOnce
  <2>4. IsFiniteSet(held') /\ Cardinality(held') <= PoolSize
    <3>1. c \notin held
      BY <1>1, <2>2
    <3>2. IsFiniteSet(held') /\ Cardinality(held') = Cardinality(held) + 1
      BY <1>1, <2>2, <3>1, FS_AddElement
    <3>3. Cardinality(held) \in Nat
      BY <1>1, FS_CardinalityType
    <3>4. QED BY <2>2, <3>2, <3>3, PoolAssumption
  <2>5. QED BY <1>1, <2>1, <2>2, <2>3, <2>4
<1>6. CASE TurnedAway(c)
  <2>1. /\ queue # <<>> /\ c = Head(queue)
        /\ queue' = Tail(queue) /\ held' = held /\ pc[c] = "asking"
        /\ GoOn(c, FALSE)
    BY <1>6 DEF TurnedAway, Refuse, IsNext
  <2>2. Once(queue') /\ \A d : InLine(queue', d) <=> InLine(queue, d) /\ d # c
    BY <1>0, <1>1, <2>1, TailOnce
  <2>3. QED BY <1>1, <2>1, <2>2, GoesOn
<1>7. CASE GiveUp(c)
  <2>1. PICK i \in 1 .. Len(queue) : queue[i] = c /\ queue' = RemoveAt(queue, i)
    BY <1>7 DEF GiveUp, Withdraw
  <2>2. held' = held /\ pc[c] = "asking" /\ GoOn(c, FALSE)
    BY <1>7 DEF GiveUp, Withdraw
  <2>3. Once(queue') /\ \A d : InLine(queue', d) <=> InLine(queue, d) /\ d # c
    BY <1>0, <1>1, <2>1, RemoveOnce
  <2>4. QED BY <1>1, <2>2, <2>3, GoesOn
<1>8. CASE Answer(c)
  <2>1. PICK ok \in BOOLEAN : GoOn(c, ok)
    BY <1>8 DEF Answer
  <2>2. held' = held \ {c} /\ queue' = queue /\ pc[c] = "query"
    BY <1>8 DEF Answer, Release
  <2>3. /\ pc'[c] \in {"running", "resting", "leaving", "opened"}
        /\ \A d \in Clients \ {c} : pc'[d] = pc[d]
    BY <2>1, GoesOn
  <2>4. IsFiniteSet(held') /\ Cardinality(held') <= PoolSize
    <3>1. IsFiniteSet(held') /\ Cardinality(held') = Cardinality(held) - 1
      BY <1>1, <2>2, FS_RemoveElement
    <3>2. Cardinality(held) \in Nat
      BY <1>1, FS_CardinalityType
    <3>3. QED BY <1>1, <3>1, <3>2, PoolAssumption
  <2>5. QED BY <1>1, <2>2, <2>3, <2>4
<1>9. QED BY <1>3, <1>4, <1>5, <1>6, <1>7, <1>8 DEF Statement

\* Every other step leaves them alone.
LEMMA OthersAccount ==
  ASSUME TypeOK, Accounted, Ordered,
         \/ MainStep \/ Listen \/ ServeFails \/ Signal \/ TimerFires
         \/ \E r \in Requests : RequestStep(r)
         \/ CollectorWakes \/ CollectorStops \/ UNCHANGED vars
  PROVE  Accounted'
<1> DEFINE Off(w) == w \notin {"query", "asking"}
<1>1. Places /\ DOMAIN pc = Clients
  BY DEF TypeOK, Places
<1>2. ASSUME NEW c \in Clients, NEW w, Off(w), Off(pc[c]), GoTo(c, w),
             queue' = queue, held' = held
      PROVE  Accounted'
  <2>1. pc' = [pc EXCEPT ![c] = w]
    BY <1>2 DEF GoTo
  <2>2. \A d \in Clients : /\ pc'[d] = "query" <=> pc[d] = "query"
                           /\ pc'[d] = "asking" <=> pc[d] = "asking"
    BY <1>1, <1>2, <2>1
  <2>3. QED BY <1>2, <2>2, ElsewhereAccounts
<1>3. CASE StartCollector
  <2>1. /\ pc' = [pc EXCEPT ![Main] = "prepare", ![Collector] = "resting"]
        /\ queue' = queue /\ held' = held /\ pc[Main] = "opened"
    BY <1>3 DEF StartCollector, poolVars
  <2>2. pc[Collector] = "off"
    BY <2>1 DEF Ordered, Opening
  <2>3. \A d \in Clients : /\ pc'[d] = "query" <=> pc[d] = "query"
                           /\ pc'[d] = "asking" <=> pc[d] = "asking"
    BY <1>1, <2>1, <2>2, ClientKinds
  <2>4. QED BY <2>1, <2>3, ElsewhereAccounts
<1>4. CASE MainStep /\ ~ StartCollector
  <2>1. queue' = queue /\ held' = held /\ Off(pc[Main])
    BY <1>4 DEF MainStep, StartCollector, LoadConfig, Migrate, Prepare, ListenerLost,
                Shutdown, ShutdownDone, ShutdownLate, CloseDB, ClosePool, End, poolVars
  <2>2. GoTo(Main, "migrate") \/ GoTo(Main, "ended") \/ GoTo(Main, "running")
        \/ GoTo(Main, "leaving") \/ GoTo(Main, "serving")
        \/ GoTo(Main, "shutdown") \/ GoTo(Main, "closing")
    BY <1>4 DEF MainStep, LoadConfig, Migrate, Prepare, ListenerLost, Leave,
                Shutdown, ShutdownDone, ShutdownLate, CloseDB, End
  <2>3. QED BY <1>2, <2>1, <2>2, ClientKinds
<1>5. CASE Listen \/ ServeFails \/ Signal \/ TimerFires \/ UNCHANGED vars
  <2>1. queue' = queue /\ held' = held /\ pc' = pc
    BY <1>5 DEF Listen, ServeFails, Signal, TimerFires, vars, poolVars
  <2>2. QED BY <2>1, ElsewhereAccounts
<1>6. ASSUME NEW r \in Requests, RequestStep(r) PROVE Accounted'
  <2>1. /\ queue' = queue /\ held' = held /\ Off(pc[r])
        /\ GoTo(r, "new") \/ GoTo(r, "running") \/ GoTo(r, "idle")
    BY <1>6 DEF RequestStep, Accept, Begin, Drop, Respond, poolVars
  <2>2. QED BY <1>2, <2>1, ClientKinds
<1>7. CASE CollectorWakes \/ CollectorStops
  <2>1. /\ queue' = queue /\ held' = held /\ Off(pc[Collector])
        /\ GoTo(Collector, "running") \/ GoTo(Collector, "off")
    BY <1>7 DEF CollectorWakes, CollectorStops, poolVars
  <2>2. QED BY <1>2, <2>1, ClientKinds
<1>8. QED BY <1>3, <1>4, <1>5, <1>6, <1>7

-----------------------------------------------------------------------------
(* The order of the end *)

\* A statement of a request or of the collector does not touch what Ordered
\* speaks of; one of main may fail the start-up.
LEMMA StatementOrdered ==
  ASSUME TypeOK, Ordered, NEW c \in Clients, Statement(c)
  PROVE  Ordered'
<1>0. Places /\ pc[c] \in StatementPCs
  BY DEF TypeOK, Places, Statement, Ask, AskTooLate, Query, TurnedAway, GiveUp, Answer,
         StatementPCs
<1>1. /\ closed' = closed /\ server' = server /\ timer' = timer
      /\ \A d \in Clients \ {c} : pc'[d] = pc[d]
      /\ c # Main => status' = status /\ pc'[c] \in StatementPCs \cup {"resting"}
      /\ c = Main => \/ pc'[c] = "leaving" /\ status' = "failed"
                     \/ /\ pc'[c] \in StatementPCs \cup {"opened"}
                        /\ status' = status
  <2>1. CASE Ask(c)
    BY <1>0, <2>1, Moves DEF Ask, Enqueue, RequestPCs, MainPCs, CollectorPCs, StatementPCs
  <2>2. CASE Query(c)
    BY <1>0, <2>2, Moves DEF Query, Acquire, RequestPCs, MainPCs, CollectorPCs, StatementPCs
  <2>3. ASSUME NEW ok \in BOOLEAN, GoOn(c, ok), closed' = closed
        PROVE  /\ closed' = closed /\ server' = server /\ timer' = timer
               /\ \A d \in Clients \ {c} : pc'[d] = pc[d]
               /\ c # Main => status' = status /\ pc'[c] \in StatementPCs \cup {"resting"}
               /\ c = Main => \/ pc'[c] = "leaving" /\ status' = "failed"
                              \/ /\ pc'[c] \in StatementPCs \cup {"opened"}
                                 /\ status' = status
    BY <2>3, GoesOn, ClientKinds DEF StatementPCs
  <2>4. Ask(c) \/ Query(c) \/ \E ok \in BOOLEAN : GoOn(c, ok) /\ closed' = closed
    BY DEF Statement, AskTooLate, TurnedAway, GiveUp, Answer, poolVars, Refuse, Withdraw,
           Release
  <2>5. QED BY <2>1, <2>2, <2>3, <2>4
<1>2. CASE c = Main
  <2>1. pc[Main] \in Opening /\ Quiescent /\ server = "none" /\ ~ closed
    BY <1>0, <1>2 DEF Ordered, Opening, Early, StatementPCs
  <2>2. Quiescent' /\ pc'[Collector] = pc[Collector]
    BY <1>1, <1>2, <2>1, ClientKinds DEF Quiescent
  <2>3. pc'[Main] \in Opening \/ (pc'[Main] = "leaving" /\ status' = "failed")
    BY <1>1, <1>2 DEF Opening
  <2>4. status # "ok"
    BY <1>0, <1>2 DEF Ordered, Late, StatementPCs
  <2>5. pc[Collector] = "off"
    BY <2>1 DEF Ordered
  <2>6. QED
    BY <1>1, <1>2, <2>1, <2>2, <2>3, <2>4, <2>5
    DEF Ordered, Opening, Early, Late, StatementPCs
<1>3. CASE c # Main
  <2>1. pc'[Main] = pc[Main]
    BY <1>1, <1>3, ClientKinds
  <2>2. Quiescent => Quiescent'
    <3>1. CASE c \in Requests
      BY <1>0, <3>1 DEF Quiescent, StatementPCs
    <3>2. CASE c \notin Requests
      BY <1>1, <3>2, ClientKinds DEF Quiescent
    <3>3. QED BY <3>1, <3>2
  <2>3. pc[Collector] = "off" => pc'[Collector] = "off"
    BY <1>0, <1>1, ClientKinds DEF StatementPCs
  <2>4. status' = status
    BY <1>1, <1>3
  <2>5. QED BY <1>1, <2>1, <2>2, <2>3, <2>4 DEF Ordered
<1>4. QED BY <1>2, <1>3

\* Main goes on, or leaves with what Ordered asks of one who leaves.
LEMMA MainOrdered ==
  ASSUME TypeOK, Ordered, MainStep
  PROVE  Ordered'
<1>0. Places
  BY DEF TypeOK, Places
<1>1. ASSUME NEW w \in MainPCs, GoTo(Main, w)
      PROVE  /\ pc'[Main] = w /\ pc'[Collector] = pc[Collector]
             /\ Quiescent <=> Quiescent'
  <2>1. pc'[Main] = w /\ \A d \in Clients \ {Main} : pc'[d] = pc[d]
    BY <1>0, <1>1, Moves, ClientKinds
  <2>2. QED BY <2>1, ClientKinds DEF Quiescent
<1>2. ASSUME NEW how \in {"ok", "failed"}, Leave(how)
      PROVE  /\ pc'[Main] = "leaving" /\ pc'[Collector] = pc[Collector]
             /\ Quiescent <=> Quiescent'
             /\ status' = how
  BY <1>1, <1>2 DEF Leave, MainPCs
<1> USE DEF MainPCs, Opening, Early, Late, StatementPCs
<1>3. CASE LoadConfig
  BY <1>1, <1>3 DEF LoadConfig, Ordered, poolVars
<1>4. CASE Migrate
  BY <1>1, <1>2, <1>4 DEF Migrate, Ordered, poolVars
<1>5. CASE StartCollector
  <2>1. /\ pc'[Main] = "prepare" /\ \A r \in Requests : pc'[r] = pc[r]
        /\ UNCHANGED <<closed, server, timer, status>>
    BY <1>0, <1>5, ClientKinds DEF StartCollector, Places, poolVars
  <2>2. pc[Main] = "opened" /\ (Quiescent <=> Quiescent')
    BY <1>5, <2>1 DEF StartCollector, Quiescent
  <2>3. QED BY <2>1, <2>2 DEF Ordered
<1>6. CASE Prepare
  BY <1>1, <1>2, <1>6 DEF Prepare, Ordered, poolVars
<1>7. CASE ListenerLost
  <2>1. /\ pc[Main] = "serving" /\ server \in {"unbound", "broken"}
        /\ Leave("failed") /\ UNCHANGED <<closed, server, timer>>
    BY <1>7 DEF ListenerLost, poolVars
  <2>2. pc'[Main] = "leaving" /\ (Quiescent <=> Quiescent') /\ status' = "failed"
    BY <1>2, <2>1
  <2>3. QED BY <2>1, <2>2 DEF Ordered
<1>8. CASE Shutdown
  BY <1>1, <1>8 DEF Shutdown, Ordered, poolVars
<1>9. CASE ShutdownDone
  BY <1>2, <1>9 DEF ShutdownDone, Ordered, poolVars
<1>10. CASE ShutdownLate
  <2>1. /\ pc[Main] = "shutdown" /\ timer = "fired"
        /\ Leave("failed") /\ UNCHANGED <<closed, server, timer>>
    BY <1>10 DEF ShutdownLate, poolVars
  <2>2. pc'[Main] = "leaving" /\ (Quiescent <=> Quiescent') /\ status' = "failed"
    BY <1>2, <2>1
  <2>3. QED BY <2>1, <2>2 DEF Ordered
<1>11. CASE CloseDB
  BY <1>1, <1>11 DEF CloseDB, ClosePool, Ordered
<1>12. CASE End
  BY <1>1, <1>12 DEF End, Ordered, poolVars
<1>13. QED
  BY <1>3, <1>4, <1>5, <1>6, <1>7, <1>8, <1>9, <1>10, <1>11, <1>12 DEF MainStep

\* The listener, the signal, the timer and the collector; a request begins
\* while the listener is open only.
LEMMA OthersOrdered ==
  ASSUME TypeOK, Ordered,
         \/ Listen \/ ServeFails \/ Signal \/ TimerFires
         \/ \E r \in Requests : RequestStep(r)
         \/ CollectorWakes \/ CollectorStops \/ UNCHANGED vars
  PROVE  Ordered'
<1>0. Places
  BY DEF TypeOK, Places
<1>1. CASE Listen \/ ServeFails \/ Signal \/ TimerFires \/ UNCHANGED vars
  <2>1. /\ pc' = pc /\ closed' = closed /\ status' = status
        /\ Quiescent' <=> Quiescent
    BY <1>1 DEF Listen, ServeFails, Signal, TimerFires, vars, poolVars, Quiescent
  <2>2. \/ server' = server /\ (timer' = timer \/ timer' = "fired")
        \/ /\ timer' = timer /\ server = "starting"
           /\ server' \in {"open", "unbound"}
        \/ timer' = timer /\ server = "open" /\ server' = "broken"
    BY <1>1 DEF Listen, ServeFails, Signal, TimerFires, vars, poolVars
  <2>3. QED BY <2>1, <2>2 DEF Ordered, Early, Opening, Late, StatementPCs
<1>2. ASSUME NEW r \in Requests, RequestStep(r) PROVE Ordered'
  <2>1. /\ UNCHANGED <<closed, server, timer, status>>
        /\ \E w \in {"idle", "new", "running"} : GoTo(r, w)
    BY <1>2 DEF RequestStep, Accept, Begin, Drop, Respond, poolVars
  <2>2. /\ pc'[Main] = pc[Main] /\ pc'[Collector] = pc[Collector]
        /\ \A q \in Requests \ {r} : pc'[q] = pc[q]
    BY <1>0, <2>1, Moves, ClientKinds DEF RequestPCs, StatementPCs
  <2>3. CASE Accept(r)
    BY <2>1, <2>2, <2>3 DEF Accept, Ordered, Early, Opening, Late, StatementPCs, Quiescent
  <2>4. CASE ~ Accept(r)
    <3>1. pc[r] # "idle"
      BY <1>2, <2>4 DEF RequestStep, Begin, Drop, Respond
    <3>2. ~ Quiescent
      BY <3>1 DEF Quiescent
    <3>3. QED BY <2>1, <2>2, <3>2 DEF Ordered
  <2>5. QED BY <2>3, <2>4
<1>3. CASE CollectorWakes \/ CollectorStops
  <2>1. /\ UNCHANGED <<closed, server, timer, status>> /\ pc[Collector] = "resting"
        /\ \E w \in {"running", "off"} : GoTo(Collector, w)
    BY <1>3 DEF CollectorWakes, CollectorStops, poolVars
  <2>2. pc'[Main] = pc[Main] /\ \A r \in Requests : pc'[r] = pc[r]
    BY <1>0, <2>1, Moves, ClientKinds DEF CollectorPCs, StatementPCs
  <2>3. (Quiescent' <=> Quiescent) /\ pc[Main] \notin Opening
    BY <2>1, <2>2 DEF Quiescent, Ordered
  <2>4. QED BY <2>1, <2>2, <2>3 DEF Ordered
<1>4. QED BY <1>1, <1>2, <1>3

-----------------------------------------------------------------------------
(* The inductive invariant holds *)

LEMMA Inductive == IInv /\ [Next]_vars => IInv'
<1> SUFFICES ASSUME IInv, [Next]_vars PROVE IInv'
  OBVIOUS
<1>1. ASSUME NEW c \in Clients, Statement(c) PROVE IInv'
  BY <1>1, StatementTyped, StatementAccounts, StatementOrdered DEF IInv
<1>2. CASE MainStep
  BY <1>2, MainTyped, OthersAccount, MainOrdered DEF IInv
<1>3. CASE \/ Listen \/ ServeFails \/ Signal \/ TimerFires
           \/ \E r \in Requests : RequestStep(r)
           \/ CollectorWakes \/ CollectorStops \/ UNCHANGED vars
  BY <1>3, OtherTyped, OthersAccount, OthersOrdered DEF IInv
<1>4. QED BY <1>1, <1>2, <1>3 DEF Next, Gone

LEMMA Begins == Init => IInv
<1> SUFFICES ASSUME Init PROVE IInv
  OBVIOUS
<1>1. /\ queue = <<>> /\ held = {} /\ closed = FALSE
      /\ pc[Main] = "config" /\ pc[Collector] = "off"
      /\ \A r \in Requests : pc[r] = "idle"
      /\ server = "none" /\ status = "none"
  BY ClientKinds DEF Init, PoolInit
<1>2. Accounted
  <2>1. IsFiniteSet(held) /\ Cardinality(held) = 0
    BY <1>1, FS_EmptySet
  <2>2. \A c \in Clients : pc[c] # "query" /\ pc[c] # "asking"
    BY <1>1, ClientKinds
  <2>3. Len(queue) = 0
    BY <1>1
  <2>4. QED
    BY <1>1, <2>1, <2>2, <2>3, PoolAssumption DEF Accounted, ConnectionsAccounted
<1>3. Ordered
  BY <1>1 DEF Ordered, Quiescent, Late, Early, Opening, StatementPCs
<1>4. QED BY <1>2, <1>3, InitTyped DEF IInv

LEMMA Invariance == Spec => []IInv
BY Begins, Inductive, PTL DEF Spec

-----------------------------------------------------------------------------
(* What follows from it *)

\* No connection of the pool is lost, lent twice or lent beyond its size,
\* through failures, cancellations and the closing (database.go, pgxpool).
THEOREM PoolAccounted == Spec => []ConnectionsAccounted
<1>1. IInv => ConnectionsAccounted
  BY DEF IInv, Accounted
<1>2. QED BY <1>1, Invariance, PTL

\* The pool is closed after the requests, or the 15 seconds are past or the
\* listener broke (main.go:121, 158-180).
THEOREM PoolClosedLast == Spec => []PoolOutlivesRequests
<1>1. IInv => PoolOutlivesRequests
  BY DEF IInv, Ordered, PoolOutlivesRequests, Quiescent, Late
<1>2. QED BY <1>1, Invariance, PTL

-----------------------------------------------------------------------------
(* The refinement of GracefulServer *)

\* The requests admitted and not answered, and the verdict, as mapped.
InFlight == {r \in Requests : pc[r] # "idle"}
Verdict == IF Alive THEN "none" ELSE status

\* A statement shows nothing outside.
LEMMA StatementMaps ==
  ASSUME IInv, NEW c \in Clients, Statement(c)
  PROVE  UNCHANGED <<Phase, InFlight, Verdict>>
<1>0. TypeOK /\ Places /\ pc[c] \in StatementPCs /\ Alive
  BY DEF IInv, TypeOK, Places, Statement, Ask, AskTooLate, Query, TurnedAway, GiveUp,
         Answer, StatementPCs
<1>1. /\ server' = server /\ \A d \in Clients \ {c} : pc'[d] = pc[d]
      /\ pc'[c] \notin {"ended", "idle"}
  <2>1. CASE Ask(c)
    BY <1>0, <2>1, Moves DEF Ask, RequestPCs, MainPCs, CollectorPCs, StatementPCs
  <2>2. CASE Query(c)
    BY <1>0, <2>2, Moves DEF Query, RequestPCs, MainPCs, CollectorPCs, StatementPCs
  <2>3. ASSUME NEW ok \in BOOLEAN, GoOn(c, ok)
        PROVE  /\ server' = server /\ \A d \in Clients \ {c} : pc'[d] = pc[d]
               /\ pc'[c] \notin {"ended", "idle"}
    BY <1>0, <2>3, GoesOn
  <2>4. Ask(c) \/ Query(c) \/ \E ok \in BOOLEAN : GoOn(c, ok)
    BY DEF Statement, AskTooLate, TurnedAway, GiveUp, Answer
  <2>5. QED BY <2>1, <2>2, <2>3, <2>4
<1>2. \A r \in Requests : pc[r] # "idle" <=> pc'[r] # "idle"
  BY <1>0, <1>1, ClientKinds DEF StatementPCs
<1>3. pc'[Main] # "ended"
  BY <1>0, <1>1, ClientKinds DEF Alive
<1>4. UNCHANGED InFlight
  BY <1>2 DEF InFlight
<1>5. QED BY <1>0, <1>1, <1>3, <1>4 DEF Phase, Verdict, Alive

\* Main opens nothing, stops what is open, and ends well or badly.
LEMMA MainMaps ==
  ASSUME IInv, MainStep
  PROVE  Service!Next \/ UNCHANGED <<Phase, InFlight, Verdict>>
<1>0. TypeOK /\ Places /\ Ordered
  BY DEF IInv, TypeOK, Places
<1>1. UNCHANGED InFlight
  <2>1. \A d \in Clients \ {Main, Collector} : pc'[d] = pc[d]
    BY <1>0 DEF MainStep, LoadConfig, Migrate, StartCollector, Prepare, ListenerLost,
                Shutdown, ShutdownDone, ShutdownLate, CloseDB, End, Leave, GoTo, Places
  <2>2. QED BY <2>1, ClientKinds DEF InFlight
<1>2. Alive
  BY DEF MainStep, LoadConfig, Migrate, StartCollector, Prepare, ListenerLost,
         Shutdown, ShutdownDone, ShutdownLate, CloseDB, End, Alive
<1>3. ASSUME NEW w, GoTo(Main, w) PROVE pc'[Main] = w
  BY <1>0, <1>3, ClientKinds DEF GoTo, Places
<1>4. ASSUME pc'[Main] = "ended", status' = "failed"
      PROVE  Service!Next
  BY <1>1, <1>2, <1>4 DEF Service!Next, Service!Fail, Phase, InFlight, Alive
<1>5. ASSUME pc'[Main] # "ended", server' = server
      PROVE  UNCHANGED <<Phase, InFlight, Verdict>>
  BY <1>1, <1>2, <1>5 DEF Phase, Verdict, Alive
<1>6. CASE LoadConfig \/ Migrate
  BY <1>3, <1>4, <1>5, <1>6 DEF LoadConfig, Migrate, Leave
<1>7. CASE StartCollector
  BY <1>0, <1>5, <1>7, ClientKinds DEF StartCollector, Places
<1>8. CASE Prepare
  <2>1. CASE GoTo(Main, "serving") /\ server' = "starting"
    <3>1. server = "none"
      BY <1>0, <1>8 DEF Prepare, Ordered, Early
    <3>2. QED BY <1>1, <1>2, <1>3, <2>1, <3>1 DEF Phase, Verdict, Alive
  <2>2. CASE Leave("failed") /\ server' = server
    BY <1>3, <1>5, <2>2 DEF Leave
  <2>3. QED BY <1>8, <2>1, <2>2 DEF Prepare
<1>9. CASE ListenerLost \/ ShutdownDone \/ ShutdownLate \/ CloseDB
  BY <1>3, <1>5, <1>9 DEF ListenerLost, ShutdownDone, ShutdownLate, CloseDB, Leave
<1>10. CASE Shutdown
  <2>1. pc'[Main] = "shutdown" /\ server' = "closed"
    BY <1>3, <1>10 DEF Shutdown
  <2>2. Phase' = "draining" /\ Phase \in {"starting", "open", "draining"}
    BY <1>2, <2>1 DEF Phase, Alive
  <2>3. UNCHANGED Verdict
    BY <1>2, <2>1 DEF Verdict, Alive
  <2>4. CASE Phase = "draining"
    BY <1>1, <2>2, <2>3, <2>4
  <2>5. CASE Phase # "draining"
    BY <1>1, <2>2, <2>3, <2>5 DEF Service!Next, Service!Stop, InFlight, Verdict
  <2>6. QED BY <2>4, <2>5
<1>11. CASE End
  <2>1. pc'[Main] = "ended" /\ status' = status /\ pc[Main] = "closing"
    BY <1>3, <1>11 DEF End
  <2>2. status \in {"ok", "failed"}
    BY <1>0, <2>1 DEF Ordered, Late
  <2>3. CASE status = "ok"
    <3>1. server = "closed" /\ Quiescent
      BY <1>0, <2>3 DEF Ordered
    <3>2. Phase = "draining" /\ InFlight = {}
      BY <1>2, <3>1 DEF Phase, InFlight, Quiescent
    <3>3. QED
      BY <1>1, <2>1, <2>3, <3>2
      DEF Service!Next, Service!Succeed, Phase, InFlight, Alive
  <2>4. CASE status = "failed"
    BY <1>4, <2>1, <2>4
  <2>5. QED BY <2>2, <2>3, <2>4
<1>12. QED BY <1>6, <1>7, <1>8, <1>9, <1>10, <1>11 DEF MainStep

\* A request is admitted while the server is open, and answered until the end.
LEMMA RequestMaps ==
  ASSUME IInv, NEW r \in Requests, RequestStep(r)
  PROVE  Service!Next \/ UNCHANGED <<Phase, InFlight, Verdict>>
<1>0. Places /\ Alive
  BY DEF IInv, TypeOK, Places, RequestStep, Accept, Begin, Drop, Respond
<1>1. /\ UNCHANGED <<server, status>>
      /\ \E w \in {"idle", "new", "running"} : GoTo(r, w)
  BY DEF RequestStep, Accept, Begin, Drop, Respond
<1>2. /\ pc'[Main] = pc[Main] /\ \A q \in Requests \ {r} : pc'[q] = pc[q]
      /\ \A w : GoTo(r, w) => pc'[r] = w
  BY <1>0, <1>1, ClientKinds DEF GoTo, Places
<1>3. UNCHANGED <<Phase, Verdict>> /\ Phase # "over"
  BY <1>0, <1>1, <1>2 DEF Phase, Verdict, Alive
<1>4. CASE Accept(r)
  <2>1. pc[r] = "idle" /\ pc'[r] = "new" /\ Phase = "open"
    BY <1>0, <1>2, <1>4 DEF Accept, Phase
  <2>2. InFlight' = InFlight \cup {r} /\ r \notin InFlight /\ r \in InFlight'
    BY <1>2, <2>1 DEF InFlight
  <2>3. QED
    BY <1>3, <2>1, <2>2 DEF Service!Next, Service!Admit, InFlight, Verdict
<1>5. CASE Begin(r)
  <2>1. InFlight' = InFlight
    BY <1>2, <1>5 DEF Begin, InFlight
  <2>2. QED BY <1>3, <2>1
<1>6. CASE Drop(r) \/ Respond(r)
  <2>1. pc[r] # "idle" /\ pc'[r] = "idle"
    BY <1>2, <1>6 DEF Drop, Respond
  <2>2. InFlight' = InFlight \ {r} /\ r \in InFlight
    BY <1>2, <2>1 DEF InFlight
  <2>3. QED BY <1>3, <2>2 DEF Service!Next, Service!Answer, InFlight, Verdict
<1>7. QED BY <1>4, <1>5, <1>6 DEF RequestStep

\* The listener opens the service; the rest does not show.
LEMMA OthersMap ==
  ASSUME IInv,
         \/ Listen \/ ServeFails \/ Signal \/ TimerFires
         \/ CollectorWakes \/ CollectorStops \/ UNCHANGED vars
  PROVE  Service!Next \/ UNCHANGED <<Phase, InFlight, Verdict>>
<1>1. CASE Listen
  <2>1. /\ Alive /\ server = "starting" /\ server' \in {"open", "unbound"}
        /\ pc' = pc /\ status' = status
    BY <1>1 DEF Listen
  <2>2. UNCHANGED <<InFlight, Verdict>> /\ Phase = "starting"
    BY <2>1 DEF InFlight, Verdict, Alive, Phase
  <2>3. Phase' \in {"open", "starting"}
    BY <2>1 DEF Phase, Alive
  <2>4. CASE Phase' = "open"
    BY <2>2, <2>4 DEF Service!Next, Service!Open, InFlight, Verdict
  <2>5. QED BY <2>2, <2>3, <2>4
<1>2. CASE ServeFails
  BY <1>2 DEF ServeFails, InFlight, Verdict, Phase, Alive
<1>3. CASE Signal \/ TimerFires \/ UNCHANGED vars
  BY <1>3 DEF Signal, TimerFires, vars, InFlight, Verdict, Phase, Alive
<1>4. CASE CollectorWakes \/ CollectorStops
  <2>1. /\ \A d \in Clients \ {Collector} : pc'[d] = pc[d]
        /\ UNCHANGED <<server, status>>
    BY <1>4 DEF CollectorWakes, CollectorStops, GoTo, IInv, TypeOK
  <2>2. pc'[Main] = pc[Main] /\ \A r \in Requests : pc'[r] = pc[r]
    BY <2>1, ClientKinds
  <2>3. QED BY <2>1, <2>2 DEF InFlight, Verdict, Phase, Alive
<1>5. QED BY <1>1, <1>2, <1>3, <1>4

\* The process is a graceful server: no request is taken before it is ready or
\* after the signal, and status 0 means that each was answered (main.go:100-183).
THEOREM ServiceImplemented == Spec => ImplementsService
<1>1. Init => Service!Init
  BY ClientKinds DEF Init, Service!Init, Phase, Alive
<1>2. IInv /\ [Next]_vars =>
        [Service!Next]_<<Phase, {r \in Requests : pc[r] # "idle"},
                         IF Alive THEN "none" ELSE status>>
  BY StatementMaps, MainMaps, RequestMaps, OthersMap
  DEF Next, Gone, InFlight, Verdict
<1>3. QED
  BY <1>1, <1>2, Invariance, PTL DEF Spec, ImplementsService, Service!Spec, Service!serviceVars
=============================================================================
