-------------------------------- MODULE Pool --------------------------------
(***************************************************************************)
(* The pool of database connections (pgxpool) as internal/database uses    *)
(* it: every query takes one connection and gives it back, whoever finds   *)
(* none waits in line, and Close refuses newcomers and waits for what is   *)
(* out.  A client is whoever runs queries one at a time: a request, the    *)
(* collector, the start-up.                                                *)
(***************************************************************************)
EXTENDS Integers, FiniteSets, SequencesExt

CONSTANT PoolSize     \* connections the pool may have at a time

ASSUME PoolAssumption == PoolSize \in Nat \ {0}

VARIABLES
  queue,    \* clients waiting for a connection, in order of arrival
  held,     \* clients whose query is at the database
  closed    \* Close was called

poolVars == <<queue, held, closed>>

PoolInit == queue = <<>> /\ held = {} /\ closed = FALSE

\* Mutant: the last to come is served first.
EnqueueFirst(c) == queue' = <<c>> \o queue /\ UNCHANGED <<held, closed>>

Enqueue(c) == queue' = Append(queue, c) /\ UNCHANGED <<held, closed>>

\* The next in line, with a connection to have.
IsNext(c) == queue # <<>> /\ c = Head(queue) /\ Cardinality(held) < PoolSize

Acquire(c) ==
  /\ IsNext(c) /\ ~ closed
  /\ queue' = Tail(queue) /\ held' = held \cup {c}
  /\ UNCHANGED closed

\* A waiter finds the pool closed when its turn comes.
Refuse(c) ==
  /\ IsNext(c) /\ closed
  /\ queue' = Tail(queue)
  /\ UNCHANGED <<held, closed>>

\* The context of a waiter ends.
Withdraw(c) ==
  /\ \E i \in 1 .. Len(queue) : queue[i] = c /\ queue' = RemoveAt(queue, i)
  /\ UNCHANGED <<held, closed>>

\* Mutant: a connection is given back while the pool is open only.
ReleaseWhileOpen(c) ==
  /\ held' = IF closed THEN held ELSE held \ {c}
  /\ UNCHANGED <<queue, closed>>

Release(c) == held' = held \ {c} /\ UNCHANGED <<queue, closed>>

ClosePool == closed' = TRUE /\ UNCHANGED <<queue, held>>

\* What Close waits for.
AllReturned == held = {}
=============================================================================
