------------------------------- MODULE Basics -------------------------------
(***************************************************************************)
(* What every module of the project shares: the clock, and tables as       *)
(* partial functions from keys to rows.                                    *)
(***************************************************************************)
EXTENDS Integers

CONSTANT MaxTime    \* bound: the last instant a checked behaviour reaches

ASSUME BasicsAssumption == MaxTime \in Nat

VARIABLE now        \* the application server's clock (time.Now)

Tick == /\ now < MaxTime
        /\ now' = now + 1

(***************************************************************************)
(* The table with row stored under key (INSERT, or UPDATE of an existing   *)
(* key), and the table without the rows of a set of keys (DELETE).         *)
(***************************************************************************)
Put(table, key, row) ==
  [k \in DOMAIN table \cup {key} |-> IF k = key THEN row ELSE table[k]]

Drop(table, keys) == [k \in DOMAIN table \ keys |-> table[k]]

NoRows == [k \in {} |-> 0]
=============================================================================
