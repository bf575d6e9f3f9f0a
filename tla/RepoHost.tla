------------------------------ MODULE RepoHost ------------------------------
(***************************************************************************)
(* What creating repositories comes to at the provider: a name is taken    *)
(* once, empty; its repository receives one initial commit or is left      *)
(* empty for good.  Nothing gives a name back, and no later request        *)
(* finishes what an earlier one left.                                      *)
(***************************************************************************)
VARIABLE stage      \* name taken |-> "making", "ready" or "left"

Init == DOMAIN stage = {}

At(s) == {n \in DOMAIN stage : stage[n] = s}

\* The answer to a creation may be lost: then nobody will fill the repository.
Take ==
  \E n \in DOMAIN stage' : \E s \in {"making", "left"} :
    /\ n \notin DOMAIN stage
    /\ stage' = [k \in DOMAIN stage \cup {n} |-> IF k = n THEN s ELSE stage[k]]

Finish ==
  \E n \in At("making") : stage' = [stage EXCEPT ![n] = "ready"]

\* One request gives up, or all of them in a crash.
GiveUp ==
  \E S \in SUBSET At("making") :
    /\ S # {}
    /\ stage' = [n \in DOMAIN stage |-> IF n \in S THEN "left" ELSE stage[n]]

Next == Take \/ Finish \/ GiveUp

Spec == Init /\ [][Next]_stage
=============================================================================
