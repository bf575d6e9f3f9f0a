--------------------------- MODULE GracefulServer ---------------------------
(***************************************************************************)
(* What the life of the server comes to for those who use it: requests are *)
(* admitted between the end of the start-up and the order to stop; a       *)
(* process that ends well has answered each of them; one that ends badly   *)
(* says so.                                                                *)
(***************************************************************************)
VARIABLES
  phase,      \* "starting", "open", "draining" or "over"
  inflight,   \* requests admitted and not answered
  verdict     \* "none" until the end, then "ok" or "failed"

serviceVars == <<phase, inflight, verdict>>

Init == phase = "starting" /\ inflight = {} /\ verdict = "none"

Open ==
  /\ phase = "starting" /\ phase' = "open"
  /\ UNCHANGED <<inflight, verdict>>

Admit ==
  /\ phase = "open"
  /\ \E r \in inflight' : r \notin inflight /\ inflight' = inflight \cup {r}
  /\ UNCHANGED <<phase, verdict>>

Answer ==
  /\ phase # "over"
  /\ \E r \in inflight : inflight' = inflight \ {r}
  /\ UNCHANGED <<phase, verdict>>

Stop ==
  /\ phase \in {"starting", "open"} /\ phase' = "draining"
  /\ UNCHANGED <<inflight, verdict>>

Succeed ==
  /\ phase = "draining" /\ inflight = {}
  /\ phase' = "over" /\ verdict' = "ok"
  /\ UNCHANGED inflight

Fail ==
  /\ phase # "over"
  /\ phase' = "over" /\ verdict' = "failed"
  /\ UNCHANGED inflight

Next == Open \/ Admit \/ Answer \/ Stop \/ Succeed \/ Fail

Spec == Init /\ [][Next]_serviceVars
=============================================================================
