----------------------------- MODULE LoginFlow -----------------------------
(***************************************************************************)
(* What sign-in promises about a login: it begins once, its user agrees to *)
(* it once, it is presented to the provider at most once and only after    *)
(* its user agreed, and it opens at most one session, which is for the     *)
(* user who agreed.  At any point it may come to nothing, for good.        *)
(***************************************************************************)
VARIABLES
  stage,     \* login |-> "begun", "presented", "trusted" or "over"
  agreed,    \* login |-> the user who agreed to it
  holder     \* open session |-> its user

flowVars == <<stage, agreed, holder>>

\* f with x sent to y.
With(f, x, y) == [z \in DOMAIN f \cup {x} |-> IF z = x THEN y ELSE f[z]]

\* No login yet; sessions may be open from before.
Init == DOMAIN stage = {} /\ DOMAIN agreed = {}

Begin ==
  /\ \E l \in DOMAIN stage' : l \notin DOMAIN stage /\ stage' = With(stage, l, "begun")
  /\ UNCHANGED <<agreed, holder>>

\* Agreeing may come too late.
Agree ==
  /\ \E l \in DOMAIN agreed' :
       /\ l \in DOMAIN stage /\ l \notin DOMAIN agreed
       /\ agreed' = With(agreed, l, agreed'[l])
  /\ UNCHANGED <<stage, holder>>

Moves(l, from, to) == stage[l] = from /\ stage' = With(stage, l, to)

Present ==
  /\ \E l \in DOMAIN agreed : Moves(l, "begun", "presented")
  /\ UNCHANGED <<agreed, holder>>

\* The provider vouches for the user.
Trust ==
  /\ \E l \in DOMAIN agreed : Moves(l, "presented", "trusted")
  /\ UNCHANGED <<agreed, holder>>

Open ==
  /\ \E l \in DOMAIN agreed :
       /\ Moves(l, "trusted", "over")
       /\ \E s \in DOMAIN holder' :
            s \notin DOMAIN holder /\ holder' = With(holder, s, agreed[l])
  /\ UNCHANGED agreed

\* Logins come to nothing, however far they were.
Abandon ==
  /\ UNCHANGED <<agreed, holder>>
  /\ DOMAIN stage' = DOMAIN stage
  /\ stage' = [l \in DOMAIN stage |-> IF stage'[l] = stage[l] THEN stage[l] ELSE "over"]

\* Sessions end.
Close ==
  /\ DOMAIN holder' \subseteq DOMAIN holder
  /\ holder' = [s \in DOMAIN holder' |-> holder[s]]
  /\ UNCHANGED <<stage, agreed>>

Next == Abandon \/ Begin \/ Agree \/ Present \/ Trust \/ Open \/ Close

Spec == Init /\ [][Next]_flowVars
=============================================================================
