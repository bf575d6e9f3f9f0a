---------------------------- MODULE SessionStore ----------------------------
(***************************************************************************)
(* What sign-in promises about sessions, whatever requests are in flight:  *)
(* a session is opened once, for a member, and belongs to that member for  *)
(* as long as it lasts; once ended it never comes back; a member who       *)
(* leaves takes every session along, and returns as a new member.          *)
(***************************************************************************)
VARIABLES
  members,   \* who may hold sessions
  former,    \* who left
  holder,    \* open session |-> the member it belongs to
  ended      \* sessions that were open once

storeVars == <<members, former, holder, ended>>

Init ==
  /\ former = {} /\ ended = {}
  /\ \A s \in DOMAIN holder : holder[s] \in members

\* Exactly the sessions of S stay, with their holders.
Keep(S) == holder' = [s \in S |-> holder[s]]

Join ==
  /\ \E m \in members' : m \notin members \cup former /\ members' = members \cup {m}
  /\ UNCHANGED <<former, holder, ended>>

Open ==
  /\ \E s \in DOMAIN holder' :
       /\ s \notin DOMAIN holder \cup ended
       /\ \E m \in members :
            holder' = [q \in DOMAIN holder \cup {s} |-> IF q = s THEN m ELSE holder[q]]
  /\ UNCHANGED <<members, former, ended>>

Close ==
  /\ \E S \in SUBSET DOMAIN holder :
       S # {} /\ Keep(DOMAIN holder \ S) /\ ended' = ended \cup S
  /\ UNCHANGED <<members, former>>

Leave ==
  \E m \in members :
    /\ members' = members \ {m} /\ former' = former \cup {m}
    /\ LET S == {s \in DOMAIN holder : holder[s] = m}
       IN  Keep(DOMAIN holder \ S) /\ ended' = ended \cup S

Next == Join \/ Open \/ Close \/ Leave

Spec == Init /\ [][Next]_storeVars
=============================================================================
