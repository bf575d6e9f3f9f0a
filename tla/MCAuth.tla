------------------------------- MODULE MCAuth -------------------------------
(***************************************************************************)
(* Small instances of Auth for TLC: model values for requests, browsers,   *)
(* users and keys, strings for providers, and the functions a .cfg cannot  *)
(* write.                                                                  *)
(***************************************************************************)
EXTENDS Auth, TLC

CONSTANTS r1, r2, b1, b2, u1, u2, k1, k2

\* u1 is a user of the first provider, u2 of the second where there are two.
OneProvider == [u \in Users |-> "gitlab"]
TwoProviders == [u \in Users |-> IF u = u1 THEN "gitlab" ELSE "github"]

\* The migrations of schema.sql and the embedded ones.
SchemaColumns == {"id", "provider", "provider_account_id", "email", "username",
                  "display_name", "avatar_url"}
EmbeddedColumns == SchemaColumns \ {"provider_account_id"}

\* Slots are interchangeable; users of one provider and keys are too.
Symmetry == Permutations(Requests) \cup Permutations(Keys)
SymmetryWithUsers == Symmetry \cup Permutations(Users)
=============================================================================
