---------------------------- MODULE MCCreateRepo ----------------------------
(***************************************************************************)
(* Small instances of CreateRepo for TLC: the forms worth telling apart.   *)
(***************************************************************************)
EXTENDS CreateRepo, TLC

CONSTANTS r1, r2, n1, n2

\* The form with everything that works, and what differs from it.
Good == [name |-> n1, valid |-> TRUE, template |-> FALSE, readme |-> TRUE,
         gitignore |-> "Go", license |-> "mit", tag |-> TRUE, sha256 |-> FALSE]

\* A second user of the same name, with other files; a form for each way to fail.
VariousForms ==
  {Good,
   [Good EXCEPT !.gitignore = "Rust", !.tag = FALSE],
   [Good EXCEPT !.valid = FALSE],
   [Good EXCEPT !.template = TRUE],
   [Good EXCEPT !.gitignore = ""],
   [Good EXCEPT !.gitignore = "unknown"],
   [Good EXCEPT !.license = "unknown"],
   [Good EXCEPT !.sha256 = TRUE],
   [Good EXCEPT !.name = n2, !.gitignore = "Rust"],
   [Good EXCEPT !.name = n2, !.readme = FALSE, !.gitignore = "", !.license = "",
                !.tag = FALSE]}

\* Slots are interchangeable.
Symmetry == Permutations(Requests)
=============================================================================
