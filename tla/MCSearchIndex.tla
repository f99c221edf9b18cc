---------------------------- MODULE MCSearchIndex ----------------------------
(* Instances of SearchIndex for TLC.                                       *)
EXTENDS SearchIndex, TLC

CONSTANTS r1, r2, r3, c1, c2, c3

\* The stages that write what vector reads, vector, and one after it.
IndexPlan == <<"normalize", "vector", "export">>

OwnTwo == (r1 :> c1) @@ (r2 :> c2)
OwnCommits == OwnTwo @@ (r3 :> c3)

\* Bound, as a state constraint: a kill or a database error, but not both.
OneFailure == crashes + dbErrors <= 1

=============================================================================
