---------------------------- MODULE MCPublication ----------------------------
(* Instance of Publication for TLC.                                        *)
EXTENDS Publication, TLC

CONSTANTS r1, r2, c1, c2, j1, j2

\* The stage that refreshes the board itself.
ExportOnly == <<"export">>

\* Runs, callers and jobs are interchangeable.
Interchangeable == Permutations(Runs) \cup Permutations(Callers) \cup Permutations(Jobs)

\* Bound, as a state constraint: the reports of the wiki agent are followed with
\* one run, the limit of the board with two.  A report touches the row of the run
\* it names and no other, and the groups of the board depend on no wiki column.
ReportsOnOneRun ==
  \/ \A r, q \in Runs : status[r] # "absent" /\ status[q] # "absent" => r = q
  \/ \A r \in Runs : wiki[r] = "none" /\ \A c \in Callers : call[c] = NoCall

=============================================================================
