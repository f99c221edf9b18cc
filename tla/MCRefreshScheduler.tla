------------------------- MODULE MCRefreshScheduler -------------------------
(* Instances of RefreshScheduler for TLC.                                  *)
EXTENDS RefreshScheduler, TLC

CONSTANTS
  r1, r2, r3, s1,
  MaxFaults   \* bound: kills and failed transactions of one behaviour, together

\* The one stage that touches the sources table.
AcquireOnly == <<"acquire">>

\* Three runs for a single source.
OneSource == (r1 :> s1) @@ (r2 :> s1) @@ (r3 :> s1)

\* Run ids are handed out in order.  All runs are of one source and ids are not
\* compared, so this leaves one behaviour of every set of symmetric ones.
InOrder ==
  /\ status'[r2] # "absent" => status'[r1] # "absent"
  /\ status'[r3] # "absent" => status'[r2] # "absent"

FewFaults == crashes' + dbErrors' + schedErrors' <= MaxFaults

OrderedNext == MNext /\ InOrder /\ FewFaults

OrderedSpec == MInit /\ [][OrderedNext]_allVars /\ MFairness

=============================================================================
