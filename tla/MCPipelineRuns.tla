--------------------------- MODULE MCPipelineRuns ---------------------------
(* Instances of PipelineRuns for TLC.                                      *)
EXTENDS PipelineRuns

\* A plan with an entry that the runner does not know.
SmallPlan == <<"acquire", "wiki_notes", "integrity", "export">>

\* The plan of config/runtime.example.yaml, without the stages that the runner
\* treats exactly like normalize.
ShippedPlan == <<"acquire", "normalize", "audit", "export">>

=============================================================================
