------------------------------ MODULE MCPipeline ------------------------------
(***************************************************************************)
(* Instances of the edit pipeline, one per scene:                          *)
(*   "one"  one process at a time, rows from inside and outside of a       *)
(*          repository and without a branch, two faults and two outages    *)
(*   "two"  two processes and one outage                                   *)
(***************************************************************************)
EXTENDS MCEditPipeline

VARIABLE scene

Init == scene \in {"one", "two"} /\ PipelineInit

working == {p \in Proc : pc[p] # "idle"}
contexts == {rec[p].repo : p \in {q \in Proc : rec[q] # None}}

Next ==
    /\ \/ scene = "one" /\ PipelineNext /\ Cardinality(working') <= 1
       \/ scene = "two" /\ PipelineNext
             /\ contexts' \subseteq InRepo /\ faults' = 0 /\ outages' <= 1
    /\ UNCHANGED scene

Spec == Init /\ [][Next]_<<scene, pipeline_vars>>
=============================================================================
