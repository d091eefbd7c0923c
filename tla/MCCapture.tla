------------------------------ MODULE MCCapture ------------------------------
(***************************************************************************)
(* Instances of the client's processes over records.db, one per scene:     *)
(*   "race"   two processes, two rows of one event, two seconds            *)
(*   "many"   one process at a time, four rows: all caps are exceeded      *)
(*   "pair"   the prune at statement level (RecordPrune), two processes    *)
(*   "alone"  the same with one process, which may be killed               *)
(* A behaviour plays in one scene; what the scene does not use rests.      *)
(***************************************************************************)
EXTENDS MCCaptureProcess

CONSTANT p3

VARIABLES
    scene,
    kinds, last_id, ppc, cap, over, crashes     \* RecordPrune's

Pair  == {p1, p2}
Alone == {p3}

TwoPrunes == INSTANCE RecordPrune WITH
    rows <- kinds, pc <- ppc, at <- cap, Proc <- Pair, MaxSynced <- 1, MaxSpent <- 1,
    MaxDead <- 1, MaxPending <- 1, MaxBatch <- 2, MaxId <- 6, MaxCrashes <- 0
OnePrune == INSTANCE RecordPrune WITH
    rows <- kinds, pc <- ppc, at <- cap, Proc <- Alone, MaxSynced <- 2, MaxSpent <- 1,
    MaxDead <- 1, MaxPending <- 1, MaxBatch <- 2, MaxId <- 6, MaxCrashes <- 1

prune_vars == <<kinds, last_id, ppc, cap, over, crashes>>

Init ==
    /\ scene \in {"race", "many", "pair", "alone"}
    /\ ClientInit
    /\ IF scene = "alone" THEN OnePrune!PruneInit ELSE TwoPrunes!PruneInit

records_in_hand == {rec[p] : p \in Proc} \ {None}
working == {p \in Proc : pc[p] # "idle"}

FewRows ==
    RowsStarted <= 2 /\ \A r \in records_in_hand : r.event \in OneEvent /\ r.repo \in Contexts
OneAtATime ==
    clock = 0 /\ Cardinality(working) <= 1 /\ \A r \in records_in_hand : r.repo # Outside

Next ==
    \/ scene = "race"  /\ ClientNext /\ FewRows'    /\ UNCHANGED <<scene, prune_vars>>
    \/ scene = "many"  /\ ClientNext /\ OneAtATime' /\ UNCHANGED <<scene, prune_vars>>
    \/ scene = "pair"  /\ TwoPrunes!PruneNext /\ UNCHANGED <<scene, client_vars>>
    \/ scene = "alone" /\ OnePrune!PruneNext  /\ UNCHANGED <<scene, client_vars>>

Spec == Init /\ [][Next]_<<scene, client_vars, prune_vars>>

-----------------------------------------------------------------------------
\* RecordPrune: however the COUNTs and DELETEs of two processes are mixed, the caps
\* hold once both are through, and a count that is out of date deletes at most the rows
\* of a transaction per process, and of one killed before it pruned.
RacingPrunesAreBounded ==
    /\ scene = "pair" => TwoPrunes!CapsHold /\ TwoPrunes!StaleDeleteIsSmall
    /\ scene = "alone" => OnePrune!CapsHold /\ OnePrune!StaleDeleteIsSmall

\* CaptureProcess, RecordPrune: a prune takes no row that could still be uploaded while
\* a newer pending one would do, and without a second process the latest rows of each
\* cap stay.
PruneKeepsRows ==
    PruneKeepsUploadable /\ [][scene = "alone" => OnePrune!KeepsLatest]_<<scene, prune_vars>>
=============================================================================
