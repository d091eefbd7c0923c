----------------------------- MODULE MCUsageScan -----------------------------
(***************************************************************************)
(* Instances of the scan of the tools' logs, one per scene:                *)
(*   "scan"     one process, two files that grow, all row caps are reached *)
(*   "race"     two processes, caps of one row                             *)
(*   "upgrade"  two processes after an upgrade, with old sessions          *)
(*   "events"   monitoring events (MonitoringEvents), two processes        *)
(*   "rollout"  the log of a Codex session (CodexRollout)                  *)
(* A behaviour plays in one scene; what the scene does not use rests.      *)
(***************************************************************************)
EXTENDS MonitoringEvents, TLC

CONSTANTS f1, f2, p1, p2, p3, m1, m2, unknown

VARIABLES
    scene,
    logs, today, sessions, rollup, sources, scanned_files, rpc, rjob, writes, rcrashes,
                                    \* UsageRollups'
    log, model, session, used       \* CodexRollout's

ProcSymmetry == Permutations({p1, p2})

OneProc == {p3}
OneFile == {f1}
TwoFiles == {f1, f2}
AnyLine == BOOLEAN
Models == {m1, m2}

Days == 1..3
uses(a, b, c) == [use |-> [d \in Days |-> IF d = 1 THEN a ELSE IF d = 2 THEN b ELSE c],
                  big |-> FALSE, bad |-> FALSE]
Empty == [f \in TwoFiles |-> uses(0, 0, 0)]
Spread == [f \in OneFile |-> uses(1, 1, 0)]
Growing == {uses(1, 0, 0), uses(1, 1, 0), uses(0, 1, 1), [uses(1, 1, 0) EXCEPT !.big = TRUE],
            [uses(0, 0, 0) EXCEPT !.bad = TRUE]}
Walk == (f1 :> 1) @@ (f2 :> 2)
TwoDays == {uses(1, 1, 0), uses(0, 2, 0)}

Growth == INSTANCE UsageRollups WITH
    disk <- logs, cache <- scanned_files, pc <- rpc, job <- rjob, crashes <- rcrashes,
    Proc <- OneProc, File <- TwoFiles, Day <- Days, Today0 <- 2, Content <- Growing,
    First <- Empty, Upgraded <- FALSE, Explicit <- {}, Lookback <- 2, Retention <- 1,
    Position <- Walk, MaxEntries <- 2, MaxCandidates <- 2,
    MaxFiles <- 1, MaxRollups <- 2, MaxSources <- 2, MaxCache <- 3, MaxWrites <- 2,
    MaxCrashes <- 1
Race == INSTANCE UsageRollups WITH
    disk <- logs, cache <- scanned_files, pc <- rpc, job <- rjob, crashes <- rcrashes,
    File <- TwoFiles, Day <- Days, Today0 <- 2, Content <- TwoDays,
    First <- Empty, Upgraded <- FALSE, Explicit <- {}, Lookback <- 2, Retention <- 1,
    Position <- Walk, MaxEntries <- 2, MaxCandidates <- 2,
    MaxFiles <- 1, MaxRollups <- 1, MaxSources <- 1, MaxCache <- 3, MaxWrites <- 1,
    MaxCrashes <- 0
Upgrade == INSTANCE UsageRollups WITH
    disk <- logs, cache <- scanned_files, pc <- rpc, job <- rjob, crashes <- rcrashes,
    File <- OneFile, Day <- Days, Today0 <- 2, Content <- Growing,
    First <- Spread, Upgraded <- TRUE, Explicit <- {}, Lookback <- 2, Retention <- 1,
    Position <- Walk, MaxEntries <- 2, MaxCandidates <- 2,
    MaxFiles <- 1, MaxRollups <- 9, MaxSources <- 9, MaxCache <- 3, MaxWrites <- 0,
    MaxCrashes <- 1
Rollout == INSTANCE CodexRollout WITH
    Model <- Models, Unknown <- unknown, Window <- 3, Unsplit <- TRUE, Cumulative <- FALSE,
    MaxLines <- 5, MaxTokens <- 1

rollups_vars == <<logs, today, sessions, rollup, sources, scanned_files, rpc, rjob, writes,
                  rcrashes>>
rollout_vars == <<log, model, session, used>>

InitScene ==
    /\ scene \in {"scan", "race", "upgrade", "events", "rollout"}
    /\ IF scene = "race" THEN Race!Init
       ELSE IF scene = "upgrade" THEN Upgrade!Init ELSE Growth!Init
    /\ Init
    /\ Rollout!Init
    /\ scene # "rollout" => model = m1

NextScene ==
    \/ scene = "scan"    /\ Growth!Next  /\ UNCHANGED <<scene, vars, rollout_vars>>
    \/ scene = "race"    /\ Race!Next    /\ UNCHANGED <<scene, vars, rollout_vars>>
    \/ scene = "upgrade" /\ Upgrade!Next /\ UNCHANGED <<scene, vars, rollout_vars>>
    \/ scene = "events"  /\ Next         /\ UNCHANGED <<scene, rollups_vars, rollout_vars>>
    \/ scene = "rollout" /\ Rollout!Next /\ UNCHANGED <<scene, vars, rollups_vars>>

ScanSpec == InitScene /\ [][NextScene]_<<scene, vars, rollups_vars, rollout_vars>>

-----------------------------------------------------------------------------
\* UsageRollups: without old sessions every total is the sum of its sources.
RollupIsSumOfSources == scene # "upgrade" => Growth!RollupIsSumOfSources

\* UsageRollups: a file that one process's default scan skips is counted.
SkippedIsCounted == scene = "scan" => Growth!SkippedIsCounted

\* UsageRollups: after an upgrade the old sessions are folded in before any scan.
CompactionComesFirst == scene = "upgrade" => Upgrade!CompactionComesFirst

\* CodexRollout: a log that is read whole is counted exactly, and no log is counted
\* for more than was used.
RolloutIsCounted == Rollout!RolloutIsCounted
=============================================================================
