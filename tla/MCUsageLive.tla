----------------------------- MODULE MCUsageLive -----------------------------
(***************************************************************************)
(* What must happen to usage in the end, one instance per scene:           *)
(*   "outbox"  two rollups that change, payloads that fail, expire and are *)
(*             cut by the caps (UsageOutbox)                               *)
(*   "scan"    more files than one run may scan (UsageRollups)             *)
(*   "events"  two processes that fail on each other's locks and old       *)
(*             snapshots (MonitoringEvents)                                *)
(* A behaviour plays in one scene; what the scene does not use rests.      *)
(***************************************************************************)
EXTENDS MCUsageRollups

CONSTANTS none, v1, v2

VARIABLES
    scene,
    row, outbox, now, opc, otodo, queue, server, orphans, changes, fails, ocrashes,
    high, known, overtaken,         \* UsageOutbox's
    mdisk, seen, mcache, records, writer, mpc, mjob, todo, view, stale, captures,
    mcrashes, ever_seen, lost       \* MonitoringEvents'

OneProc == {p1}
TwoProcs == {p1, p2}
OneFile == {f1}
TwoRollups == {1, 2}
Values == {v1, v2}
WithTime == {TRUE}
Various == {uses(1, 1, 0), [uses(0, 1, 1) EXCEPT !.big = TRUE], [Nothing EXCEPT !.bad = TRUE]}

Outbox == INSTANCE UsageOutbox WITH
    pc <- opc, todo <- otodo, crashes <- ocrashes,
    None <- none, Value <- Values, Proc <- OneProc, Rollup <- TwoRollups, Sub <- {},
    MaxItems <- 1, MaxRetry <- 2, Ttl <- 0, MaxRows <- 2, MaxWeight <- 3, MaxTime <- 1,
    MaxChanges <- 2, MaxFails <- 2, MaxCrashes <- 0
Events == INSTANCE MonitoringEvents WITH
    disk <- mdisk, cache <- mcache, pc <- mpc, job <- mjob, crashes <- mcrashes,
    Proc <- TwoProcs, File <- OneFile, None <- none, Stamped <- WithTime, InRepo <- TRUE,
    MaxWindow <- 1, MaxSeen <- 1, MaxRecords <- 1, MaxLines <- 2, MaxCaptures <- 1,
    MaxCrashes <- 1

outbox_vars == <<row, outbox, now, opc, otodo, queue, server, orphans, changes, fails,
                 ocrashes, high, known, overtaken>>
events_vars == <<mdisk, seen, mcache, records, writer, mpc, mjob, todo, view, stale,
                 captures, mcrashes, ever_seen, lost>>

InitScene ==
    /\ scene \in {"outbox", "scan", "events"}
    /\ Outbox!Init
    /\ Init
    /\ Events!Init

NextScene ==
    \/ scene = "outbox" /\ Outbox!Next /\ UNCHANGED <<scene, vars, events_vars>>
    \/ scene = "scan"   /\ Next        /\ UNCHANGED <<scene, outbox_vars, events_vars>>
    \/ scene = "events" /\ Events!Next /\ UNCHANGED <<scene, outbox_vars, vars>>

\* The fairness of the three modules.
Fair ==
    /\ WF_outbox_vars(scene = "outbox" /\ Outbox!OrphanArrives)
    /\ WF_outbox_vars(scene = "outbox" /\ Outbox!Sync(p1))
    /\ SF_outbox_vars(scene = "outbox" /\ Outbox!UpsertSubscriptions(p1, {}, "rollups"))
    /\ SF_outbox_vars(scene = "outbox" /\ Outbox!StartDrain(p1))
    /\ WF_vars(scene = "scan" /\ Scan(p1))
    /\ SF_vars(scene = "scan" /\ Start(p1, default_window))
    /\ \A p \in TwoProcs : WF_events_vars(scene = "events" /\ Events!Scan(p))

LiveSpec == InitScene /\ [][NextScene]_<<scene, outbox_vars, vars, events_vars>> /\ Fair

-----------------------------------------------------------------------------
\* UsageOutbox: a total that no longer changes is delivered.
RollupsSettle == Outbox!RollupsSettle

\* MonitoringEvents: every event gets its turn.
EveryEventIsOffered == Events!EveryEventIsOffered
=============================================================================
