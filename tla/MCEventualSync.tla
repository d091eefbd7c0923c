--------------------------- MODULE MCEventualSync ---------------------------
(***************************************************************************)
(* What must happen in the end on the way to a server, one per scene:      *)
(*   "go"     the edit pipeline: one process, two handlers of the Go       *)
(*            server, one fault of any kind and one outage                 *)
(*   "java"   three clients of the Java server with overlapping batches    *)
(*   "beat"   heartbeats of two processes, with a clock that is set back   *)
(***************************************************************************)
EXTENDS MCJavaIngest

CONSTANTS noval, marker, k1, p1, p2, t1, t2

VARIABLES
    scene,
    rows, next_id, clock, cpc, rec, cred, fetched, batch, rejected,
    store, hpc, s_key, edits, at, verdict, accepted, s_rejected, flagged, saved,
    sfaults, conn, outages, signed,
    hooks, age, quiet, recorded, bpc, seen, since, row, changes, backs  \* Heartbeat's

Keys  == {k1}
Procs == {p1}
GoHandlers == {h1, h2}

Edit1   == [tool |-> "claude", path |-> "a.rs", diff |-> "d1", meta |-> noval]
Main    == [url |-> "r1", branch |-> "main", sha |-> "s1"]
Outside == [url |-> noval, branch |-> noval, sha |-> noval]

OneEdit   == {Edit1}
Contexts  == {Main, Outside}
AllFaults == {"count", "save", "retain", "abort", "cut"}

Go == INSTANCE EditPipeline WITH
    pc <- cpc, faults <- sfaults, None <- noval, Marker <- marker, Key <- Keys,
    Proc <- Procs, Event <- OneEdit, Repo <- Contexts, Handler <- GoHandlers,
    Suspicious <- {}, Whitelist <- {}, EnforceWhitelist <- FALSE, Fault <- AllFaults,
    MaxRetry <- 3, FetchLimit <- 2, MaxSynced <- 1, MaxPending <- 2, MaxUnuploadable <- 1,
    MaxExhausted <- 1, MaxRows <- 2, MaxClock <- 0, RateLimit <- 3, Hour <- 9,
    RawWindow <- 9, MaxRawRows <- 1, MaxBatch <- 2, MaxFaults <- 1, MaxOutages <- 1

TwoProcs == {p1, p2}
Tools == {t1, t2}
Beat == INSTANCE Heartbeat WITH
    pc <- bpc, Proc <- TwoProcs, Tool <- Tools, Interval <- 1, MaxChanges <- 2, MaxBacks <- 1

beat_vars == <<hooks, age, quiet, recorded, bpc, seen, since, row, changes, backs>>
go_vars == <<rows, next_id, clock, cpc, rec, cred, fetched, batch, rejected,
             store, hpc, s_key, edits, at, verdict, accepted, s_rejected, flagged, saved,
             sfaults, conn, outages, signed>>

InitScene ==
    /\ scene \in {"go", "java", "beat"}
    /\ Go!PipelineInit
    /\ Init
    /\ Beat!Init
    /\ scene # "beat" => row = {}

NextScene ==
    \/ scene = "go"   /\ Go!PipelineNext /\ UNCHANGED <<scene, vars, beat_vars>>
    \/ scene = "java" /\ Next            /\ UNCHANGED <<scene, go_vars, beat_vars>>
    \/ scene = "beat" /\ Beat!Next       /\ UNCHANGED <<scene, go_vars, vars>>

in_go(A) == scene = "go" /\ A

in_beat(A) == scene = "beat" /\ A

\* The fairness of EditPipeline, JavaIngest and Heartbeat.
Fairness ==
    /\ WF_go_vars(in_go(Go!RunStep(p1)))
    /\ SF_go_vars(in_go(Go!SyncStep(p1, k1)))
    /\ WF_go_vars(in_go(\E n \in 1 .. 2, h \in GoHandlers : Go!Upload(p1, n, h)))
    /\ WF_go_vars(in_go(Go!NoAnswer(p1)))
    /\ \A h \in GoHandlers :
         WF_go_vars(in_go(Go!HandlerStep(h) \/ Go!Answer(h) \/ Go!ReplyToNobody(h)))
    /\ \A h \in Handler : WF_vars(scene = "java" /\ Step(h))
    /\ WF_beat_vars(in_beat(Beat!Tick))
    /\ \A p \in TwoProcs :
         /\ WF_beat_vars(in_beat(Beat!Capture(p)))
         /\ WF_beat_vars(in_beat(Beat!Send(p)))
         /\ WF_beat_vars(in_beat(Beat!End(p)))
         /\ WF_beat_vars(in_beat(Beat!Record(p) \/ Beat!Lost(p)))
         /\ SF_beat_vars(in_beat(Beat!Record(p) /\ bpc'[p] = "ok"))

EventualSpec == InitScene /\ [][NextScene]_<<scene, go_vars, vars, beat_vars>> /\ Fairness

-----------------------------------------------------------------------------
\* EditPipeline: a row that verifies is synced in the end.
EventuallySynced == Go!EventuallySynced

\* JavaIngest: every edit that passes the checks is stored in the end.
ValidIsStoredInJava == \A h \in Handler : <>(scene = "java" => delivered(h))

\* Heartbeat: the server's row comes to show the hooks of the device.
RowFollowsHooks ==
    \A T \in SUBSET Tools :
        T # {} /\ <>[](scene = "beat" /\ hooks = T) => <>[](scene = "beat" /\ row = T)
=============================================================================
