------------------------------ MODULE MCIngest ------------------------------
(***************************************************************************)
(* Instances of the servers' edit ingestion, one per scene:                *)
(*   "mixed"  edits in order, flagged, and wrongly signed; two faults      *)
(*   "rate"   edits in order of one file and token, at one time; one fault  *)
(*   "java"   two batches that exceed the Java server's rate limit         *)
(***************************************************************************)
EXTENDS MCEditIngest

CONSTANTS j1, j2

VARIABLES
    scene,
    stored, jpc, i, own, acked, tries, jfaults      \* JavaIngest's

JavaBatches == j1 :> <<1, 2, 3>> @@ j2 :> <<3, 4, 5>>
JavaHandlers == {j1, j2}

Java == INSTANCE JavaIngest WITH
    pc <- jpc, faults <- jfaults, Handler <- JavaHandlers, Batch <- JavaBatches, Refused <- {},
    TooLong <- {}, RateLimit <- 2, MaxRetry <- 4, MaxFaults <- 1

java_vars == <<stored, jpc, i, own, acked, tries, jfaults>>

Init ==
    /\ scene \in {"mixed", "rate", "java"}
    /\ IngestInit
    /\ Java!Init

uploaded == UNION {{edits[h][n] : n \in DOMAIN edits[h]} : h \in Handler}

\* Both batches were stored or tried as often as a client tries: nothing is left to do.
all_tried == \A h \in JavaHandlers : jpc[h] = "idle" /\ tries[h] = 4

Next ==
    \/ /\ scene = "mixed" /\ IngestNext /\ uploaded' \subseteq AllEdits
       /\ UNCHANGED <<scene, java_vars>>
    \/ /\ scene = "rate" /\ IngestNext /\ uploaded' \subseteq GoodEdits /\ faults' <= 1 /\ now' = 0
       /\ UNCHANGED <<scene, java_vars>>
    \/ /\ scene = "java" /\ (Java!Next \/ (all_tried /\ UNCHANGED java_vars))
       /\ UNCHANGED <<scene, ingest_vars>>

Spec == Init /\ [][Next]_<<scene, ingest_vars, java_vars>>

-----------------------------------------------------------------------------
\* EditIngest: the limit is exceeded only by handlers that counted before the others
\* inserted, and by counts that failed.  JavaIngest: only by requests that do not see
\* each other's rows; none exceeds it by itself.
RatesAreBounded == IF scene = "java" THEN Java!RateBound ELSE RateBound
=============================================================================
