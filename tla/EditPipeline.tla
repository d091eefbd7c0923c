----------------------------- MODULE EditPipeline -----------------------------
(***************************************************************************)
(* The edit pipeline: the client processes of CaptureProcess uploading to  *)
(* the handlers of EditIngest over HTTP.  A request may be refused or lost *)
(* on its way, a connection may break while its handler goes on, a process *)
(* may be killed while it waits, the server may stop, and a response may   *)
(* arrive cut off.                                                         *)
(***************************************************************************)
EXTENDS CaptureProcess

CONSTANTS
    Handler, Suspicious, Whitelist, EnforceWhitelist, RateLimit, Hour,
    RawWindow, MaxRawRows, MaxBatch, Fault, MaxFaults,   \* see EditIngest
    MaxOutages           \* bound: processes killed, requests and answers lost

ASSUME PipelineAssumption ==
    /\ {RateLimit, MaxRawRows, MaxBatch} \subseteq Nat \ {0}
    /\ {Hour, RawWindow, MaxFaults, MaxClock} \subseteq Nat
    /\ Suspicious \subseteq Event
    /\ EnforceWhitelist \in BOOLEAN
    /\ IsFiniteSet(Handler)
    /\ None \notin Proc      \* None as a process is Nobody

VARIABLES
    store, hpc, s_key, edits, at, verdict, accepted, s_rejected, flagged, saved,
    faults,              \* the server's, see EditIngest
    conn,                \* the process that waits for each handler's answer
    outages,             \* MaxOutages counts these
    signed               \* history: the signatures of all rows inserted so far

Server == INSTANCE EditIngest WITH
    now <- clock, key <- s_key, rejected <- s_rejected, MaxNow <- MaxClock,
    Edit <- {}

server_vars == <<store, hpc, s_key, edits, at, verdict, accepted, s_rejected,
                 flagged, saved, faults>>
pipeline_vars == <<client_vars, server_vars, conn, outages, signed>>

Nobody == None

row_sigs(tbl) == {tbl[i].sig : i \in DOMAIN tbl} \ {None}

stored_sigs == {store[j].sig : j \in DOMAIN store}

\* Signatures the client takes for delivered.
synced_sigs == {rows[i].sig : i \in synced_ids(rows)} \ {None}

PipelineInit ==
    /\ ClientInit
    /\ Server!IngestInit
    /\ conn = [h \in Handler |-> Nobody]
    /\ outages = 0
    /\ signed = {}

-----------------------------------------------------------------------------
outage == outages < MaxOutages /\ outages' = outages + 1

keep_signed == signed' = signed \cup row_sigs(rows')

\* A process does something by itself, or the user does.
ClientStep(p) ==
    /\ Start(p) \/ Run(p)
    /\ keep_signed
    /\ UNCHANGED <<server_vars, conn, outages>>

\* A killed process leaves its handler without a reader.
Killed(p) ==
    /\ Crash(p)
    /\ outage
    /\ conn' = [h \in Handler |-> IF conn[h] = p THEN Nobody ELSE conn[h]]
    /\ UNCHANGED <<server_vars, signed>>

UserStep ==
    /\ Clean \/ Tick
    /\ UNCHANGED <<server_vars, conn, outages, signed>>

-----------------------------------------------------------------------------
\* Mutated form: the payload signs the row anew.
wire_resigned(r) == [event |-> r.event, repo |-> r.repo, ts |-> r.ts,
                     sig |-> compute_record_sig(r.key, r.ts, r.event, r.repo)]

\* build_payload: the rows of the batch in id order, with their stored record_sig.
wire(r) == [event |-> r.event, repo |-> r.repo, ts |-> r.ts, sig |-> r.sig]

\* The row at a position of the batch.
row_at(ids, n) == CHOOSE i \in ids : Cardinality({j \in ids : j < i}) = n - 1

payload(p, ids) ==
    [n \in 1 .. Cardinality(ids) |-> wire(fetched[p][row_at(ids, n)])]

\* post_batch: the request reaches a handler.
Upload(p, n, h) ==
    /\ Post(p, n)
    /\ Server!Receive(h, cred[p], payload(p, batch'[p]))
    /\ conn' = [conn EXCEPT ![h] = p]
    /\ UNCHANGED <<outages, signed>>

\* The request does not reach Ingest: no connection, or any status but 2xx.
LoseRequest(p, n) ==
    /\ Post(p, n)
    /\ outage
    /\ UNCHANGED <<server_vars, conn, signed>>

\* A handler works, whether or not somebody waits for its answer.
HandlerStep(h) ==
    /\ Server!Work(h)
    /\ UNCHANGED <<client_vars, conn, outages, signed>>

ServerStops(h) ==
    /\ Server!Abort(h)
    /\ conn' = [conn EXCEPT ![h] = Nobody]
    /\ UNCHANGED <<client_vars, outages, signed>>

hang_up(h) == conn' = [conn EXCEPT ![h] = Nobody]

\* The rows of the batch whose positions the response rejects.
rejected_rows(p, h) == {row_at(batch[p], n) : n \in s_rejected[h]}

\* The response arrives.  Its `index` is a usize: -1 does not parse, and the
\* whole response is then an unparseable 2xx.
Answer(h) ==
    LET p == conn[h]
    IN  /\ p # Nobody
        /\ Server!Reply(h)
        /\ \/ Server!RetentionIndex \in s_rejected[h] /\ AnswerUnparseable(p)
           \/ /\ Server!RetentionIndex \notin s_rejected[h]
              /\ AnswerSuccess(p, rejected_rows(p, h))
        /\ hang_up(h)
        /\ UNCHANGED <<outages, signed>>

\* The response arrives cut off after its 2xx status.
AnswerCutOff(h) ==
    /\ conn[h] # Nobody
    /\ "cut" \in Fault
    /\ outage
    /\ Server!Reply(h)
    /\ AnswerUnparseable(conn[h])
    /\ hang_up(h)
    /\ UNCHANGED signed

\* The connection breaks before the answer; the handler goes on.
Disconnect(h) ==
    /\ conn[h] # Nobody
    /\ AnswerError(conn[h])
    /\ outage
    /\ hang_up(h)
    /\ UNCHANGED <<server_vars, signed>>

\* The request was lost or its handler is gone.
NoAnswer(p) ==
    /\ \A h \in Handler : conn[h] # p
    /\ AnswerError(p)
    /\ UNCHANGED <<server_vars, conn, outages, signed>>

ReplyToNobody(h) ==
    /\ conn[h] = Nobody
    /\ Server!Reply(h)
    /\ UNCHANGED <<client_vars, conn, outages, signed>>

PipelineNext ==
    \/ \E p \in Proc :
         \/ ClientStep(p) \/ Killed(p) \/ NoAnswer(p)
         \/ \E n \in 1 .. FetchLimit :
              LoseRequest(p, n) \/ \E h \in Handler : Upload(p, n, h)
    \/ \E h \in Handler :
         \/ HandlerStep(h) \/ ServerStops(h)
         \/ Answer(h) \/ AnswerCutOff(h) \/ Disconnect(h) \/ ReplyToNobody(h)
    \/ UserStep

PipelineSpec == PipelineInit /\ [][PipelineNext]_pipeline_vars

-----------------------------------------------------------------------------
(***************************************************************************)
(* Fairness.  A running process or handler is eventually scheduled, a      *)
(* connection eventually answers or breaks, and `usage sync` is run again  *)
(* and again.  Captures, faults, outages and the user promise nothing.     *)
(***************************************************************************)
RunStep(p) == Run(p) /\ keep_signed /\ UNCHANGED <<server_vars, conn, outages>>

SyncStep(p, k) ==
    StartSync(p, k) /\ UNCHANGED <<server_vars, conn, outages, signed>>

Fairness ==
    /\ \A p \in Proc :
         /\ WF_pipeline_vars(RunStep(p))
         /\ \A k \in Key : SF_pipeline_vars(SyncStep(p, k))
         /\ WF_pipeline_vars(\E n \in 1 .. FetchLimit, h \in Handler : Upload(p, n, h))
         /\ WF_pipeline_vars(NoAnswer(p))
    /\ \A h \in Handler :
         WF_pipeline_vars(HandlerStep(h) \/ Answer(h) \/ ReplyToNobody(h))

FairPipelineSpec == PipelineSpec /\ Fairness

-----------------------------------------------------------------------------
\* A row the client takes for delivered, whose text it therefore deletes, is on
\* the server: whatever is lost, killed, repeated or answered late.
SyncedIsStored == synced_sigs \subseteq stored_sigs

\* However often a record is uploaded, and by however many processes at a time,
\* the server stores it once.
UploadedOnce == Server!StoredOnce

\* The pipeline implements EditDelivery: what the server stores was signed by a
\* capture and is stored once, and what the client settles is stored.
BoundedSignature == [key : Key, ts : 0 .. MaxClock, tool : Tool, path : Path,
                     diff : Diff, url : Url, sha : Sha]

Delivery == INSTANCE EditDelivery WITH
    Record <- BoundedSignature, captured <- signed, stored <- stored_sigs,
    settled <- synced_sigs

ImplementsDelivery == Delivery!DeliverySpec

\* A row that verifies under its signature and has its repository is eventually
\* synced (or the user or a storage cap removes it), as long as the outages and
\* faults it meets stay below MaxRetry.
Deliverable(i) ==
    /\ i \in pending_ids(rows)
    /\ rows[i].key # None
    /\ ~Server!malformed(rows[i])
    /\ Server!sig_matches(rows[i].key, rows[i])

EventuallySynced ==
    \A i \in 1 .. MaxRows :
        Deliverable(i) ~> (i \notin DOMAIN rows \/ i \in synced_ids(rows))

\* Every row the client uploads verifies on the server: nobody tampers with the
\* table, and backfilled rows are meant to be delivered.
UploadsVerify ==
    \A h \in Handler : \A n \in DOMAIN edits[h] :
        Server!sig_matches(s_key[h], edits[h][n])
=============================================================================
