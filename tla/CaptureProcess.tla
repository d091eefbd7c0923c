---------------------------- MODULE CaptureProcess ----------------------------
(***************************************************************************)
(* The client processes that share records.db.  Every edit hook starts one *)
(* `aitrack capture` process and `aitrack usage sync` starts another; they *)
(* run concurrently, each on its own connection, and each of their SQL     *)
(* statements commits by itself.  An action below is one such statement    *)
(* (or one exchange with the server), so TLC interleaves the processes     *)
(* between any two of them, and Crash ends a process anywhere: the AI tool *)
(* kills a hook that outlives its timeout.                                 *)
(*                                                                         *)
(* The server is open here: any answer to a batch is possible.             *)
(* EditPipeline closes the model with the server of EditIngest.            *)
(***************************************************************************)
EXTENDS RecordTable

CONSTANTS
    Proc,       \* client processes that may run at the same time
    MaxRows,    \* bound: rows ever inserted, those being inserted included
    MaxClock    \* bound: seconds that pass

\* Only finitely many processes run on a machine at a time.
ASSUME ProcAssumption == IsFiniteSet(Proc)

VARIABLES
    rows,       \* the records table
    next_id,    \* the next AUTOINCREMENT value
    clock,      \* wall clock in seconds
    pc,         \* the statement each process executes next
    rec,        \* the record a process built in memory, None outside a capture
    cred,       \* the token key of the credential a process was started with
    fetched,    \* rows read by fetch_unsynced and not settled yet
    batch,      \* ids of the batch being uploaded
    rejected    \* ids of the batch the answer rejects

table_vars == <<rows, next_id>>
flush_vars == <<fetched, batch, rejected>>
client_vars == <<rows, next_id, clock, pc, rec, cred, fetched, batch, rejected>>

\* A model value would do for "nothing fetched"; the empty table is the code's.
NoRows == [i \in {} |-> None]

PC == {"idle", "check", "insert", "fill", "fill_dup", "fetch", "post", "wait",
       "count", "mark", "prune"}

ClientTypeOK ==
    /\ next_id \in Nat \ {0}
    /\ clock \in Nat
    /\ DOMAIN rows \subseteq 1 .. next_id - 1
    /\ \A i \in DOMAIN rows : rows[i] \in Row
    /\ pc \in [Proc -> PC]
    /\ rec \in [Proc -> Row \cup {None}]
    /\ cred \in [Proc -> Key \cup {None}]
    /\ DOMAIN fetched = Proc
    /\ batch \in [Proc -> SUBSET Nat]
    /\ rejected \in [Proc -> SUBSET Nat]
    /\ \A p \in Proc : /\ DOMAIN fetched[p] \subseteq 1 .. next_id - 1
                       /\ \A i \in DOMAIN fetched[p] : fetched[p][i] \in Row
                       /\ batch[p] \subseteq DOMAIN fetched[p]
                       /\ rejected[p] \subseteq batch[p]

ClientInit ==
    /\ rows = NoRows
    /\ next_id = 1
    /\ clock = 0
    /\ pc = [p \in Proc |-> "idle"]
    /\ rec = [p \in Proc |-> None]
    /\ cred = [p \in Proc |-> None]
    /\ fetched = [p \in Proc |-> NoRows]
    /\ batch = [p \in Proc |-> {}]
    /\ rejected = [p \in Proc |-> {}]

-----------------------------------------------------------------------------
goto(p, l) == pc' = [pc EXCEPT ![p] = l]

\* After insert_record: backfill when the hook ran inside a repository, then
\* flush when the row is new and a credential is configured, then prune.
after_insert(r, fresh) ==
    IF r.repo.url # None THEN IF fresh THEN "fill" ELSE "fill_dup"
    ELSE IF fresh /\ r.key # None THEN "fetch" ELSE "prune"

RowsStarted == next_id - 1 + Cardinality({p \in Proc : pc[p] \in {"check", "insert"}})

\* handle_capture up to open_db: parse the event, ask git, sign the record.
Capture(p, e, c, k) ==
    /\ pc[p] = "idle"
    /\ RowsStarted < MaxRows
    /\ rec' = [rec EXCEPT ![p] = new_record(e, c, k, clock)]
    /\ cred' = [cred EXCEPT ![p] = k]
    /\ goto(p, "check")
    /\ UNCHANGED <<rows, next_id, clock, fetched, batch, rejected>>

\* insert_record, the SELECT.
CheckDup(p) ==
    /\ pc[p] = "check"
    /\ goto(p, IF is_dup(rows, rec[p], clock) THEN after_insert(rec[p], FALSE)
                                              ELSE "insert")
    /\ UNCHANGED <<rows, next_id, clock, rec, cred, fetched, batch, rejected>>

\* Mutated form: a plain INTEGER PRIMARY KEY, the largest rowid plus one.
InsertRow_rowid(p) ==
    /\ pc[p] = "insert"
    /\ ~sig_taken(rows, rec[p])
    /\ LET id == CHOOSE n \in 1 .. next_id : /\ \A i \in DOMAIN rows : i < n
                                             /\ n = 1 \/ n - 1 \in DOMAIN rows
       IN  rows' = insert_row(rows, id, rec[p])
    /\ next_id' = next_id + 1
    /\ goto(p, after_insert(rec[p], TRUE))
    /\ UNCHANGED <<clock, rec, cred, fetched, batch, rejected>>

\* insert_record, the INSERT.
InsertRow(p) ==
    /\ pc[p] = "insert"
    /\ ~sig_taken(rows, rec[p])
    /\ rows' = insert_row(rows, next_id, rec[p])
    /\ next_id' = next_id + 1
    /\ goto(p, after_insert(rec[p], TRUE))
    /\ UNCHANGED <<clock, rec, cred, fetched, batch, rejected>>

\* The UNIQUE index refuses the INSERT and the error ends the process.
InsertFails(p) ==
    /\ pc[p] = "insert"
    /\ sig_taken(rows, rec[p])
    /\ goto(p, "idle")
    /\ rec' = [rec EXCEPT ![p] = None]
    /\ cred' = [cred EXCEPT ![p] = None]
    /\ UNCHANGED <<rows, next_id, clock, fetched, batch, rejected>>

\* backfill_repo_info; an error there is reported and ignored.
Backfill(p) ==
    /\ pc[p] \in {"fill", "fill_dup"}
    /\ \/ rows' = backfill_repo_info(rows, rec[p].repo, cred[p])
       \/ rows' = rows
    /\ goto(p, IF pc[p] = "fill" /\ cred[p] # None THEN "fetch" ELSE "prune")
    /\ UNCHANGED <<next_id, clock, rec, cred, fetched, batch, rejected>>

\* `usage sync` reaches flush_unsynced without a capture.
StartSync(p, k) ==
    /\ pc[p] = "idle"
    /\ cred' = [cred EXCEPT ![p] = k]
    /\ goto(p, "fetch")
    /\ UNCHANGED <<rows, next_id, clock, rec, fetched, batch, rejected>>

-----------------------------------------------------------------------------
(***************************************************************************)
(* flush_unsynced: one fetch, then batch after batch of the rows fetched.  *)
(***************************************************************************)
\* A credential is configured, but no api_url: the capture does not flush.
SkipFlush(p) ==
    /\ pc[p] = "fetch"
    /\ rec[p] # None
    /\ goto(p, "prune")
    /\ UNCHANGED <<rows, next_id, clock, rec, cred, fetched, batch, rejected>>

Fetch(p) ==
    /\ pc[p] = "fetch"
    /\ fetched' = [fetched EXCEPT ![p] = fetch_unsynced(rows, cred[p])]
    /\ goto(p, IF DOMAIN fetched'[p] = {} THEN "prune" ELSE "post")
    /\ rec' = [rec EXCEPT ![p] = None]
    /\ UNCHANGED <<rows, next_id, clock, cred, batch, rejected>>

\* split_upload_batches: rows keep their order; how many of them fit one body
\* depends on their size, so any number may.
Post(p, n) ==
    /\ pc[p] = "post"
    /\ n \in 1 .. Cardinality(DOMAIN fetched[p])
    /\ batch' = [batch EXCEPT ![p] = oldest(DOMAIN fetched[p], n)]
    /\ goto(p, "wait")
    /\ UNCHANGED <<rows, next_id, clock, rec, cred, fetched, rejected>>

\* Mutated form: the batch is not reset when the loop goes on.
settle_keeps_batch(p) ==
    LET left == DOMAIN fetched[p] \ batch[p]
    IN  /\ fetched' = [fetched EXCEPT ![p] = [i \in left |-> fetched[p][i]]]
        /\ UNCHANGED <<batch, rejected>>
        /\ goto(p, IF left = {} THEN "prune" ELSE "post")

\* The batch is settled: go on with the next one, or prune and end.
settle(p) ==
    LET left == DOMAIN fetched[p] \ batch[p]
    IN  /\ fetched' = [fetched EXCEPT ![p] = [i \in left |-> fetched[p][i]]]
        /\ batch' = [batch EXCEPT ![p] = {}]
        /\ rejected' = [rejected EXCEPT ![p] = {}]
        /\ goto(p, IF left = {} THEN "prune" ELSE "post")

\* PostBatchResult::Success with the rows the body rejects.
AnswerSuccess(p, R) ==
    /\ pc[p] = "wait"
    /\ R \subseteq batch[p]
    /\ rejected' = [rejected EXCEPT ![p] = R]
    /\ goto(p, IF R = {} THEN "mark" ELSE "count")
    /\ UNCHANGED <<rows, next_id, clock, rec, cred, fetched, batch>>

\* PostBatchResult::UnparseableOk: all of the batch counts as accepted.
AnswerUnparseable(p) ==
    /\ pc[p] = "wait"
    /\ goto(p, "mark")
    /\ UNCHANGED <<rows, next_id, clock, rec, cred, fetched, batch, rejected>>

\* Mutated form: a lost answer counts as accepted.
AnswerError_marks(p) ==
    /\ pc[p] = "wait"
    /\ rows' = mark_synced(rows, batch[p])
    /\ settle(p)
    /\ UNCHANGED <<next_id, clock, rec, cred>>

\* PostBatchResult::TransientError: a network failure or any other status.
AnswerError(p) ==
    /\ pc[p] = "wait"
    /\ rows' = increment_retry(rows, batch[p])
    /\ settle(p)
    /\ UNCHANGED <<next_id, clock, rec, cred>>

\* flush_batch on Success: first the retry counters of the rejected rows ...
CountRejected(p) ==
    /\ pc[p] = "count"
    /\ rows' = increment_retry(rows, rejected[p])
    /\ goto(p, "mark")
    /\ UNCHANGED <<next_id, clock, rec, cred, fetched, batch, rejected>>

\* Mutated form: the rejected rows become synced as well.
MarkBatch_all(p) ==
    /\ pc[p] = "mark"
    /\ rows' = mark_synced(rows, batch[p])
    /\ settle(p)
    /\ UNCHANGED <<next_id, clock, rec, cred>>

\* ... then the others become synced.
MarkBatch(p) ==
    /\ pc[p] = "mark"
    /\ rows' = mark_synced(rows, batch[p] \ rejected[p])
    /\ settle(p)
    /\ UNCHANGED <<next_id, clock, rec, cred>>

-----------------------------------------------------------------------------
end_process(p) ==
    /\ goto(p, "idle")
    /\ rec' = [rec EXCEPT ![p] = None]
    /\ cred' = [cred EXCEPT ![p] = None]
    /\ fetched' = [fetched EXCEPT ![p] = NoRows]
    /\ batch' = [batch EXCEPT ![p] = {}]
    /\ rejected' = [rejected EXCEPT ![p] = {}]

Prune(p) ==
    /\ pc[p] = "prune"
    /\ rows' = prune_local_record_storage(rows)
    /\ end_process(p)
    /\ UNCHANGED <<next_id, clock>>

Crash(p) ==
    /\ pc[p] # "idle"
    /\ end_process(p)
    /\ UNCHANGED <<rows, next_id, clock>>

\* `aitrack clean`: the user deletes the synced rows, or with --all every row.
Clean ==
    /\ rows # NoRows
    /\ rows' \in {clean_synced(rows), NoRows}
    /\ UNCHANGED <<next_id, clock, pc, rec, cred, fetched, batch, rejected>>

Tick ==
    /\ clock < MaxClock
    /\ clock' = clock + 1
    /\ UNCHANGED <<rows, next_id, pc, rec, cred, fetched, batch, rejected>>

\* What a process that was started does without an answer.
Run(p) ==
    \/ CheckDup(p) \/ InsertRow(p) \/ InsertFails(p) \/ Backfill(p)
    \/ SkipFlush(p) \/ Fetch(p) \/ CountRejected(p) \/ MarkBatch(p) \/ Prune(p)

Start(p) ==
    \/ \E e \in Event, c \in Repo, k \in Key \cup {None} : Capture(p, e, c, k)
    \/ \E k \in Key : StartSync(p, k)

ClientNext ==
    \/ \E p \in Proc :
         \/ Start(p) \/ Run(p) \/ Crash(p)
         \/ \E n \in 1 .. FetchLimit : Post(p, n)
         \/ \E R \in SUBSET batch[p] : AnswerSuccess(p, R)
         \/ AnswerUnparseable(p)
         \/ AnswerError(p)
    \/ Clean
    \/ Tick

ClientSpec == ClientInit /\ [][ClientNext]_client_vars

-----------------------------------------------------------------------------
(***************************************************************************)
(* What holds whatever the server answers.                                 *)
(***************************************************************************)

\* The text of a row is stripped only when the row is settled: one that can
\* still be fetched (synced = 0, retry_count < 5) has the text that was signed.
UploadableIsIntact ==
    \A i \in DOMAIN rows :
        ~rows[i].synced /\ rows[i].retry < MaxRetry =>
            rows[i].event.diff # Marker /\ rows[i].event.meta # Marker

\* What a process uploads is original text, whatever the others marked,
\* pruned or deleted since it read the rows.
UploadsOriginalText ==
    \A p \in Proc : \A i \in DOMAIN fetched[p] :
        fetched[p][i].event.diff # Marker /\ fetched[p][i].event.meta # Marker

\* AUTOINCREMENT: between the fetch and the UPDATEs the table may lose rows and
\* gain others, and an id a process holds never names a different record.
HeldIdIsSameRecord ==
    \A p \in Proc : \A i \in DOMAIN fetched[p] \cap DOMAIN rows :
        /\ rows[i].sig = fetched[p][i].sig
        /\ rows[i].ts = fetched[p][i].ts
        /\ rows[i].key = fetched[p][i].key

\* No two local rows carry one non-empty record_sig, though the duplicate
\* check and the INSERT of concurrent captures interleave.
SignaturesUnique ==
    \A i, j \in DOMAIN rows :
        rows[i].sig # None /\ rows[i].sig = rows[j].sig => i = j

\* A row is uploaded again while its counter is below MaxRetry; processes that
\* fetched it before the last increment may each add one more.
RetryIsBounded ==
    \A i \in DOMAIN rows : rows[i].retry < MaxRetry + Cardinality(Proc)

\* A signed row that has its repository keeps it: backfill only fills rows that
\* had none, so a record never moves from one repository to another.
RepositoryIsStable ==
    [][\A i \in DOMAIN rows \cap DOMAIN rows' :
          rows[i].repo.url # None => rows'[i].repo = rows[i].repo]_client_vars

\* prune_local_record_storage leaves every cap satisfied, and it deletes a row
\* that could still be uploaded only when MaxPending newer pending rows stay
\* (or the row could not be uploaded with any credential).
PruneStep == \A p \in Proc : Prune(p) =>
    /\ Cardinality(synced_ids(rows')) <= MaxSynced
    /\ Cardinality(pending_ids(rows')) <= MaxPending
    /\ Cardinality(exhausted_ids(rows')) <= MaxExhausted
    /\ Cardinality(unuploadable_ids(rows')) <= MaxUnuploadable
    /\ \A i \in pending_ids(rows) \ DOMAIN rows' :
          rows[i].retry < MaxRetry /\ rows[i].key # None =>
             Cardinality({j \in pending_ids(rows') : j > i}) = MaxPending

PruneKeepsUploadable == [][PruneStep]_client_vars

\* A second capture of the same edit within the window adds no second row
\* (docs/TESTING.md, test_dedup_within_2s).  Stated on signed rows, whose
\* signature still tells what they were after their text is stripped.
NoDuplicateInWindow ==
    \A i, j \in DOMAIN rows :
        i < j /\ rows[i].sig # None /\ rows[j].sig # None
        /\ [rows[i].sig EXCEPT !.ts = 0] = [rows[j].sig EXCEPT !.ts = 0]
        => rows[j].ts - rows[i].ts >= DedupWindow
=============================================================================
