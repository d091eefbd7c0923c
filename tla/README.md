# Formal model of aitrack

TLA+ specifications of aitrack, the self-hosted audit trail of AI coding edits: a Rust client that
records every edit an AI tool makes and uploads it, and a server (Go, with a Java mirror) that
verifies and stores the records. The models follow the code, not its documents; section 5 says
where the two disagree.

TLC checks every property on small instances. The modules whose names end in `Proofs` hold
machine-checked proofs (TLAPS), for all values of the constants, of what the client, both servers,
the pipeline, the usage outbox, the monitoring events and the heartbeat must never do, and of the
two refinements (section 4).

## 1. The system

### Components, their state and operations

| Component | State | Operations | Modelled by |
|---|---|---|---|
| Records table (`client/src/adapter/sqlite`) | `records` in `~/.aitrack/records.db` (WAL, one connection per process) | `insert_record`, `fetch_unsynced`, `mark_synced`, `increment_retry`, `backfill_repo_info`, `clean_*`, `prune_local_record_storage` | `RecordTable` |
| Capture and upload (`lib.rs`, `uploader.rs`, `adapter/http/upload.rs`) | one short-lived process per edit hook, plus `usage sync`; all share records.db | `handle_capture`, `flush_unsynced`, `flush_batch`, `post_batch`, `handle_clean` | `CaptureProcess` |
| Go edit ingestion (`handler/edits.go`, `ingest_usecase.go`, `validation_service.go`, `edit_record_adapter.go`) | `edit_records` in PostgreSQL; one goroutine per request | `SubmitEdits`, `Ingest`, `Validate`, `Save`, `ApplyRawRetention` | `EditIngest` |
| The two together over HTTP | open connections | upload, lost request, broken connection, answer | `EditPipeline`, abstractly `EditDelivery` |
| Prune (`queries.rs`) at the level of its statements | the same table | insertions of hooks (one row) and scans (many in one transaction), five caps, each a `COUNT` and a `DELETE` | `RecordPrune` |
| Usage outbox and sync (`client/src/usage/mod.rs`) | `usage.sqlite`: totals and snapshots with dirty flags, `usage_outbox` | enqueue, clean up, drain, acknowledge, retry; the server's upserts | `UsageOutbox`, abstractly `UsageDelivery` |
| Usage scan (same file) | `usage_rollup_sources`, `usage_daily_model_rollups`, `usage_scan_file_cache`, `usage_sessions` | list within budgets, scan, replace, cache, retention, caps, compaction of old sessions | `UsageRollups` |
| Monitoring events (same file) | `usage_monitoring_seen` in usage.sqlite, rows in records.db | read the tail of a log, mark seen, insert in one transaction, prune, cache | `MonitoringEvents` |
| Codex rollout parser (same file) | context and running totals while a log is read | turn contexts, token reports, window of last lines | `CodexRollout` |
| Hook installation (`init.rs`) | settings files of other tools | install, remove | `HookSettings` (Claude, Cursor), `CodexConfig` |
| Configuration (`config.rs`) | `config.toml` | load, set, save through a temporary file | `ConfigFile` |
| Hook journal (`lib.rs`) | `hook-events.jsonl` | append, prune | `HookJournal` |
| Heartbeat (`heartbeat.rs`, `heartbeat_adapter.go`) | `kv.last_heartbeat_ts`, `devices` | throttle, send, upsert | `Heartbeat` |
| Java edit ingestion (`IngestService.java`, `ValidationService.java`) | the same table, one transaction per batch | validate, check, save, commit or roll back | `JavaIngest` |
| Authentication and tokens | `tokens` | create, resolve, request signature, time window | not modelled: a request that fails it is a lost request |
| Stats, search, profiles, the rest of the Java server | aggregates | reads | not modelled |
| The other log parsers, event adapters, diff, keywords, CLI, self-update | none, or one file | conversions | not modelled |

### How they interact

An edit hook starts `aitrack capture`. It builds a signed record, runs `SELECT` (duplicate?) and
`INSERT`, backfills the repository of older rows, fetches up to 200 uploadable rows of its
credential, posts them in batches of at most 7 MiB, settles each batch (count the rejected, mark
the others), and prunes. No transaction spans two of these statements and nothing stops a second
hook, or `usage sync`, from doing the same on the same rows. On the server each request validates
and stores its edits one by one (a `COUNT` and an `INSERT ... ON CONFLICT DO NOTHING`, each
committed alone), then strips raw text from old and overflowing rows. The only idempotence key is
`record_sig`; the only acknowledgement is the index list of the response. The Java server does the
same in one transaction per batch, whose rows other requests cannot see before it commits.

Usage takes another way: a scan turns the logs of the tools into contributions per file, their sums
are daily totals with a dirty flag, a sync puts dirty totals and snapshots into an outbox of
payloads and sends those, and an acknowledgement clears the flag. The scan also finds prompts, tool
calls and edits, which it writes to records.db, where captures write too. Every capture ends with a
heartbeat that is throttled by a time in the client's database.

### What is hard about it

* processes interleave between any two statements, holding rows they read long ago;
* a hook may be killed after ten seconds, at any point, also between the server's commit and its
  own bookkeeping; the server may stop between two statements;
* answers get lost, arrive late, or arrive unreadable with a 2xx status, after which the client
  deletes its only copy of the text;
* the retry counter, the caps and the text stripping all use overlapping conditions that must
  agree with the query that decides what is uploaded;
* rate limit and retention are check-then-act under concurrent handlers;
* a scan reads files that grow under it, remembers which it need not read again, and two databases
  are written in two transactions;
* payloads of one total overtake each other, expire, and are cut by caps, while totals change;
* settings files are read, truncated and written in place, and tools and users edit them too;
* journal lines have all lengths, and nothing locks the file they are written back to.

What makes each component correct: *table and client* - what can still be uploaded is intact, what
is settled is the record that was uploaded, signatures are unique, records keep their repository,
caps hold without costing uploadable rows; *server* - one row per signature, only signed content,
one truthful verdict per edit, final rows; *pipeline* - the client lets go of a record only when the
server has it, stored at most once, and eventually; *usage* - totals are the sums of what the files
hold, a file that need not be read again is counted, a total that is not dirty is on the server, no
event is forgotten silently or recorded twice; *local files* - one hook each, everything of others
kept, a configuration that survives a kill. `PROJECT.json` lists the hazards line by line.

## 2. Modules

```
RecordTable          SQL statements as functions from tables to tables
  CaptureProcess     client processes, one action per statement; the server's answer is arbitrary
    CaptureProcessProofs   theorems, the bound of the retry counter among them
    EditPipeline     INSTANCE EditIngest; connections, losses, kills; fairness
      (INSTANCE EditDelivery, the promise the pipeline implements)
      EditPipelineProofs   from CaptureProcessProofs and INSTANCE EditIngestProofs
  EditIngest         request handlers of the Go server, one action per statement
    EditIngestProofs
JavaIngest           requests of the Java server and the clients that retry them
  JavaIngestProofs
RecordPrune          the prune, one action per statement
  PruneProofs
UsageOutbox          totals, snapshots, outbox, requests, the server's rows
  (INSTANCE UsageDelivery, the promise the outbox implements)
  UsageOutboxProofs
UsageRollups  MonitoringEvents  CodexRollout           the scan
  ScanProofs         EXTENDS MonitoringEvents; INSTANCE UsageRollups, CodexRollout
HookSettings  CodexConfig  ConfigFile  HookJournal  Heartbeat
  LocalProofs        EXTENDS Heartbeat; INSTANCE HookJournal, ConfigFile, HookSettings, CodexConfig
```

Modules that begin with MC are instances for TLC. `MCCaptureProcess`, `MCEditIngest`,
`MCEditPipeline`, `MCJavaIngest`, `MCUsageOutbox` and `MCUsageRollups` hold values for constants.
`MCCapture`, `MCIngest`, `MCPipeline`, `MCEventualSync`, `MCUsageSync`, `MCUsageScan`,
`MCUsageLive` and `MCLocal` each put several instances side by side: the variable `scene`, chosen
initially, says which of them moves, and the others keep their initial state. A property of a scene
module is that of the component, or the conjunction of those of two components.

**RecordTable.** A table is a function from row ids to rows. A row keeps the columns the statements
and the validation tell apart: `event` = (tool, file_path, diff_hunk, metadata), `repo` = (repo_url,
branch, current_sha), timestamp in seconds, token_key, record_sig, synced, retry_count. The signature
is the record of the fields it covers, so two signatures are equal exactly when the signed fields
are (HMAC-SHA256 without collisions); `metadata` and `branch` are not covered, as in the code.
`None` stands for an empty string or NULL, `Marker` for a pruned text. Lines, session, device and
host add no behaviour: the first three are constant per event, the others per machine.

**CaptureProcess.** `pc[p]` is the statement process `p` executes next. `Capture` (parse, git,
sign) - `CheckDup` - `InsertRow` / `InsertFails` - `Backfill` - `Fetch` / `SkipFlush` (no server
address) - `Post` - `AnswerSuccess` / `AnswerUnparseable` / `AnswerError` - `CountRejected` -
`MarkBatch` - `Prune`; `StartSync` enters at `Fetch`; `Clean` is the user's command and `Crash`
ends a process at any point, which also covers the early returns on an SQLite error. `rec`,
`fetched`, `batch` and `rejected` are the process's local variables. `CredentialError` cannot occur
here: the credential was already split once before the flush. `AUTOINCREMENT` is `next_id`.

**EditIngest.** `hpc[h]` is the statement handler `h` executes next. `Receive` starts with what
`SubmitEdits` lets through; `RejectEdit` / `AdmitEdit` are `EditValidator.Validate` and
`ValidationService.Validate` with the count of that moment; `SaveEdit` / `SaveFails` are the
`INSERT`; `StripOld` / `StripOverflow` / `RetentionFails` the two retention `UPDATE`s; `Abort`
covers a server that stops and a handler that panics. Checks that depend on the edit alone
(`diff_inconsistent`, `path_mismatch`, `oversized`) are the constant set `Suspicious`. `Fault` names
the statements that may fail and `MaxFaults` bounds how many do.

**EditPipeline.** Extends the client with one instance of the server on the same clock. `conn[h]` is
the process that waits for handler `h`. `Upload` joins `Post` and `Receive`, `Answer` joins `Reply`
with the client's reading of it; the -1 index makes the body unparseable because the client's index
is unsigned. `LoseRequest`, `Disconnect`, `Killed`, `AnswerCutOff`, `ServerStops` are the failures,
bounded by `MaxOutages` and `MaxFaults`. `signed` is a history variable no action reads.

**EditDelivery.** The promise without processes or retries: `captured` records may become `stored`
once each, only stored ones may be `settled`. `EditPipeline` implements it under
`captured <- signed, stored <- stored_sigs, settled <- synced_sigs` (run `pipeline`).

**RecordPrune.** A row is its kind (synced, spent, dead, pending: the four groups the caps name) and
`at[p]` the cap process `p` is working on; `Count` and `Delete` are separate actions. Two kinds of
process prune: a hook inserts one row, flushes and prunes (`InsertRecord`); a scan inserts all new
events of one file in one transaction and prunes (`InsertEvents`, up to `MaxBatch` rows, also none).
`CaptureProcess` takes the whole prune as one step, which is exact for one process; this module says
what two add.

**UsageOutbox.** `row[r]` is a total or a snapshot with `updated_at` and its dirty flag. `pc[p]` walks
through `sync_now`, one statement to an action: snapshots, dirty totals in chunks of `MaxItems`
(`SelectDirtyRollups`), each payload with a cleanup, an insertion (`Enqueue` - `Insert`, with the
unique key on type, key and hash) and the caps (`Trim`), dirty snapshots, then `StartDrain` -
`FetchPending` - `Upload` or `UploadFails` - `MarkPayloadUploaded`, item by item - `MarkOutboxSynced`
or `IncrementOutboxRetry`. Rows with `synced = 1` only wait for their deletion and are left out.
`orphans` are requests whose sender was killed and that still arrive. `high`, `known` and `overtaken`
are history variables; the last names the rows whose latest delivery was an older value than the
server had.

**UsageDelivery.** The promise: a row may be called delivered when the server has been given its
current value; nothing is ever invented.

**UsageRollups.** `disk` is what the tools write. A process lists the files modified in its window
with their mtime, skips the cached ones, reads a file (`ScanFile`: the file as it is then), replaces
its contribution, and caches it under the listed mtime. `listed` ends where the budgets do: `Position[f]`
is the directory entry at which the walk meets a file, `MaxEntries` and `MaxCandidates` are one tool's
shares of the budgets of a run, and the cache is looked at only afterwards. A file that is `bad`
cannot be read as text and ends the scan with an error (`FailScan`), before later files and the
prune; a file that is too `big` is not opened. Retention and three caps follow, each count
in a statement before the transaction that deletes. `Upgraded` starts with the sessions of an older
version. A day stands for all rollup keys of that day.

**MonitoringEvents.** The same scan for events: `MarkSeen` commits in usage.sqlite at once;
`CheckRecord` opens a deferred transaction on records.db, whose snapshot makes the first `INSERT`
fail (`Busy`) when a hook (`Capture`) or another scan has committed meanwhile. `lost` collects the
keys whose transaction was rolled back.

**CodexRollout.** A log is written and read line by line: `NewTurn` names a model, `Report` carries
last and total tokens. What is counted is compared with what was used; `Window` is the number of
last lines that are read.

**HookSettings.** A settings file is how many entries of each hook array hold which commands: one of
aitrack's, one of another program, or both (`edit_other`, `prompt_other`: Claude's entries have a
`hooks` array of several commands). `removed` drops whole entries, as the code's `retain` does.
`Truncate` and `WriteSettings` are separate, so that a kill leaves a broken file; the user's edits
(`UserEdit`) come between commands. `placed` counts the hooks others put into entries of their own,
`joined` those they put into an entry of aitrack's since the last remove.

**CodexConfig.** The file is the sequence of its lines; blank lines and formatting are left out. A
command reads the file (`InstallHook`, `RemoveHook`), truncates it (`Truncate`) and writes its text
(`WriteText`); a kill between leaves nothing, one within the write a part of the text (`Crash`).
Between commands any line is put in anywhere or taken out, the marker too; `disturbed` counts the
edits that took a marker out or put a line before a hook of aitrack, and `torn` records a kill after
the truncation.

**ConfigFile.** Files, their names and the processes' open handles; one action per system call.

**HookJournal.** The file is a sequence of bytes, each the number of its event and how many bytes of
that line follow it; events have all the lengths in `Size`. Appending, reading (with the choice of the
lines kept: newest first, within both limits), truncating, and writing from offset 0 are one action
each, so that what is written back covers a longer file only in part (`written`). **Heartbeat.** `age` is the difference of the wall clock to the kept time; it is what
throttles, and may become negative when the clock is set back. `quiet` and `recorded` are history.

**JavaIngest.** `Step(h)` validates, looks for the signature among the rows it can see, and inserts,
or waits for a transaction that has inserted the same key; a fault or a value too long for its
column rolls the batch back and the client tries again.

Operators named like another with a suffix and commented *Mutated form* are the plausible bugs that
`PROJECT.json` pairs with the properties; no specification uses them.

## 3. Runs

| Run | Scenes | Properties |
|---|---|---|
| `capture` | *race*: 2 processes, 1 event, 3 git contexts, 2 rows, 3 seconds; *many*: 1 process at a time, 4 rows, all caps exceeded; *pair*, *alone*: the prune by statements, 6 rows, scans of up to 2, by 2 processes, or by 1 that may be killed once | `ClientTypeOK`, `UploadableIsIntact`, `UploadsOriginalText`, `HeldIdIsSameRecord`, `SignaturesUnique`, `RetryIsBounded`, `RepositoryIsStable`, `PruneKeepsRows`, `RacingPrunesAreBounded` |
| `ingest` | *mixed*: 2 handlers, 3 edits (in order, flagged and not whitelisted, backfilled), batches of 2, 2 faults of any kind, 2 instants; *rate*: limit 1, 3 good edits of one file, 1 fault; *java*: 2 requests | `StoredOnce`, `StoredIsSigned`, `AcknowledgedIsStored`, `OneVerdictEach`, `RawTextIsBounded`, `RatesAreBounded`, `StoredIsFinal` |
| `pipeline` | *one*: 1 process at a time; *two*: 2 processes; 2 handlers, lost requests and answers, kills, faults of count, save and abort | `SyncedIsStored`, `ImplementsDelivery` |
| `eventual_sync` | *go*: 1 process, 2 handlers, 2 rows, 1 fault of any kind, 1 outage, 3 attempts; *java*: 3 clients with overlapping batches, 1 fault; *beat*: 2 processes, 2 tools, 2 changes, the clock set back once; fairness | `EventuallySynced`, `WaitsGoUp`, `AcknowledgedIsStored`, `ValidIsStoredInJava`, `RowFollowsHooks` |
| `usage_sync` | *caps*: 2 totals, outbox of 2 rows, payloads that expire, 2 failures, a kill; *race*: 2 processes, 1 total; *snapshots*: 1 process at a time and a snapshot | `CleanIsCurrent`, `SubscriptionIsPending`, `ImplementsUsageDelivery` |
| `usage_scan` | *scan*: 1 process, 2 files that may become too big or unreadable, 3 days, 2 writes, caps of 2, 1 kill; *race*: 2 processes, caps of 1; *upgrade*: 2 processes and old sessions; *events*: 2 processes, 3 lines, a window of 2, 1 remembered key; *rollout*: every log of 5 lines | `RollupIsSumOfSources`, `SkippedIsCounted`, `CompactionComesFirst`, `EventsAreAccountedFor`, `StampedEventIsRecordedOnce`, `RolloutIsCounted` |
| `usage_live` | *outbox*: 2 totals, 2 failures; *scan*: 4 files, one beyond the entries and one beyond the candidates that are listed, of which a run scans 1; *events*: 2 processes, a hook and a kill; fairness | `RollupsSettle`, `EveryFileIsCounted`, `EveryEventIsOffered` |
| `local` | *claude*, *cursor*: 5 commands, 4 edits, 2 kills; *codex*: 9 lines, 3 edits, 1 kill; *config*: 4 inits, 2 kills; *journal*: 3 processes, 5 events of 2, 3, 5 or 9 bytes, limits of 2 lines and 8 bytes, 1 kill; *beat*: 2 processes, interval 4 | `HookedOnce`, `OthersStay`, `SavedStays`, `JournalIsSound`, `ThrottleFollowsSuccess` |
| `dedup_window` | 1 process, 2 rows, 2 seconds | `NoDuplicateInWindow` is violated |
| `rate_limit` | 2 handlers, limit 1, no faults | `RateLimitHolds` is violated |
| `retention_error` | 1 process, the retention step fails once | `SyncedIsStored` is violated |
| `backfill_signature` | 1 process, no faults | `UploadsVerify` is violated |

The properties of the first eight runs hold.

### Bounds, and why they are enough

* `MaxRetry` 2 or 3 for 5, caps of 1 to 3 for 10000, 1000, 250 and 100, `RateLimit` 1 or 3 for 30,
  `MaxRawRows` 1, outbox, cache and source caps of 1 to 3: every cap and cut is reached and passed
  within a handful of rows. A scene that does not concern a limit sets it out of reach.
* Two processes and two handlers: the hazards are pairs of actors between two statements of one
  another. `RateBound` and `RetryIsBounded` are stated in the number of actors. A circle of waits of
  the Java server may need three requests, and the journal has three processes: one that appends
  while another prunes what a third has read. Symmetry is used where no liveness property is checked.
* `MaxRows` counts inserted and about-to-be-inserted rows: 2 give a batch with one accepted and one
  rejected row and two batches per flush; 4 exceed all caps together in *many*.
* `MaxClock` 2 makes two captures fall into one second, into the window and outside it. The runs
  that do not concern time stop the clock.
* `MaxFaults` and `MaxOutages` at 2 with `MaxRetry` 2 exhaust a row; at 1 each with `MaxRetry` 3 they
  do not, which is the premise of `EventuallySynced`.
* `Hour` and `RawWindow` 0 in `ingest` with two instants put rows inside and outside both windows.
* `MaxBatch` 2 is the least with which a scan's transaction differs from a hook's row; six rows with a
  cap of one let an overage pass the bound of `StaleDeleteIsSmall`, which is reached and not passed.
* The files of `usage_live` stand at the entries 1, 2, 3 and 5 of a walk that ends after 4 entries or
  2 files: which of them are listed changes with the days on which they are written.
* Events of 2, 3 and 5 bytes with limits of 2 lines and 8 bytes: either limit is exceeded alone, one
  event is too long for any file, and lines kept are shorter or longer than what they cover.
* A window of two last lines and a file of three is the smallest in which an event changes its
  position among the lines that are read; one remembered key makes every other key forgotten.
* `Ttl` 0 with two instants makes payloads expire; two changes of two totals with an outbox of two
  rows make payloads of one total queue up and overtake each other.
* Three days with a lookback of two and a retention of one: each day leaves the window, then the
  retention.
* Deadlock is not checked where the system rightly stops: with all inputs used up and every process
  idle. `ingest` and `rate_limit` check it: a request can always go on.

### Fairness

`FairPipelineSpec` (scene *go*) assumes weak fairness of a running process's own statements,
of sending a request, of noticing that no answer will come, and of a handler's work and answer: the
operating system schedules processes, Go schedules goroutines, TCP reports a dead peer. It assumes
strong fairness of `usage sync`: that somebody, a timer or a user, runs it again and again while it
can be. Nothing is assumed of captures, the user, the clock, faults or outages. Strong fairness is
needed because a process may be busy, in a capture of its own, infinitely often. The conclusion is
conditional: a row that verifies and has its repository, branch and sha (`Deliverable`) leads to
synced, or to its deletion by the user or a cap.

The same for usage: a running scan or sync goes on (weak), both are started again and again and a
server is configured (strong, as other work may come in between), and a request on its way arrives.
Of the Java server: requests that are worked on go on, and a client whose rows are pending sends
them again. Of heartbeats: time passes, edits are captured while a hook is installed, and of
requests that are made again and again one is answered. No fairness is assumed of faults, failures,
kills, writes, changes or the clock's being set back; all of them are bounded.

## 4. Proofs

Eight modules hold the proofs. Every theorem is about the specification of the component as TLC
runs it, for any number of processes, handlers, rows, files or events, and for all values of the
constants that satisfy the assumptions named below. `PROJECT.json` lists the theorems.

| Component | Proved | From |
|---|---|---|
| client, `CaptureProcessProofs` | `ClientTypeOK`, `UploadableIsIntact`, `UploadsOriginalText`, `HeldIdIsSameRecord`, `SignaturesUnique`, `RepositoryIsStable`, `RetryIsBounded`, `PruneKeepsUploadable` | `EventAssumption` (an event's own text is not the marker), `LimitAssumption` (`MaxRetry` and the caps on fetched, synced and pending rows are positive); for the retry counter `ProcAssumption` (finitely many processes), for the prune that `None` is no signature |
| prune, `PruneProofs` | `CapsHold`, `StaleDeleteIsSmall`; for one process `LatestStay` | `PruneConstants` (finitely many processes, caps are numbers, a transaction has at least one row) |
| Go server, `EditIngestProofs` | `IngestTypeOK`, `StoredOnce`, `StoredIsSigned`, `AcknowledgedIsStored`, `OneVerdictEach`, `RateBound`, `RawTextIsBounded`, `StoredIsFinal` | `IngestAssumption` (positive limits, finitely many handlers) |
| Java server, `JavaIngestProofs` | `WaitsGoUp`, `AcknowledgedIsStored`, `RateBound` | `BatchAssumption` (a client sends its rows in the order of their ids), `LimitAssumption` |
| pipeline, `EditPipelineProofs` | `UploadedOnce`, the client's invariant; with `Reliable` also `SyncedIsStored`, `ImplementsDelivery` | `PipelineAssumption` and those of client and server |
| outbox, `UsageOutboxProofs` | `TypeOK`, `CleanIsCurrent`, `OutboxIsBounded`, `ImplementsUsageDelivery`; `SubscriptionIsPending` for one process at a time, no row cut or expired, and no more accounts than `MaxItems` | `OutboxAssumption` (finitely many rows and processes, totals numbered in the order of the query, limits are numbers) |
| events, `ScanProofs` | `TypeOK`, `CachedIsSeen`, `StampedEventIsRecordedOnce`; `EventsAreAccountedFor` while no cap cuts rows | `EventsAssumption` (a window of at least one line, limits are numbers, `None` is nothing else) |
| rollups, `ScanProofs` | `CompactionComesFirst`; `RollupIsSumOfSources` without old sessions; `SkippedIsCounted` for one process that scans the default window | for the last two `RollupsAssumption` (finitely many files and days, days are integers, what files hold, windows, numbers) |
| Codex log, `ScanProofs` | `WholeLogIsExact`, `NeverOvercounted` (together `RolloutIsCounted`) | `RolloutAssumption` ("unknown" is no model, numbers, no line with the running total only) |
| heartbeat, `LocalProofs` | `TypeOK`; `ThrottleFollowsSuccess` while the clock is not set back | `HeartbeatAssumption` (the interval and the bound are numbers) |
| journal, `LocalProofs` | `LinesAreApart`, `JournalIsBounded` (together `JournalIsSound`) | `JournalConstants` (finitely many processes, an event has at least one byte before its newline, the limit of bytes is a number) |
| configuration, `LocalProofs` | `SavedStays`, `ConfigIsWhole`, for inits one after another | `ConfigConstants` (finitely many processes, a torn text is no configuration, an id is not nothing) |
| hooks, `LocalProofs` | `OthersStay`; `HookedOnce` for a settings file that is read once, and for Claude's, one command at a time under the name aitrack | `HooksConstants` (an absent, broken or missing thing is no file or array) |
| Codex file, `LocalProofs` | `HookedOnce`; `SectionsStay` when no comment of the user's starts with the marker (the property itself excludes a kill while the file is written) | nothing |

**Client.** The properties are not inductive one by one. `UploadsOriginalText` needs that a row which
is fetched has its text (`UploadableIsIntact`); that needs that the record a process is about to insert
still has it (`RecordInHand`); `HeldIdIsSameRecord` needs that `next_id` exceeds every id held, and
that a process holds no batch while it fetches (`BatchSettled`). `ClientInv` is their conjunction with
the types. The argument avoids a case split of every property over every action: `Succeeds(r, s)` says
what a statement may make of a row (same identity, same repository once it has one, and still
uploadable only with the same text), `Descends(t, u)` lifts it to tables, one lemma per statement
shows that it makes the table descend, and two lemmas (`TableStep`, `HeldStep`) derive the invariant
of any step whose table descends. Only `INSERT` (`InsertStep`) needs its own argument.

The bound of the retry counter needs an invariant of its own. `increment_retry` does not look at the
counter it increments, so a row passes `MaxRetry` when several processes hold it. `Holders(i)` are the
processes that may still add a failure to row `i`. `RetryInv` says that a row's counter plus the number
of its holders stays within `MaxRetry - 1 + Cardinality(Proc)`: a fetch is the only step that adds a
holder, and it takes only rows below `MaxRetry` (`BelowCut`); an increment trades a holder for a
failure (`SpendsBudget`); every other step adds neither (`KeepsBudget`).

`PruneKeepsUploadable` is about one statement after another in a prune nobody disturbs. `OldestCount`
shows that `ORDER BY id LIMIT n` takes exactly `n` rows (the number of older rows is a bijection to
`0 .. n - 1`), `ExcessKeeps` that a cap keeps as many as it allows and all newer than those it takes, and
`KeptIs` that the last cap, on all rows, never finds more than the caps on synced and on pending rows
have left. The case for rows without a signature is closed by `SignedInv`: a row with a credential's
key has one, in the table and in the hands of a process that is about to insert it.

**Prune.** The caps are a `COUNT` and a `DELETE` whose `LIMIT` is the overage counted before; other
processes insert, settle and delete in between. `CapInv` says that, as long as no process was killed,
every cap that is exceeded has a process that answers for it: one that is yet to count it, or one
whose count was at least what the overage is now. It survives a settled row, which moves from the cap
on pending rows to the one on synced rows, because the process that settles it counts every cap
after. `DrainInv` bounds what a stale overage may take. A process is
responsible for the `MaxBatch` rows of one transaction at most until it is past the cap, or for good
once it was killed. But several processes may have counted one overage, and a `DELETE` of the first
takes what the counts of the others still hold; so the invariant speaks of every set `S` of processes
that have counted the cap: the overage is covered by the transactions of the processes outside `S`,
or is no more than one of the counts of `S` and those transactions together. With `S` empty it bounds
any new count. For a scan of a large file `MaxBatch` is hundreds of rows, and so is what a stale
`DELETE` may take. A `DELETE` whose `LIMIT` exceeds what is there takes all, one that does not takes
exactly as many rows as counted (`FirstOfCount`: the ranks of a finite strict order are `0 .. n - 1`). For a single process an
overage is always what it was counted as, so the cap's newest rows stay (`LatestStay`).

**Go server.** The statements that change the table append one row whose signature it does not have
yet, or replace texts by markers (`TableStep`), so what holds of a stored row holds for good; and a
handler's lists speak only of edits before the one in turn (`VerdictsBefore`), each of which was
rejected or seen in the table. `IngestInv` adds to the properties that the edit about to be saved has
passed validation (`SavedIsVerified`), which handlers have inserted without having trimmed texts yet
(`SavedPlace`), and that a handler past its count may insert one row more than the limit
(`RateInv`). The lemmas are about `OpenNext`, in which a request may carry any edits at all: that is
what lets `EditPipelineProofs` use them for the requests its clients send.

**Pipeline.** Each step is a step of the client and a step of the server, so both invariants hold. New
is what connects them: an open connection joins a process that waits to a handler that works on the
very batch the process has open (`Connected`), every signature anywhere was computed by a capture
(`SignaturesKnown`), and what a process is about to mark is on the server (`Delivered`). The last
needs `Reliable`, that `Fault` contains neither "retain" nor "cut": with a failing retention step or an
answer cut off the client takes an unreadable answer for success, and the run `retention_error`
shows the property violated. Everything else in `PipelineInv` is proved without it. The refinement
follows step by step: only `SaveEdit` may store, only `MarkBatch` may settle.

**Java server.** A transaction's uncommitted rows are edits before the one it is at (`OwnIsBehind`), and
batches are in a common order; so whoever waits for a row waits for a transaction that is further
on. The rate is bounded because a client whose request was committed sends no more (`LimitInv`).

**Usage outbox.** `CleanIsCurrent` speaks of one total and one value, but an acknowledgement compares
the row with a payload that was cut from it at another time, by another process. The invariant
therefore speaks of all `copies` of a total: in payloads still to be put, in the outbox, in the hands
of a process, on their way, or yet to be made. Their stamps are at most the row's
(`RowsSound`, `CopiesSound`) and determine the value; the server has the newest it was sent unless it was
overtaken (`ServerHasNewest`); of a row that is not dirty no newer copy is left (`CleanIsNewest`).
That `acked` compares value and stamp is exactly what keeps the last one. `OutboxIsBounded` holds up
to one payload for each process between an insertion and the cleanup after it, and for each one
killed there: insertion and cleanup are separate statements.

A snapshot has no such comparison: any upload of it clears its flag, so that only the outbox remembers
a newer one. `SubscriptionIsPending` is proved from two invariants. `StampInv` holds for any processes:
a snapshot's value is its stamp, no payload has one newer than the row, and the server has the newest
it was sent unless it was overtaken. `AloneInv` is about the process at work: what it sends is what
the outbox has under that id, it deletes from the outbox only what the server was sent, and every
snapshot was planned or put before it drains (`Busy`); so a flag is cleared only while the newest value
waits or has arrived (`Waits`). Its hypotheses are where the property really ends: a second process may
clear the flag of a snapshot which the first took and has not put (`AloneIsWorking`), a cap or age
may take the only payload (`NothingCut`), and the query takes only `MaxItems` snapshots while the drain
clears the flag of any. `fails < MaxRetry` is in the property itself: that many failures are what
it takes for one payload to be given up (`Retried`).

**Monitoring events.** `EventsInv` says of every event in hand, in a snapshot or in the table that it
was read from a line which is still there and has that line's time (`real`), that no snapshot has a
signature twice (`Rows`), that what a process read of its file is seen or in hand (`Offered`), and
that what is cached was offered up to the length it is cached with. `AccountInv` relates a
transaction to the table: until its first `INSERT` its snapshot is the table or stale, then it is the
table and rows of lines it is past (`SnapshotOK`); so a signature it finds in its snapshot either is
committed or belongs to an earlier line than the one in hand, and no event is dropped for a row that
may be rolled back. The theorem is `Spec /\ [](Len(records) <= MaxRecords) => []...`: when a cap
removes a row its key is accounted for by nothing, as intended.

**Rollups.** A total is `MapThenSumSet` over the positions of a sequence, and `MapThenSumSet` is a
fold: what it computes is an induction over sets. The theorems of the library for that take an
operator as a parameter, so the induction is done with sets instead: `SubsetInduction` says that a
set `Good` which contains every subset of `I` whose proper subsets it contains has all of them, from
the least cardinality of those it lacks. With it `TallyExists` shows that the function the fold
chooses exists, `TotalTakes` that taking one position out takes its number out of the sum,
`TotalMoves` that a bijection of positions does not change it, and `TotalSplits` that it splits over a partition. `KeepAmount`,
`ConcatAmount`, `CutRows` and `NewRows` say what the four ways to change `sources` do to the sums.
`SumInv` is then inductive with the types and `NoPast` (no old sessions, so no rebuild). The old
sessions themselves are folded in first because every place of a scan past the rebuild implies that
there are none (`CompactionComesFirst` is inductive with the places alone, for any processes and any
kills).

`SkippedIsCounted` relates the cache, the list a process made and the files, which are written all the
time. `CacheInv` says that no cache row is newer than its file, and that one as new as its file, of
today's window, is that of a counted file. A row is added at the end of a file's scan, from a list made
earlier: `DueInv` says that no row of the cache is newer than the list, nor its window, and `HeadInv`
that what was read of the file at work is what it holds unless it was written since. Each step that
takes rows out of `sources` takes the cache rows of their files with it (`CacheShrinks`, `untouched`),
and each write makes the file newer than all that is known of it (`WriteStep`). Two processes can
break the middle part, an explicit window the first, and the property is stated for neither.

**Codex log.** `ReadInv` says that reading the log line by line yields the model at work and each
model's tokens, for a log of any length; `TailInv` that what is read from any line on adds up to no
more than the session's running total, which covers every place where the window may start. The
induction is over steps, not data: a line more in the log is a line more at each of its ends
(`EndOneMore`). What it needs of `FoldLeft` is that a fold over a sequence with one element more is
the last element's step on the fold over the rest (`ReadIs`, `CountedIs`). `FoldLeft` chooses a function
on the sets of positions, so `FoldExists` shows by `SubsetInduction` that there is one, and `FoldSame`
that folds over two sequences agree where the sequences do. The hypothesis that every line has
its last usage is where the property ends: a line with the running total only is counted with it,
as often as it occurs (finding 12).

**Heartbeat.** The kept time is the time a process read before its request, and others' requests may
have been answered since. `Ordered` says that neither it nor a time about to be kept is later than the
last heartbeat the server stored or the last request. A clock that is set back breaks the order,
which the invariant admits (`backs = 0 => Ordered`) and section 5 lists.

**Journal.** A process writes its lines back from the beginning of a file that others truncated and
appended to since it read them. Lines of different lengths make the places of two writers' lines
differ, so the order of lines, their number and even their being whole are lost (finding 14). What
is left is that every byte but a newline is followed by the next of its line (`apart`): appending adds
whole lines at the end, what is kept of a file is whole lines of it (`Ranks`: the bytes at a set of
places that is closed under "the next of its line"), and a write ends with a newline, so that
it cuts a line of the longer file only at its front. Length: the file is longer than the
limit of bytes by at most that limit for each process that has yet to look at the journal or to
truncate it, and for each one killed (`LengthInv`); a write back never makes it longer than the limit
or than it was.

**Configuration.** For inits that run one after another (`[]OneInit`) the temporary file is never the
one a capture reads (`CurrentInv`), and what is about to be renamed contains all that was saved
(`InitInv`). With two at once both parts fail (finding 15).

**Hook settings.** Every process reads the settings, edits a value in memory and writes it back, and users
edit the file only while nobody is at work. So `OthersInv` can say of every such value, and of the
file, that it has exactly the hooks others placed in entries of their own, and those that share an
entry with aitrack (`carries`), until a process takes a truncated file for an empty one (`torn`); that
holds for any number of processes. What is shared is excepted in the hands of a remove whose test
finds it: `joined` is reset when that is written. `HookedInv` says that no value has
a command of aitrack twice, alone in its entry or not. For Cursor the test and the insertion look at
the same value. For Claude the test reads the file again, so that an array not yet looked at must be
as in the file; a second process, or an executable whose hooks the test does not recognise (finding
10), breaks that.

**Codex file.** The property counts lines of a sequence that is cut, joined and edited line by line.
`sound(c, n)` says of a text `c` that each hook of aitrack stands at most once anywhere behind a marker
(`marked`) and at most `n` times apart from one, with another line or nothing between (`loose`), where
`n` is the number of disturbing edits. Both parts are needed: install looks for a marker and a hook
anywhere in the file, and appends a hook behind a marker only where none is marked. Every step takes
places of the old text to places of the new one (`thins`), so that marked hooks come from marked ones;
an edit that does not disturb takes loose ones to loose ones too (`keeps`), and one that does adds one
(a marker has at most one hook of each kind in its block). `OnceInv` says this of the file and of the
text about to be written, since a kill leaves a part of the latter. That remove takes no section
follows from where it starts and ends; a comment that begins with the marker moves its start, and a
kill after the truncation loses what was not written (`SectionsInv` is about `~Notes` and `~torn`,
findings 11 and 19).

Each inductive invariant was checked by TLC before its proof, and each assumption stated with
`ASSUME` is evaluated by TLC in the runs.

Only model-checked: liveness under fairness (`eventual_sync`, `usage_live`), which is out of the
prover's reach.
Some properties of runs join those of two components that are proved in two places: `PruneKeepsRows`
(`PruneKeepsUploadable`, `LatestStay`), `RatesAreBounded` (`RateBound` of either server), `HookedOnce`
and `OthersStay` of run `local` (JSON settings and the Codex file). Further definitions of the modules,
such as `AtMostOnePerInterval`, can be checked by naming them in a configuration.

## 5. Disagreements between the documents and the code

With a run that shows them:

1. **Two-second duplicate window** (`dedup_window`). A flush between the two captures replaces the
   stored text by a marker, so the duplicate check no longer recognises the first row.
2. **Hourly rate limit** (`rate_limit`). Counting and inserting are separate statements; concurrent
   requests exceed the documented limit by up to the number of handlers (`RateBound`).
3. **Retention error** (`retention_error`). It is reported under index -1, which the client cannot
   parse; rejected rows are then marked synced and their text is deleted.
4. **Backfill** (`backfill_signature`). Filling in signed columns without a new signature makes the
   row fail verification on every attempt.

Met while modelling. Each is stated as the definition named in brackets, which the model violates;
the properties of the runs are stated so that they hold beside it:

5. **Backfills and the sliding window** (`UsageRollups!ScanKeepsOtherDays`). A scan replaces a
   file's whole contribution by the days of its window, and so takes the others out of the totals;
   `README.en.md:161` calls explicit windows "targeted backfills".
6. **Upgrade** (`UsageRollups!CountedOnce`). The totals of old sessions have no sources, and the
   first scans add the same files on top (`docs/ARCHITECTURE.md:163`, replaced by source).
7. **Monitoring events lost** (`MonitoringEvents!SeenIsRecorded`). Keys are committed before the
   records; when the transaction on records.db fails the events are never recorded
   (`docs/ARCHITECTURE.md:164`).
8. **Monitoring events twice** (`MonitoringEvents!EventIsRecordedOnce`). A key contains the index of
   the event among the last lines of the file, which changes when the file outgrows that window.
9. **Null arrays** (`HookSettings!InitInstalls`). Remove leaves `null` where an array is missing, and
   nothing is ever pushed to it again (`CONTRACT.md:395`).
10. **Name of the executable** (`PlainName` = FALSE, `HookSettings!HookedOnce`). Under another file
    name than `aitrack` every init appends the prompt hook again (`docs/TESTING.md:296`).
11. **Codex block** (`CodexConfig!InitInstalls`, `RemoveRemoves`, `OthersStay`, and `SectionsStay` with
    `Notes` = TRUE). The prompt hook passes for the edit hook; a second block stays; hooks of others
    that follow, and everything after a comment that begins like the marker, go (`init.rs:310`).
12. **Totals without parts** (`CodexRollout!InputIsInput`). They are counted as input, and where a
    report has only the running total that is counted for each line (`docs/AGENT_SUPPORT.md:87`).
13. **Heartbeat** (`Heartbeat!AtMostOnePerInterval`, `RemovalIsNoticed`, and `DueAfterInterval` with
    a clock that is set back). Captures that end together both send (`CHANGELOG.md:337`); after the
    last hook is removed nothing reports it (`docs/SECURITY_MODEL.md:17`).
14. **Hook journal** (`HookJournal!LinesAreBounded`, `EventsAreWhole`, `NoneTwice`, `RecentStay`; the
    test at `lib.rs:1275` expects the newest 2000 lines, in order). When two hooks prune at once, a
    write back over longer lines leaves more lines than the limit at rest, one of them the end of an
    event, or an event twice; one that was appended after the other had read is lost.
15. **Shared temporary file** (`ConfigFile!ConfigIsWhole` with two processes). One init truncates
    what another renames (`CHANGELOG.md:266`).
16. **Racing prunes** (`RecordPrune!LatestStay` with two processes). Both delete the same overage, and
    rows below the cap go (`adapter/sqlite/mod.rs:449`).
17. **Columns of the Java server** (`JavaIngest!ValidIsStored` with `TooLong`). One value too long
    makes its batch fail on every attempt; the Go server has no such limits
    (`docs/ARCHITECTURE.md:223`, the two are equivalent).

18. **Markers and shared entries** (`CodexConfig!HookedOnce` without `disturbed`; `HookSettings!removed`).
    Install and remove are to be idempotent and not to duplicate (`CONTRACT.md:395`). When somebody
    deleted the line `# aitrack`, the next init does not recognise the hooks that are still there and
    appends both again (`init.rs:291-297`). A command that another program has put into aitrack's
    entry of Claude's settings goes with the entry when aitrack is removed (`init.rs:190-203`,
    `212-225`).
19. **Killed writers** (`CodexConfig!SectionsStay` without `torn`, `HookSettings!OthersStay` likewise).
    Settings files are truncated and written in place (`init.rs:179`, `287`, `305`): a kill in between
    loses hooks and sections of others. No document promises otherwise; aitrack's own configuration
    is saved through a temporary file.
20. **Budgets of a scan** (`UsageRollups!EveryFileIsCounted` excludes both cases). `client/README.md:38`
    says that after `scan_budget_exhausted` running it again continues with the sources not yet
    cached. The listing stops at its budgets before it looks at the cache
    (`usage/mod.rs:1299-1311`, `1329-1373`), so that files beyond them are not reached by running it
    again; and a file that cannot be read as text ends every scan before the files after it
    (`1418`, `2670-2674`).

Read, but not modelled: `docs/ARCHITECTURE.md` maps a 401 to `CredentialError` with a counted
retry; the code makes a 401 a `TransientError` and skips a `CredentialError` silently.

## 6. What the models leave out

* Most of `client/src/usage/mod.rs` and of the repository by lines: some forty parsers of other
  tools' logs and databases, provider tables and display. They convert formats that are defined
  elsewhere, keep no state of their own, and end in the two entrances `UsageRollups` and
  `MonitoringEvents` model. The parser for Codex, which has state, is `CodexRollout`.
* `agent.rs` (names and paths of tools), `cli.rs`, `update.rs`, the event adapters, diff, keyword and
  vector search, and on the servers statistics, search and profiles: conversions, reads, downloads.
* `Prune` in `CaptureProcess` is one step; `RecordPrune` says what two processes add.
* Reclaiming pages after a prune and the prompt tables touch nothing the properties speak of.
* Truncation (8192 characters of diff, before signing) is part of what an event is; a truncated
  diff may be flagged `diff_inconsistent`, which `Suspicious` allows.
* `token_key = 'legacy'` (tokens of at most five characters) does not occur: no server issues one.
* The server's own SQL is at read-committed isolation: each statement is atomic, which is what the
  models assume. Requests that fail authentication never change `edit_records`.
* Two `init`s at once over the settings of other tools, edits of these files while a command is at
  work, and a power failure that leaves a file renamed but not written: nothing in the code addresses
  them.
* A kill in the middle of a `write` of the journal, and a `write` that the system cuts short: an append
  and a write back are one action each.
* A command of another program with `aitrack` in its text passes for aitrack's in the JSON settings
  and is removed with it; the models' other programs have other names.
* The order in which a scan takes listed files (by kind of source, newest first) is an arbitrary
  one in `UsageRollups`, and a run's limit on the files of one tool is left out: the limit on all
  files does the same. Explicit windows are an input of the module that no run uses.
* The conversion of the scan cache's table by an upgrade (`usage/mod.rs:1177`), which empties the cache.
* The retention of raw texts in the Java server: it is that of `EditIngest`.

## 7. What is left

The safety properties of the runs are proved, some under the hypotheses section 4 names. Left to
TLC are the liveness properties and the safety properties outside those hypotheses. Two things are
stated by no property of a run: what becomes of the totals of old sessions once they are folded in
(finding 6), and what a scan with an explicit window leaves of other days (finding 5). No property
claims what a settings file keeps of others when its writer is killed (finding 19), anything of
files that no scan lists or that cannot be read (finding 20), or which events the journal keeps while
hooks prune side by side (finding 14).
