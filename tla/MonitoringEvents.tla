--------------------------- MODULE MonitoringEvents ---------------------------
(***************************************************************************)
(* Monitoring events (client/src/usage/mod.rs): the prompts, tool calls    *)
(* and edits a scan finds in a tool's JSONL file go to records.db, once    *)
(* each: usage_monitoring_seen, in usage.sqlite, remembers the source keys *)
(* and is committed row by row, while the records of a file are inserted   *)
(* in one transaction on records.db.  That transaction is deferred and the *)
(* database in WAL mode: it reads a snapshot, takes the write lock with    *)
(* its first INSERT, and fails if another process has committed meanwhile. *)
(***************************************************************************)
EXTENDS Integers, Sequences, FiniteSets, FiniteSetsExt, SequencesExt

CONSTANTS
    Proc, File, None,
    Stamped,         \* whether the lines may carry a time stamp of their own: a set of BOOLEAN
    InRepo,          \* TRUE when the events name a repository
    MaxWindow,       \* MAX_JSONL_LINES_PER_FILE
    MaxSeen,         \* MAX_USAGE_MONITORING_SEEN_ROWS
    MaxRecords,      \* the caps of prune_local_record_storage
    MaxLines, MaxCaptures, MaxCrashes     \* bounds of the model

VARIABLES
    disk,            \* [File -> sequence of lines]: TRUE for a line with a time stamp;
                     \* a file only grows, so its length stands for its mtime
    seen,            \* usage_monitoring_seen in rowid order
    cache,           \* usage_scan_file_cache: <<file, length>>
    records,         \* the monitoring rows of records.db
    writer,          \* who holds the write lock of records.db
    pc, job, todo,   \* each process: its place, its file, the events left
    view,            \* its transaction's snapshot with its own rows, or None
    stale,           \* processes with a snapshot older than the last commit
    captures, crashes,
    ever_seen,       \* history: the keys ever put into seen
    lost             \* history: keys whose transaction was rolled back

usage_db == <<seen, cache, ever_seen>>
records_db == <<records, writer, stale>>
proc_vars == <<pc, job, todo, view>>
env_vars == <<disk, captures, crashes>>
vars == <<usage_db, records_db, proc_vars, env_vars, lost>>

Init ==
    /\ disk = [f \in File |-> <<>>]
    /\ seen = <<>> /\ cache = {} /\ ever_seen = {}
    /\ records = <<>> /\ writer = None /\ stale = {}
    /\ pc = [p \in Proc |-> "idle"]
    /\ job = [p \in Proc |-> None]
    /\ todo = [p \in Proc |-> <<>>]
    /\ view = [p \in Proc |-> None]
    /\ captures = 0 /\ crashes = 0
    /\ lost = {}

goto(p, place) == pc' = [pc EXCEPT ![p] = place]
newest(q, n) == SubSeq(q, Max({1, Len(q) - n + 1}), Len(q))

-----------------------------------------------------------------------------
(* Reading a file.                                                         *)

\* Mutated form: one line too many.
events_of_longer_window(f) ==
    LET n == Len(disk[f])
        first == Max({1, n - MaxWindow})
    IN  [k \in 1..(n - first + 1) |->
            [file |-> f, line |-> first + k - 1, index |-> k - 1,
             mtime |-> IF disk[f][first + k - 1] THEN 0 ELSE n]]

\* The last MaxWindow lines, one event each: its line, how many events precede
\* it in the window, and the file's mtime where the line has no time.
events(f) ==
    LET n == Len(disk[f])
        first == Max({1, n - MaxWindow + 1})
    IN  [k \in 1..(n - first + 1) |->
            [file |-> f, line |-> first + k - 1, index |-> k - 1,
             mtime |-> IF disk[f][first + k - 1] THEN 0 ELSE n]]

\* stable_hash of the seed: the whole event.
source_key(e) == e

\* What record_sig covers: time and place; outside a repository current_sha is
\* cut from the source key.
record_sig(e) ==
    <<e.file, e.line, e.mtime, IF InRepo THEN None ELSE source_key(e)>>

\* Mutated form: the size of the file is not compared.
is_cached_once(f) == \E n \in 1..MaxLines : <<f, n>> \in cache

is_cached(f) == <<f, Len(disk[f])>> \in cache

ScanFile(p, f) ==
    /\ pc[p] = "idle"
    /\ ~is_cached(f)
    /\ disk[f] # <<>>
    /\ job' = [job EXCEPT ![p] = <<f, Len(disk[f])>>]
    /\ todo' = [todo EXCEPT ![p] = events(f)]
    /\ goto(p, "seen")
    /\ UNCHANGED <<usage_db, records_db, view, env_vars, lost>>

-----------------------------------------------------------------------------
(* insert_monitoring_events_into.                                          *)

next_event(p) == todo' = [todo EXCEPT ![p] = Tail(@)]

\* INSERT OR IGNORE INTO usage_monitoring_seen: committed at once.
MarkSeen(p) ==
    /\ pc[p] = "seen"
    /\ todo[p] # <<>>
    /\ LET k == source_key(Head(todo[p]))
       IN  IF k \in Range(seen)
           THEN next_event(p) /\ UNCHANGED <<usage_db, pc>>
           ELSE /\ seen' = Append(seen, k)
                /\ ever_seen' = ever_seen \cup {k}
                /\ goto(p, "check")
                /\ UNCHANGED <<cache, todo>>
    /\ UNCHANGED <<records_db, job, view, env_vars, lost>>

sigs(rows) == {record_sig(rows[i]) : i \in DOMAIN rows}

\* Mutated form: no look at the records.
known_never(rows, e) == FALSE

known_record(rows, e) == record_sig(e) \in sigs(rows)

\* insert_record_by_signature looks first; the SELECT opens the snapshot.
CheckRecord(p) ==
    /\ pc[p] = "check"
    /\ LET rows == IF view[p] = None THEN records ELSE view[p]
       IN  /\ view' = [view EXCEPT ![p] = rows]
           /\ IF known_record(rows, Head(todo[p]))
              THEN next_event(p) /\ goto(p, "seen")
              ELSE goto(p, "insert") /\ UNCHANGED todo
    /\ UNCHANGED <<usage_db, records_db, job, env_vars, lost>>

may_write(p) == writer \in {None, p} /\ p \notin stale

InsertRecord(p) ==
    /\ pc[p] = "insert"
    /\ may_write(p)
    /\ writer' = p
    /\ view' = [view EXCEPT ![p] = Append(@, Head(todo[p]))]
    /\ next_event(p)
    /\ goto(p, "seen")
    /\ UNCHANGED <<usage_db, records, stale, job, env_vars, lost>>

\* Whoever reads an older snapshot can no longer write.
commit(p, rows) ==
    /\ records' = rows
    /\ stale' = (stale \cup {q \in Proc : view[q] # None}) \ {p}

Commit(p) ==
    /\ pc[p] = "seen"
    /\ todo[p] = <<>>
    /\ IF writer = p THEN commit(p, view[p]) /\ writer' = None
       ELSE stale' = stale \ {p} /\ UNCHANGED <<records, writer>>
    /\ view' = [view EXCEPT ![p] = None]
    /\ goto(p, "prune")
    /\ UNCHANGED <<usage_db, job, todo, env_vars, lost>>

\* The event in work, and those this transaction would have committed.
at_risk(p) ==
    (IF pc[p] \in {"check", "insert"} THEN {source_key(Head(todo[p]))} ELSE {})
    \cup (IF writer = p THEN {source_key(view[p][i]) : i \in DOMAIN view[p]}
                             \ {source_key(records[i]) : i \in DOMAIN records}
          ELSE {})

\* The transaction, if there is one, is rolled back, and the scan ends.
end_scan(p) ==
    /\ lost' = lost \cup at_risk(p)
    /\ writer' = IF writer = p THEN None ELSE writer
    /\ stale' = stale \ {p}
    /\ view' = [view EXCEPT ![p] = None]
    /\ todo' = [todo EXCEPT ![p] = <<>>]
    /\ job' = [job EXCEPT ![p] = None]
    /\ goto(p, "idle")

\* Mutated form: the error of one INSERT is dropped and the loop goes on.
Busy_ignored(p) ==
    /\ pc[p] = "insert"
    /\ ~may_write(p)
    /\ next_event(p)
    /\ goto(p, "seen")
    /\ UNCHANGED <<usage_db, records_db, job, view, env_vars, lost>>

\* SQLITE_BUSY: the lock was not free for busy_timeout, or the snapshot is old.
Busy(p) ==
    /\ pc[p] \in {"insert", "prune"}
    /\ ~may_write(p)
    /\ end_scan(p)
    /\ UNCHANGED <<usage_db, records, env_vars>>

-----------------------------------------------------------------------------
(* The rest of a file's turn.                                              *)

PruneRecords(p) ==
    /\ pc[p] = "prune"
    /\ may_write(p)
    /\ IF Len(records) > MaxRecords THEN commit(p, newest(records, MaxRecords))
       ELSE UNCHANGED <<records, stale>>
    /\ goto(p, "cache")
    /\ UNCHANGED <<usage_db, writer, job, todo, view, env_vars, lost>>

\* Mutated form: the mtime of now.
scanned_now(p) == <<job[p][1], Len(disk[job[p][1]])>>

scanned(p) == job[p]

MarkSourceFileScanned(p) ==
    /\ pc[p] = "cache"
    /\ cache' = cache \cup {scanned(p)}
    /\ goto(p, "trim")
    /\ UNCHANGED <<seen, ever_seen, records_db, job, todo, view, env_vars, lost>>

TrimSeen(p) ==
    /\ pc[p] = "trim"
    /\ seen' = newest(seen, MaxSeen)
    /\ goto(p, "idle")
    /\ job' = [job EXCEPT ![p] = None]
    /\ UNCHANGED <<cache, ever_seen, records_db, todo, view, env_vars, lost>>

-----------------------------------------------------------------------------
\* A hook records an edit: one statement on records.db.
Capture ==
    /\ captures < MaxCaptures
    /\ captures' = captures + 1
    /\ writer = None
    /\ stale' = {q \in Proc : view[q] # None}
    /\ UNCHANGED <<usage_db, records, writer, proc_vars, disk, crashes, lost>>

Grow(f, stamped) ==
    /\ Len(disk[f]) < MaxLines
    /\ disk' = [disk EXCEPT ![f] = Append(@, stamped)]
    /\ UNCHANGED <<usage_db, records_db, proc_vars, captures, crashes, lost>>

Crash(p) ==
    /\ pc[p] # "idle"
    /\ crashes < MaxCrashes
    /\ crashes' = crashes + 1
    /\ end_scan(p)
    /\ UNCHANGED <<usage_db, records, disk, captures>>

Scan(p) ==
    \/ \E f \in File : ScanFile(p, f)
    \/ MarkSeen(p) \/ CheckRecord(p) \/ InsertRecord(p) \/ Busy(p) \/ Commit(p)
    \/ PruneRecords(p) \/ MarkSourceFileScanned(p) \/ TrimSeen(p)

Next ==
    \/ \E p \in Proc : Scan(p) \/ Crash(p)
    \/ Capture
    \/ \E f \in File, s \in Stamped : Grow(f, s)

Spec == Init /\ [][Next]_vars

(* Fairness: scans are run again and again, and a running one goes on.     *)
FairSpec == Spec /\ \A p \in Proc : WF_vars(Scan(p))

-----------------------------------------------------------------------------
(* Type correctness of tables, transactions and processes.                 *)
Event == [file : File, line : 1..MaxLines, index : 0..MaxWindow - 1, mtime : 0..MaxLines]

TypeOK ==
    /\ disk \in [File -> Seq(BOOLEAN)]
    /\ seen \in Seq(Event) /\ ever_seen \subseteq Event /\ lost \subseteq Event
    /\ cache \subseteq File \X (1..MaxLines)
    /\ records \in Seq(Event)
    /\ writer \in Proc \cup {None}
    /\ pc \in [Proc -> {"idle", "seen", "check", "insert", "prune", "cache", "trim"}]
    /\ job \in [Proc -> {None} \cup (File \X (1..MaxLines))]
    /\ todo \in [Proc -> Seq(Event)]
    /\ view \in [Proc -> {None} \cup Seq(Event)]
    /\ stale \subseteq {p \in Proc : view[p] # None}
    /\ writer # None => view[writer] # None /\ writer \notin stale

(* The two databases agree as far as no transaction failed: a key that was *)
(* ever seen belongs to a record (which a cap may have removed since), to  *)
(* a transaction at work, or to one that was rolled back.  For the newest  *)
(* MaxRecords rows, in a model where the cap is not reached.               *)
SeenIsAccountedFor ==
    \A k \in ever_seen \ lost :
        \/ record_sig(k) \in sigs(records)
        \/ \E p \in Proc : k \in at_risk(p)

(* A cached file, which no scan opens again, has had each of its events    *)
(* offered to records.db: lines that were written during the scan included.*)
CachedIsSeen ==
    \A f \in File : is_cached(f) => \A k \in DOMAIN events(f) : source_key(events(f)[k]) \in ever_seen

\* Both.
EventsAreAccountedFor == CachedIsSeen /\ SeenIsAccountedFor

(* The record of a line with a time stamp is in the table once, whichever  *)
(* processes scan its file together, crash, or forget the key, while its   *)
(* file stays within MAX_JSONL_LINES_PER_FILE or names a repository.       *)
StampedEventIsRecordedOnce ==
    \A i, j \in DOMAIN records :
        LET a == records[i]
            b == records[j]
        IN  a.file = b.file /\ a.line = b.line /\ disk[a.file][a.line]
            /\ (InRepo \/ Len(disk[a.file]) <= MaxWindow) => i = j

(* Every event gets its turn: when files and hooks rest, all events in the *)
(* windows have been offered, though processes fail on each other's locks. *)
EveryEventIsOffered ==
    <>[](\A f \in File : \A k \in DOMAIN events(f) : source_key(events(f)[k]) \in ever_seen)

(* docs/ARCHITECTURE.md:164: events are "deduplicated through              *)
(* usage_monitoring_seen and written to records.db".                       *)

\* No event counts as seen that no record was, or is going to be, made of.
SeenIsRecorded == lost \subseteq {k \in Event : record_sig(k) \in sigs(records)}

\* No event of a file is recorded twice.
EventIsRecordedOnce ==
    \A i, j \in DOMAIN records :
        records[i].file = records[j].file /\ records[i].line = records[j].line => i = j
=============================================================================
