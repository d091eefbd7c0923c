---------------------------- MODULE UsageRollups ----------------------------
(***************************************************************************)
(* The scan of local usage (client/src/usage/mod.rs, scan_into): how the   *)
(* daily totals of usage.sqlite follow the files of the tools.  A file's   *)
(* contribution is kept in usage_rollup_sources, and a scan replaces it as *)
(* a whole; usage_scan_file_cache says which files need no scan.  Every    *)
(* action is one transaction or statement, a read of the file system, or   *)
(* the tool writing its file.  A day stands for a rollup key of that day.  *)
(***************************************************************************)
EXTENDS Integers, Sequences, FiniteSets, FiniteSetsExt, SequencesExt, Functions

CONSTANTS
    Proc, File,
    Day,             \* 1..n
    Today0,          \* the day the model starts
    Content,         \* what a file may hold: [use : [Day -> Nat], big, bad : BOOLEAN];
                     \* bad: it cannot be read as text
    Position,        \* [File -> Nat]: at which entry the walk of the folders meets a file
    First,           \* [File -> Content], what the files hold at first
    Upgraded,        \* TRUE when an older version left its usage_sessions
    Explicit,        \* windows given by --since and --until
    Lookback,        \* DEFAULT_SCAN_LOOKBACK_DAYS
    Retention,       \* USAGE_ROLLUP_RETENTION_DAYS
    MaxEntries,      \* a tool's share of MAX_SCAN_DIR_ENTRIES_PER_RUN
    MaxCandidates,   \* its share of MAX_SCAN_CANDIDATES_PER_RUN
    MaxFiles,        \* MAX_SCAN_FILES_PER_RUN
    MaxRollups, MaxSources, MaxCache,   \* row caps
    MaxWrites, MaxCrashes               \* bounds of the model

VARIABLES
    disk,            \* the files: [use, big, bad, mtime, day]
    today,
    sessions,        \* usage_sessions, summed by day
    rollup,          \* usage_daily_model_rollups: a total per day, 0 without row
    sources,         \* usage_rollup_sources in rowid order
    cache,           \* usage_scan_file_cache in rowid order
    pc, job,         \* each process: its place and its memory
    writes, crashes  \* what the bounds count

db_vars == <<sessions, rollup, sources, cache>>
env_vars == <<disk, today, writes, crashes>>
vars == <<db_vars, env_vars, pc, job>>

Zero == [d \in Day |-> 0]
on_days(S(_)) == [d \in Day |-> S(d)]
sum_files(use(_, _)) == on_days(LAMBDA d : MapThenSumSet(LAMBDA f : use(f, d), File))

\* A window of days; the default one ends today.
default_window == [from |-> today - Lookback + 1, to |-> today]
inside(d, w) == w.from <= d /\ d <= w.to

no_job == [window |-> [from |-> 0, to |-> 0], explicit |-> FALSE, due |-> <<>>,
           left |-> 0, use |-> Zero, over |-> 0]

Init ==
    /\ disk = [f \in File |-> [use |-> First[f].use, big |-> First[f].big, bad |-> First[f].bad,
                               mtime |-> 0, day |-> Today0]]
    /\ today = Today0
    /\ sessions = IF Upgraded THEN sum_files(LAMBDA f, d : First[f].use[d]) ELSE Zero
    /\ rollup = sessions
    /\ sources = <<>>
    /\ cache = <<>>
    /\ pc = [p \in Proc |-> "idle"]
    /\ job = [p \in Proc |-> no_job]
    /\ writes = 0 /\ crashes = 0

goto(p, place) == pc' = [pc EXCEPT ![p] = place]
remember(p, field, value) == job' = [job EXCEPT ![p] = [@ EXCEPT ![field] = value]]

\* The elements of q at the positions ks, in their order.
keep(q, ks) ==
    [n \in 1 .. Cardinality(ks) |-> q[CHOOSE k \in ks : Cardinality({j \in ks : j <= k}) = n]]

-----------------------------------------------------------------------------
(* compact_legacy_usage_sessions: one transaction, then one statement.     *)

\* Mutated form: totals count as compacted.
uncompacted == sessions # Zero /\ rollup = Zero

must_compact == sessions # Zero

Start(p, w) ==
    /\ pc[p] = "idle"
    /\ job' = [job EXCEPT ![p] = [no_job EXCEPT !.window = w, !.explicit = w # default_window]]
    /\ goto(p, IF must_compact THEN "rebuild" ELSE "list")
    /\ UNCHANGED <<db_vars, env_vars>>

\* rebuild_rollups puts the sums in place of the totals.
RebuildRollups(p) ==
    /\ pc[p] = "rebuild"
    /\ rollup' = on_days(LAMBDA d : IF sessions[d] # 0 THEN sessions[d] ELSE rollup[d])
    /\ goto(p, "clear")
    /\ UNCHANGED <<sessions, sources, cache, env_vars, job>>

DeleteSessions(p) ==
    /\ pc[p] = "clear"
    /\ sessions' = Zero
    /\ goto(p, "list")
    /\ UNCHANGED <<rollup, sources, cache, env_vars, job>>

-----------------------------------------------------------------------------
(* scan_local_sources_into.                                                *)

\* Mutated form: size and mtime are not compared.
cached_once(f, mtime, w) ==
    \E c \in Range(cache) :
        c.file = f /\ c.window.from <= w.from /\ w.to <= c.window.to

\* should_scan_source_file
cached(f, mtime, w) ==
    \E c \in Range(cache) :
        /\ c.file = f /\ c.mtime = mtime
        /\ c.window.from <= w.from /\ w.to <= c.window.to

\* collect_supported_files: the files modified since the window began, as the walk of
\* the folders meets them, until a budget is used up.
listed(w) ==
    LET modified == {f \in File : disk[f].day >= w.from}
        no_later(f) == {g \in modified : Position[g] <= Position[f]}
    IN  {f \in modified : Position[f] <= MaxEntries /\ Cardinality(no_later(f)) <= MaxCandidates}

\* With the mtime they have now.
ListFiles(p) ==
    /\ pc[p] = "list"
    /\ LET due == listed(job[p].window)
       IN  job' = [job EXCEPT ![p].left = MaxFiles,
                ![p].due = SetToSeq({[file |-> f, mtime |-> disk[f].mtime, big |-> disk[f].big] :
                                     f \in due})]
    /\ goto(p, "scan")
    /\ UNCHANGED <<db_vars, env_vars>>

skips(p) == cached(Head(job[p].due).file, Head(job[p].due).mtime, job[p].window)

SkipCached(p) ==
    /\ pc[p] = "scan"
    /\ job[p].due # <<>>
    /\ skips(p)
    /\ remember(p, "due", Tail(job[p].due))
    /\ UNCHANGED <<db_vars, env_vars, pc>>

\* A file that is too big is not opened.
readable(f) == disk[f].big \/ ~disk[f].bad

\* The file as it is now, which may be newer than its mtime in the list; only
\* the days of the window are kept.
ScanFile(p) ==
    /\ pc[p] = "scan"
    /\ job[p].due # <<>>
    /\ ~skips(p)
    /\ job[p].left > 0
    /\ readable(Head(job[p].due).file)
    /\ LET use == disk[Head(job[p].due).file].use
       IN  job' = [job EXCEPT ![p].left = @ - 1,
                ![p].use = on_days(LAMBDA d : IF inside(d, job[p].window) THEN use[d] ELSE 0)]
    /\ goto(p, IF Head(job[p].due).big THEN "mark" ELSE "replace")
    /\ UNCHANGED <<db_vars, env_vars>>

\* The command ends with the error of the file, before the other files and the prune.
FailScan(p) ==
    /\ pc[p] = "scan"
    /\ job[p].due # <<>>
    /\ ~skips(p)
    /\ job[p].left > 0
    /\ ~readable(Head(job[p].due).file)
    /\ goto(p, "idle")
    /\ job' = [job EXCEPT ![p] = no_job]
    /\ UNCHANGED <<db_vars, env_vars>>

\* Mutated form: the old contribution is not subtracted.
added_only(old, new) == new

\* The change of each total: minus the old rows, plus the new ones.
delta(old, new) == on_days(LAMBDA d : new[d] - old[d])

held(f) == on_days(LAMBDA d : MapThenSumSet(LAMBDA k : sources[k].n,
                       {k \in DOMAIN sources : sources[k].file = f /\ sources[k].day = d}))

ReplaceRollupSource(p) ==
    /\ pc[p] = "replace"
    /\ LET f == Head(job[p].due).file
           new == job[p].use
           rows == {[file |-> f, day |-> d, n |-> new[d]] : d \in {x \in Day : new[x] # 0}}
       IN  /\ rollup' = on_days(LAMBDA d : rollup[d] + delta(held(f), new)[d])
           /\ sources' = keep(sources, {k \in DOMAIN sources : sources[k].file # f}) \o SetToSeq(rows)
    /\ goto(p, "mark")
    /\ UNCHANGED <<sessions, cache, env_vars, job>>

\* Mutated form: the mtime is read again when the scan is over.
mtime_at_end(p) == disk[Head(job[p].due).file].mtime

scanned_mtime(p) == Head(job[p].due).mtime

MarkSourceFileScanned(p) ==
    /\ pc[p] = "mark"
    /\ LET row == [file |-> Head(job[p].due).file, mtime |-> scanned_mtime(p),
                   window |-> job[p].window]
       IN  cache' = IF row \in Range(cache) THEN cache ELSE Append(cache, row)
    /\ remember(p, "due", Tail(job[p].due))
    /\ goto(p, "scan")
    /\ UNCHANGED <<sessions, rollup, sources, env_vars>>

EndScan(p) ==
    /\ pc[p] = "scan"
    /\ job[p].due # <<>> => ~skips(p) /\ job[p].left = 0
    /\ goto(p, IF job[p].explicit THEN "count_rollups" ELSE "retain")
    /\ UNCHANGED <<db_vars, env_vars, job>>

-----------------------------------------------------------------------------
(* prune_usage_auxiliary_tables: each cap counts first, in another         *)
(* statement than the transaction that deletes.                            *)

forget(files) == keep(cache, {k \in DOMAIN cache : cache[k].file \notin files})
files_of(rows) == {s.file : s \in rows}
rows_at(days) == {s \in Range(sources) : s.day \in days}

\* Mutated form: the sources stay.
drop_totals(days) ==
    /\ cache' = forget(files_of(rows_at(days)))
    /\ sources' = sources
    /\ rollup' = on_days(LAMBDA d : IF d \in days THEN 0 ELSE rollup[d])

\* delete_rollup_sources_matching, and the totals with their sources.
drop_days(days) ==
    /\ cache' = forget(files_of(rows_at(days)))
    /\ sources' = keep(sources, {k \in DOMAIN sources : sources[k].day \notin days})
    /\ rollup' = on_days(LAMBDA d : IF d \in days THEN 0 ELSE rollup[d])

PruneByRetention(p) ==
    /\ pc[p] = "retain"
    /\ drop_days({d \in Day : d < today - Retention})
    /\ goto(p, "count_rollups")
    /\ UNCHANGED <<sessions, env_vars, job>>

present == {d \in Day : rollup[d] # 0}
over(n, cap) == Max({0, n - cap})

CountRollups(p) ==
    /\ pc[p] = "count_rollups"
    /\ remember(p, "over", over(Cardinality(present), MaxRollups))
    /\ goto(p, "cap_rollups")
    /\ UNCHANGED <<db_vars, env_vars>>

\* The oldest days go.
CapRollups(p) ==
    /\ pc[p] = "cap_rollups"
    /\ drop_days({d \in present : Cardinality({x \in present : x < d}) < job[p].over})
    /\ goto(p, "cap_cache")
    /\ UNCHANGED <<sessions, env_vars, job>>

newest(q, n) == SubSeq(q, Max({1, Len(q) - n + 1}), Len(q))

CapCache(p) ==
    /\ pc[p] = "cap_cache"
    /\ cache' = newest(cache, MaxCache)
    /\ goto(p, "count_sources")
    /\ UNCHANGED <<sessions, rollup, sources, env_vars, job>>

CountSources(p) ==
    /\ pc[p] = "count_sources"
    /\ remember(p, "over", over(Len(sources), MaxSources))
    /\ goto(p, "cap_sources")
    /\ UNCHANGED <<db_vars, env_vars>>

\* Mutated form: the scan cache keeps the files whose rows went.
keep_cache(files) == cache

forget_pruned(files) == forget(files)

\* prune_rollup_source_rows: the oldest rows go, their part of the totals too.
CapSources(p) ==
    /\ pc[p] = "cap_sources"
    /\ LET cut == Min({job[p].over, Len(sources)})
           gone == SubSeq(sources, 1, cut)
           part(d) == MapThenSumSet(LAMBDA k : gone[k].n, {k \in 1..cut : gone[k].day = d})
       IN  /\ sources' = SubSeq(sources, cut + 1, Len(sources))
           /\ rollup' = on_days(LAMBDA d : rollup[d] - part(d))
           /\ cache' = forget_pruned(files_of(Range(gone)))
    /\ goto(p, "idle")
    /\ job' = [job EXCEPT ![p] = no_job]
    /\ UNCHANGED <<sessions, env_vars>>

-----------------------------------------------------------------------------
(* The world around the scan.                                              *)

\* A tool writes its file.
Write(f, c) ==
    /\ writes < MaxWrites
    /\ \A d \in Day : d > today => c.use[d] = 0
    /\ [use |-> disk[f].use, big |-> disk[f].big, bad |-> disk[f].bad] # c
    /\ disk' = [disk EXCEPT ![f] = [use |-> c.use, big |-> c.big, bad |-> c.bad,
                                    mtime |-> @.mtime + 1, day |-> today]]
    /\ writes' = writes + 1
    /\ UNCHANGED <<today, crashes, db_vars, pc, job>>

NextDay ==
    /\ today + 1 \in Day
    /\ today' = today + 1
    /\ UNCHANGED <<disk, writes, crashes, db_vars, pc, job>>

Crash(p) ==
    /\ pc[p] # "idle"
    /\ crashes < MaxCrashes
    /\ crashes' = crashes + 1
    /\ goto(p, "idle")
    /\ job' = [job EXCEPT ![p] = no_job]
    /\ UNCHANGED <<disk, today, writes, db_vars>>

Scan(p) ==
    \/ RebuildRollups(p) \/ DeleteSessions(p)
    \/ ListFiles(p) \/ SkipCached(p) \/ ScanFile(p) \/ FailScan(p)
    \/ ReplaceRollupSource(p) \/ MarkSourceFileScanned(p) \/ EndScan(p)
    \/ PruneByRetention(p) \/ CountRollups(p) \/ CapRollups(p) \/ CapCache(p)
    \/ CountSources(p) \/ CapSources(p)

Next ==
    \/ \E p \in Proc :
        \/ \E w \in {default_window} \cup Explicit : Start(p, w)
        \/ Scan(p)
        \/ Crash(p)
    \/ \E f \in File, c \in Content : Write(f, c)
    \/ NextDay

Spec == Init /\ [][Next]_vars

(* A running scan goes on, and default scans are started again and again.  *)
Fairness == \A p \in Proc :
    WF_vars(Scan(p)) /\ SF_vars(Start(p, default_window))

FairSpec == Spec /\ Fairness

-----------------------------------------------------------------------------
(* Type correctness.                                                       *)
Window == [from : Int, to : Int]
TypeOK ==
    /\ disk \in [File -> [use : [Day -> Nat], big : BOOLEAN, bad : BOOLEAN,
                          mtime : 0..MaxWrites, day : Day]]
    /\ today \in Day
    /\ sessions \in [Day -> Nat]
    /\ rollup \in [Day -> Nat]
    /\ sources \in Seq([file : File, day : Day, n : Nat \ {0}])
    /\ cache \in Seq([file : File, mtime : 0..MaxWrites, window : Window])
    /\ pc \in [Proc -> {"idle", "rebuild", "clear", "list", "scan", "replace", "mark",
                        "retain", "count_rollups", "cap_rollups", "cap_cache",
                        "count_sources", "cap_sources"}]
    /\ \A p \in Proc : job[p].window \in Window /\ job[p].left \in 0..MaxFiles
                       /\ job[p].use \in [Day -> Nat] /\ job[p].over \in Nat

(* Every total is the sum of the contributions kept for it (a database     *)
(* without a past): replacement, retention, both row caps and processes    *)
(* that run side by side keep the two tables together.                     *)
RollupIsSumOfSources ==
    \A d \in Day : rollup[d] = MapThenSumSet(LAMBDA k : sources[k].n,
                                  {k \in DOMAIN sources : sources[k].day = d})

(* Old sessions are folded in before the first scan of any process, and    *)
(* never after: a rebuild, which replaces totals, cannot undo a scan, also *)
(* when a process died between the rebuild and the deletion.               *)
CompactionComesFirst ==
    (sources # <<>> \/ \E p \in Proc : pc[p] \notin {"idle", "rebuild", "clear"}) => sessions = Zero

up_to_date(f) ==
    \A d \in Day : inside(d, default_window) => held(f)[d] = disk[f].use[d]

(* A file the default scan would skip is counted: nothing that takes a     *)
(* file's contribution away leaves its cache row, and a file that changes  *)
(* while it is scanned is scanned again.  For one process that scans the   *)
(* default window.                                                         *)
SkippedIsCounted ==
    \A f \in File : ~disk[f].big /\ cached(f, disk[f].mtime, default_window) => up_to_date(f)

(* Of the files that stop changing, those that a scan lists are counted in *)
(* the end, though a run scans at most MAX_SCAN_FILES_PER_RUN of them,     *)
(* unless one of them cannot be read: it ends every scan.  The files that  *)
(* the budgets of the listing leave out are not claimed (client/README.md: *)
(* 38, "running it again continues with the sources not yet cached").      *)
EveryFileIsCounted == <>[](
    \/ \E f \in listed(default_window) : ~readable(f)
    \/ \A f \in listed(default_window) : disk[f].big \/ up_to_date(f))

(* A scan leaves the totals of the days outside its window alone           *)
(* (README.en.md:161, "a recent-window incremental scan; explicit          *)
(* --since/--until flags provide small, targeted backfills").              *)
ScanKeepsOtherDays ==
    [][\A p \in Proc, d \in Day :
        pc[p] = "replace" /\ pc'[p] = "mark" /\ ~inside(d, job[p].window)
            => rollup'[d] >= rollup[d]]_vars

(* Usage an older version had counted is not counted again (docs/          *)
(* ARCHITECTURE.md:163, totals are "replaced by source" and the old detail *)
(* table "is only used for the upgrade migration and then emptied").       *)
CountedOnce ==
    writes = 0 => \A d \in Day : rollup[d] <= MapThenSumSet(LAMBDA f : disk[f].use[d], File)
=============================================================================
