----------------------------- MODULE RecordTable -----------------------------
(***************************************************************************)
(* The client's local `records` table (~/.aitrack/records.db) and the      *)
(* statements the client runs on it.  A table is a function from row ids   *)
(* to rows; every operator below is one SQL statement, or one function of  *)
(* adapter/sqlite/queries.rs, as a function from tables to tables.         *)
(*                                                                         *)
(* A row keeps the fields the statements and the server tell apart:        *)
(*   event   tool, file_path, diff_hunk and metadata                       *)
(*   repo    repo_url, branch and current_sha                              *)
(*   ts      the second the event was parsed in (timestamp)                *)
(*   key     token_key, None when no credential was configured             *)
(*   sig     record_sig, None when there was no token                      *)
(*   synced, retry                                                         *)
(***************************************************************************)
EXTENDS Integers, FiniteSets

CONSTANTS
    Event,            \* edits a hook reports: [tool, path, diff, meta]
    Repo,             \* git contexts a hook sees: [url, branch, sha]
    Key,              \* token keys of the credentials the user may configure
    None,             \* the empty string, or SQL NULL for diff and metadata
    Marker,           \* the text that replaces a pruned diff or metadata
    MaxRetry,         \* retry_count from which a row is not fetched again (5)
    FetchLimit,       \* BATCH_LIMIT of one flush (200)
    MaxSynced,        \* MAX_SYNCED_RECORD_ROWS (10000)
    MaxPending,       \* MAX_PENDING_RECORD_ROWS (1000)
    MaxUnuploadable,  \* MAX_UNUPLOADABLE_PENDING_RECORD_ROWS (250)
    MaxExhausted      \* MAX_RETRY_EXHAUSTED_PENDING_RECORD_ROWS (100)

\* An event's own text is never the marker, and a credential has a token.
ASSUME EventAssumption ==
    /\ \A e \in Event : /\ e = [tool |-> e.tool, path |-> e.path,
                               diff |-> e.diff, meta |-> e.meta]
                        /\ e.diff # Marker /\ e.meta # Marker
    /\ None # Marker
    /\ None \notin Key

ASSUME LimitAssumption ==
    /\ MaxRetry \in Nat \ {0}
    /\ {FetchLimit, MaxSynced, MaxPending} \subseteq Nat \ {0}
    /\ {MaxUnuploadable, MaxExhausted} \subseteq Nat

DedupWindow == 2

Tool == {e.tool : e \in Event}
Path == {e.path : e \in Event}
Diff == {e.diff : e \in Event}
Meta == {e.meta : e \in Event}
Url  == {c.url : c \in Repo}
Sha  == {c.sha : c \in Repo}

Signature == [key : Key, ts : Nat, tool : Tool, path : Path, diff : Diff,
              url : Url, sha : Sha]

Row == [event  : [tool : Tool, path : Path, diff : Diff \cup {Marker},
                  meta : Meta \cup {Marker}],
        repo   : Repo,
        ts     : Nat,
        key    : Key \cup {None},
        sig    : Signature \cup {None},
        synced : BOOLEAN,
        retry  : Nat]

(***************************************************************************)
(* compute_record_sig: the HMAC over the listed fields, as the fields      *)
(* themselves (two records have one signature iff they agree on them; the  *)
(* device and host are the same for every row of one machine).  metadata   *)
(* and branch are not signed.                                              *)
(***************************************************************************)
compute_record_sig(key, ts, e, c) ==
    [key |-> key, ts |-> ts, tool |-> e.tool, path |-> e.path, diff |-> e.diff,
     url |-> c.url, sha |-> c.sha]

new_record(e, c, key, ts) ==
    [event |-> e, repo |-> c, ts |-> ts, key |-> key,
     sig |-> IF key = None THEN None ELSE compute_record_sig(key, ts, e, c),
     synced |-> FALSE, retry |-> 0]

-----------------------------------------------------------------------------
(***************************************************************************)
(* insert_record: the SELECT that looks for a duplicate and the INSERT,    *)
(* two statements with no transaction around them.                         *)
(***************************************************************************)
is_dup(tbl, r, now) ==
    \E i \in DOMAIN tbl : /\ tbl[i].event = r.event
                          /\ tbl[i].repo.url = r.repo.url
                          /\ tbl[i].ts > now - DedupWindow

\* Mutated form: the index is not UNIQUE.
sig_taken_never(tbl, r) == FALSE

\* The partial UNIQUE index on record_sig refuses a second non-empty value.
sig_taken(tbl, r) == r.sig # None /\ \E i \in DOMAIN tbl : tbl[i].sig = r.sig

insert_row(tbl, id, r) ==
    [i \in DOMAIN tbl \cup {id} |-> IF i = id THEN r ELSE tbl[i]]

delete(tbl, ids) == [i \in DOMAIN tbl \ ids |-> tbl[i]]

\* ORDER BY id ASC LIMIT n
oldest(ids, n) == {i \in ids : Cardinality({j \in ids : j < i}) < n}

\* Mutated form: the query forgets retry_count < 5.
fetchable_forever(r, key) == ~r.synced /\ r.repo.url # None /\ r.key = key

\* Mutated form: the query gives up one failure too early.
fetchable_early(r, key) ==
    ~r.synced /\ r.repo.url # None /\ r.key = key /\ r.retry < MaxRetry - 1

fetchable(r, key) ==
    /\ ~r.synced
    /\ r.repo.url # None
    /\ r.key = key
    /\ r.retry < MaxRetry

fetch_unsynced(tbl, key) ==
    [i \in oldest({j \in DOMAIN tbl : fetchable(tbl[j], key)}, FetchLimit)
        |-> tbl[i]]

prune_text(v) == IF v = None THEN None ELSE Marker

strip(r) == [r EXCEPT !.event.diff = prune_text(@), !.event.meta = prune_text(@)]

marked(r) == [strip(r) EXCEPT !.synced = TRUE]

counted(r) == [r EXCEPT !.retry = @ + 1]

filled(r, c) == [r EXCEPT !.repo = c]

mark_synced(tbl, ids) ==
    [i \in DOMAIN tbl |-> IF i \in ids THEN marked(tbl[i]) ELSE tbl[i]]

increment_retry(tbl, ids) ==
    [i \in DOMAIN tbl |-> IF i \in ids THEN counted(tbl[i]) ELSE tbl[i]]

\* Mutated form: the WHERE clause forgets repo_url = ''.
backfill_every_pending(tbl, c, key) ==
    [i \in DOMAIN tbl |-> IF ~tbl[i].synced /\ tbl[i].key = key
                          THEN filled(tbl[i], c) ELSE tbl[i]]

\* Only the three repository columns change: record_sig keeps its old value.
backfill_repo_info(tbl, c, key) ==
    [i \in DOMAIN tbl |->
        IF ~tbl[i].synced /\ tbl[i].repo.url = None /\ tbl[i].key = key
        THEN filled(tbl[i], c) ELSE tbl[i]]

clean_synced(tbl) == delete(tbl, {i \in DOMAIN tbl : tbl[i].synced})

-----------------------------------------------------------------------------
(***************************************************************************)
(* prune_local_record_storage: caps on four kinds of rows, a strip of the  *)
(* exhausted rows' text, and a cap on all rows, in this order.  Each       *)
(* DELETE takes the oldest rows over its cap among those the DELETEs       *)
(* before it left; the strip changes no column a DELETE looks at.          *)
(***************************************************************************)
\* Mutated form: ORDER BY id ASC, but the cap itself as LIMIT.
excess_limit_cap(ids, cap) == IF Cardinality(ids) > cap THEN oldest(ids, cap) ELSE {}

excess(ids, cap) == oldest(ids, Cardinality(ids) - cap)

synced_ids(tbl)  == {i \in DOMAIN tbl : tbl[i].synced}
pending_ids(tbl) == {i \in DOMAIN tbl : ~tbl[i].synced}

\* Mutated form: off by one against fetch_unsynced.
exhausted_ids_early(tbl) == {i \in pending_ids(tbl) : tbl[i].retry >= MaxRetry - 1}

exhausted_ids(tbl) == {i \in pending_ids(tbl) : tbl[i].retry >= MaxRetry}

\* The query also names 'legacy', the key of a token of at most five characters:
\* no server issues one that short, and Key has none.
unuploadable_ids(tbl) ==
    {i \in pending_ids(tbl) : tbl[i].key = None \/ tbl[i].sig = None}

strip_retry_exhausted_pending_original_text(tbl) ==
    [i \in DOMAIN tbl |->
        IF i \in exhausted_ids(tbl) THEN strip(tbl[i]) ELSE tbl[i]]

\* ORDER BY synced DESC, retry_count DESC, id ASC
drops_before(tbl, j, i) ==
    \/ tbl[j].synced /\ ~tbl[i].synced
    \/ tbl[j].synced = tbl[i].synced /\ tbl[j].retry > tbl[i].retry
    \/ tbl[j].synced = tbl[i].synced /\ tbl[j].retry = tbl[i].retry /\ j < i

\* prune_records_to_total_limit
over_total(tbl, ids) ==
    {i \in ids : Cardinality({j \in ids : drops_before(tbl, j, i)})
                   < Cardinality(ids) - (MaxSynced + MaxPending)}

kept_ids(tbl) ==
    LET spent == excess(exhausted_ids(tbl), MaxExhausted)
        dead  == excess(unuploadable_ids(tbl) \ spent, MaxUnuploadable)
        late  == excess(pending_ids(tbl) \ (spent \cup dead), MaxPending)
        left  == DOMAIN tbl \ (excess(synced_ids(tbl), MaxSynced)
                                 \cup spent \cup dead \cup late)
    IN  left \ over_total(tbl, left)

prune_local_record_storage(tbl) ==
    delete(strip_retry_exhausted_pending_original_text(tbl),
           DOMAIN tbl \ kept_ids(tbl))
=============================================================================
