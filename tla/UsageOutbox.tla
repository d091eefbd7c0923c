----------------------------- MODULE UsageOutbox -----------------------------
(***************************************************************************)
(* The upload of usage data (client/src/usage/mod.rs, sync_now): processes *)
(* that scan the local tools, put the dirty daily rollups and subscription *)
(* snapshots of usage.sqlite into the table usage_outbox and drain it to   *)
(* the server, which keeps the last value it is sent.  Every action is one *)
(* statement (or cleanup_usage_outbox, a run of deletions); processes run  *)
(* side by side without a lock, and may be killed anywhere (an SQLite      *)
(* error ends them the same way).                                          *)
(***************************************************************************)
EXTENDS Integers, FiniteSets, FiniteSetsExt

CONSTANTS
    Proc,            \* processes
    Rollup,          \* daily rollups, numbers in upload order (ORDER BY day ...)
    Sub,             \* subscription snapshots (agent, account)
    Value, None,     \* totals of a rollup
    MaxItems,        \* MAX_UPLOAD_ITEMS
    MaxRetry,        \* MAX_OUTBOX_RETRY_COUNT
    Ttl,             \* USAGE_OUTBOX_PENDING_TTL_DAYS
    MaxRows,         \* MAX_USAGE_OUTBOX_ROWS
    MaxWeight,       \* MAX_USAGE_OUTBOX_PAYLOAD_BYTES, in items
    MaxTime, MaxChanges, MaxFails, MaxCrashes   \* bounds of the model

(* The processes and the rows are finitely many, a rollup is no snapshot,  *)
(* None is no total, and the limits are numbers.                           *)
ASSUME OutboxAssumption ==
    /\ IsFiniteSet(Proc) /\ IsFiniteSet(Rollup) /\ IsFiniteSet(Sub)
    /\ Rollup \subseteq Nat /\ Rollup \cap Sub = {}
    /\ None \notin Value \cup 1..MaxChanges
    /\ {MaxItems, MaxRetry, Ttl, MaxRows, MaxWeight} \subseteq Nat
    /\ {MaxTime, MaxChanges, MaxFails, MaxCrashes} \subseteq Nat

VARIABLES
    row,             \* usage_daily_model_rollups and usage_subscription_snapshots;
                     \* at is updated_at (of a snapshot: snapshotted_at)
    outbox,          \* the rows of usage_outbox
    now,             \* datetime('now')
    pc, todo, queue, \* each process: its place, payloads to put, rows to send (the
                     \* first without the items it has marked)
    server,          \* the server's tables
    orphans,         \* requests whose sender was killed, still on their way
    changes, fails, crashes,   \* what the bounds count
    high,            \* history: the newest stamp of a row the server got
    known,           \* history: totals of a rollup the server accepted
    overtaken        \* history: rows whose last delivery was an older value

local_vars == <<row, now, changes>>
proc_vars  == <<pc, todo, queue>>
server_vars == <<server, known, high, overtaken>>
bound_vars == <<fails, crashes>>
vars == <<local_vars, proc_vars, server_vars, bound_vars, outbox, orphans>>

Row == Rollup \cup Sub

\* Mutated form: the row of a rollup without a source stays, marked dirty.
kept_dirty == [val |-> None, at |-> 0, dirty |-> TRUE]

absent == [val |-> None, at |-> 0, dirty |-> FALSE]

Init ==
    /\ row = [r \in Row |-> absent]
    /\ outbox = {}
    /\ now = 0
    /\ pc = [p \in Proc |-> "idle"]
    /\ todo = [p \in Proc |-> {}]
    /\ queue = [p \in Proc |-> {}]
    /\ server = [r \in Row |-> None]
    /\ orphans = {}
    /\ changes = 0 /\ fails = 0 /\ crashes = 0
    /\ high = [r \in Row |-> 0]
    /\ known = [r \in Rollup |-> {}]
    /\ overtaken = {}

goto(p, place) == pc' = [pc EXCEPT ![p] = place]
change == changes < MaxChanges /\ changes' = changes + 1

-----------------------------------------------------------------------------
(* The table usage_outbox.                                                 *)

newest(q, n) == {e \in q : Cardinality({x \in q : x.id > e.id}) < n}
weight(q) == Cardinality(UNION {{<<e.id, i>> : i \in e.items} : e \in q})

\* The rows whose payloads together with all newer ones stay within the cap.
within_weight(q) == {e \in q : weight({x \in q : x.id >= e.id}) <= MaxWeight}

\* Mutated form: the failed rows stay.
cleanup_keeping_failed(q) ==
    within_weight(newest({e \in q : e.created >= now - Ttl}, MaxRows))

cleanup_usage_outbox(q) ==
    within_weight(newest({e \in q : e.retry < MaxRetry /\ e.created >= now - Ttl}, MaxRows))

\* An id greater than every id still in use.
used_ids == {e.id : e \in outbox \cup UNION {queue[p] : p \in Proc}}
fresh_id == 1 + Max({0} \cup used_ids)

\* Mutated form: UNIQUE(payload_type, natural_key).
same_key(x, y) == {i.row : i \in x} = {i.row : i \in y}

\* UNIQUE(payload_type, natural_key, payload_sha256).
same_payload(x, y) == x = y

\* INSERT OR IGNORE.
insert_or_ignore(items) ==
    LET e == [id |-> fresh_id, items |-> items, retry |-> 0, created |-> now]
    IN  outbox' = IF \E x \in outbox : same_payload(x.items, items) THEN outbox
                  ELSE outbox \cup {e}

delete_row(id) == outbox' = {e \in outbox : e.id # id}

-----------------------------------------------------------------------------
(* The scan: see UsageRollups for how the totals come about.               *)

Start(p) ==
    /\ pc[p] = "idle"
    /\ goto(p, "scan")
    /\ UNCHANGED <<local_vars, todo, queue, server_vars, bound_vars, outbox, orphans>>

\* A source file has changed: the rollup gets another total, stamped to the
\* nanosecond, or goes (its last source went), and nothing tells the server.
ScanRollup(p, r, v) ==
    /\ pc[p] = "scan"
    /\ v # row[r].val
    /\ change
    /\ row' = [row EXCEPT ![r] = IF v = None THEN absent
                                 ELSE [val |-> v, at |-> changes', dirty |-> TRUE]]
    /\ UNCHANGED <<now, proc_vars, server_vars, bound_vars, outbox, orphans>>

\* upsert_local_subscription_snapshots: the snapshots the readers find, stamped
\* with the time (snapshotted_at), so that every one is new, and dirty.
\* `aitrack usage scan` ends here, `aitrack usage sync` goes on.
UpsertSubscriptions(p, found, place) ==
    /\ pc[p] = "scan"
    /\ IF found = {} THEN UNCHANGED changes ELSE change
    /\ row' = [r \in Row |-> IF r \in found
                             THEN [val |-> changes', at |-> changes', dirty |-> TRUE]
                             ELSE row[r]]
    /\ goto(p, place)
    /\ UNCHANGED <<now, todo, queue, server_vars, bound_vars, outbox, orphans>>

-----------------------------------------------------------------------------
(* enqueue_dirty_rollups, enqueue_dirty_subscriptions.                     *)

dirty_rows(rs) == {r \in rs : row[r].dirty}
item(r) == [row |-> r, val |-> row[r].val, at |-> row[r].at]

\* ORDER BY day LIMIT MAX_UPLOAD_ITEMS: all in one payload.
first_dirty == {r \in dirty_rows(Rollup) : Cardinality({x \in dirty_rows(Rollup) : x < r}) < MaxItems}

SelectDirtyRollups(p) ==
    /\ pc[p] = "rollups"
    /\ todo' = [todo EXCEPT ![p] = IF first_dirty = {} THEN {}
                                   ELSE {{item(r) : r \in first_dirty}}]
    /\ goto(p, "put_rollups")
    /\ UNCHANGED <<local_vars, queue, server_vars, bound_vars, outbox, orphans>>

\* enqueue_payload, for each payload in some order: a cleanup, the insertion
\* and a cleanup.
enqueuing == [put_rollups |-> "insert_rollups", put_subscriptions |-> "insert_subscriptions"]
inserting == [insert_rollups |-> "trim_rollups", insert_subscriptions |-> "trim_subscriptions"]
trimming  == [trim_rollups |-> "put_rollups", trim_subscriptions |-> "put_subscriptions"]

Enqueue(p) ==
    /\ pc[p] \in DOMAIN enqueuing
    /\ todo[p] # {}
    /\ outbox' = cleanup_usage_outbox(outbox)
    /\ goto(p, enqueuing[pc[p]])
    /\ UNCHANGED <<local_vars, todo, queue, server_vars, bound_vars, orphans>>

Insert(p) ==
    /\ pc[p] \in DOMAIN inserting
    /\ \E items \in todo[p] :
        /\ insert_or_ignore(items)
        /\ todo' = [todo EXCEPT ![p] = @ \ {items}]
    /\ goto(p, inserting[pc[p]])
    /\ UNCHANGED <<local_vars, queue, server_vars, bound_vars, orphans>>

Trim(p) ==
    /\ pc[p] \in DOMAIN trimming
    /\ outbox' = cleanup_usage_outbox(outbox)
    /\ goto(p, trimming[pc[p]])
    /\ UNCHANGED <<local_vars, todo, queue, server_vars, bound_vars, orphans>>

SelectDirtySubscriptions(p) ==
    /\ pc[p] = "put_rollups"
    /\ todo[p] = {}
    /\ \E subs \in SUBSET dirty_rows(Sub) :
        /\ Cardinality(subs) <= MaxItems
        /\ subs = dirty_rows(Sub) \/ Cardinality(subs) = MaxItems
        /\ todo' = [todo EXCEPT ![p] = {{item(s)} : s \in subs}]
    /\ goto(p, "put_subscriptions")
    /\ UNCHANGED <<local_vars, queue, server_vars, bound_vars, outbox, orphans>>

\* Without an API or a credential sync_now stops here.
Offline(p) ==
    /\ pc[p] = "put_subscriptions"
    /\ todo[p] = {}
    /\ outbox' = cleanup_usage_outbox(outbox)
    /\ goto(p, "idle")
    /\ UNCHANGED <<local_vars, todo, queue, server_vars, bound_vars, orphans>>

-----------------------------------------------------------------------------
(* drain_outbox.                                                           *)

fetch_pending_outbox(q) ==
    LET due == {e \in q : e.retry < MaxRetry}
    IN  {e \in due : Cardinality({x \in due : x.id < e.id}) < MaxItems}

\* ORDER BY id.
head(p) == CHOOSE e \in queue[p] : \A x \in queue[p] : e.id <= x.id

StartDrain(p) ==
    /\ pc[p] = "put_subscriptions"
    /\ todo[p] = {}
    /\ outbox' = cleanup_usage_outbox(outbox)
    /\ goto(p, "fetch")
    /\ UNCHANGED <<local_vars, todo, queue, server_vars, bound_vars, orphans>>

FetchPending(p) ==
    /\ pc[p] = "fetch"
    /\ queue' = [queue EXCEPT ![p] = fetch_pending_outbox(outbox)]
    /\ goto(p, "drain")
    /\ UNCHANGED <<local_vars, todo, server_vars, bound_vars, outbox, orphans>>

\* UpsertRollups, UpsertSubscription: the last request wins, whatever it says.
upsert(items) ==
    LET of(r) == CHOOSE i \in items : i.row = r
        sent == {i.row : i \in items}
        older == {i.row : i \in {x \in items : x.at < high[x.row]}}
    IN  /\ server' = [r \in Row |-> IF r \in sent THEN of(r).val ELSE server[r]]
        /\ known' = [r \in Rollup |-> IF r \in sent THEN known[r] \cup {of(r).val} ELSE known[r]]
        /\ high' = [r \in Row |-> IF r \in sent THEN Max({high[r], of(r).at}) ELSE high[r]]
        /\ overtaken' = (overtaken \ sent) \cup older

sends(p) == pc[p] = "drain" /\ queue[p] # {}

Upload(p) ==
    /\ sends(p)
    /\ upsert(head(p).items)
    /\ goto(p, "mark")
    /\ UNCHANGED <<local_vars, todo, queue, bound_vars, outbox, orphans>>

\* The request fails, or only its answer does.
UploadFails(p) ==
    /\ sends(p)
    /\ fails < MaxFails
    /\ fails' = fails + 1
    /\ UNCHANGED server_vars \/ upsert(head(p).items)
    /\ goto(p, "retry")
    /\ UNCHANGED <<local_vars, todo, queue, crashes, outbox, orphans>>

\* Mutated form: updated_at is not compared.
acked_by_total(i) == i.row \in Rollup => row[i.row].val = i.val

\* Mutated form: rollups are not compared either.
acked_always(i) == row[i.row].val # None

acked(i) ==
    i.row \in Rollup => row[i.row].val = i.val /\ row[i.row].at = i.at

\* mark_payload_uploaded, item by item in some order: it compares a rollup with
\* the payload, a snapshot not; updated_at becomes a time in another format,
\* which equals no stamp.
MarkPayloadUploaded(p) ==
    /\ pc[p] = "mark"
    /\ \E i \in head(p).items :
        /\ row' = [r \in Row |-> IF r = i.row /\ acked(i)
                                 THEN [row[r] EXCEPT !.dirty = FALSE, !.at = 0]
                                 ELSE row[r]]
        /\ queue' = [queue EXCEPT ![p] = (@ \ {head(p)})
                                         \cup {[head(p) EXCEPT !.items = @ \ {i}]}]
    /\ UNCHANGED <<now, changes, pc, todo, server_vars, bound_vars, outbox, orphans>>

next_item(p) == queue' = [queue EXCEPT ![p] = @ \ {head(p)}] /\ goto(p, "drain")

\* A row with synced = 1 only waits for its deletion.
MarkOutboxSynced(p) ==
    /\ pc[p] = "mark"
    /\ head(p).items = {}
    /\ delete_row(head(p).id)
    /\ next_item(p)
    /\ UNCHANGED <<local_vars, todo, server_vars, bound_vars, orphans>>

IncrementOutboxRetry(p) ==
    /\ pc[p] = "retry"
    /\ outbox' = {IF e.id = head(p).id THEN [e EXCEPT !.retry = @ + 1] ELSE e : e \in outbox}
    /\ next_item(p)
    /\ UNCHANGED <<local_vars, todo, server_vars, bound_vars, orphans>>

EndDrain(p) ==
    /\ pc[p] = "drain"
    /\ queue[p] = {}
    /\ outbox' = cleanup_usage_outbox(outbox)
    /\ goto(p, "idle")
    /\ UNCHANGED <<local_vars, todo, queue, server_vars, bound_vars, orphans>>

-----------------------------------------------------------------------------
Crash(p) ==
    /\ pc[p] # "idle"
    /\ crashes < MaxCrashes
    /\ crashes' = crashes + 1
    /\ goto(p, "idle")
    /\ todo' = [todo EXCEPT ![p] = {}]
    /\ queue' = [queue EXCEPT ![p] = {}]
    /\ \/ UNCHANGED orphans
       \/ sends(p) /\ orphans' = orphans \cup {head(p).items}
    /\ UNCHANGED <<local_vars, server_vars, fails, outbox>>

OrphanArrives ==
    /\ \E items \in orphans : upsert(items) /\ orphans' = orphans \ {items}
    /\ UNCHANGED <<local_vars, proc_vars, bound_vars, outbox>>

Tick ==
    /\ now < MaxTime
    /\ now' = now + 1
    /\ UNCHANGED <<row, changes, proc_vars, server_vars, bound_vars, outbox,
                   orphans>>

Sync(p) ==
    \/ Start(p)
    \/ \E found \in SUBSET Sub : UpsertSubscriptions(p, found, "rollups")
    \/ SelectDirtyRollups(p) \/ SelectDirtySubscriptions(p)
    \/ Enqueue(p) \/ Insert(p) \/ Trim(p)
    \/ StartDrain(p) \/ FetchPending(p)
    \/ Upload(p) \/ MarkPayloadUploaded(p) \/ MarkOutboxSynced(p)
    \/ UploadFails(p) \/ IncrementOutboxRetry(p)
    \/ EndDrain(p)

Next ==
    \/ \E p \in Proc :
        \/ Sync(p)
        \/ \E r \in Rollup, v \in Value \cup {None} : ScanRollup(p, r, v)
        \/ \E found \in SUBSET Sub : UpsertSubscriptions(p, found, "idle")
        \/ Offline(p)
        \/ Crash(p)
    \/ OrphanArrives
    \/ Tick

Spec == Init /\ [][Next]_vars

(* Fairness: a running process goes on, `aitrack usage sync` is run again  *)
(* and again, with an API configured, and a request on its way arrives.    *)
Fairness ==
    /\ WF_vars(OrphanArrives)
    /\ \A p \in Proc :
        /\ WF_vars(Sync(p))
        /\ SF_vars(\E found \in SUBSET Sub : UpsertSubscriptions(p, found, "rollups"))
        /\ SF_vars(StartDrain(p))

FairSpec == Spec /\ Fairness

-----------------------------------------------------------------------------
(* Type correctness: the tables and the processes' memory hold what the    *)
(* schema and the structs of usage/mod.rs say.                             *)
Version == Value \cup 1..MaxChanges
Item == [row : Row, val : Version, at : 1..MaxChanges]
Payload == [id : Nat, items : SUBSET Item, retry : 0..(MaxRetry + Cardinality(Proc) - 1),
            created : 0..MaxTime]
Place == {"idle", "scan", "rollups", "put_rollups", "insert_rollups", "trim_rollups",
          "put_subscriptions", "insert_subscriptions", "trim_subscriptions",
          "fetch", "drain", "mark", "retry"}

TypeOK ==
    /\ row \in [Row -> [val : Version \cup {None}, at : 0..MaxChanges, dirty : BOOLEAN]]
    /\ now \in 0..MaxTime
    /\ outbox \subseteq Payload
    /\ pc \in [Proc -> Place]
    /\ todo \in [Proc -> SUBSET SUBSET Item]
    /\ queue \in [Proc -> SUBSET Payload]
    /\ server \in [Row -> Version \cup {None}]
    /\ orphans \subseteq SUBSET Item
    /\ changes \in 0..MaxChanges /\ fails \in 0..MaxFails /\ crashes \in 0..MaxCrashes
    /\ high \in [Row -> 0..MaxChanges]
    /\ known \in [Rollup -> SUBSET Value]
    /\ overtaken \subseteq Row

present_clean == {r \in Rollup : row[r].val # None /\ ~row[r].dirty}

(* A rollup that is not dirty is what the server has, unless the server    *)
(* got an older total after a newer one (a payload that failed first and   *)
(* was retried, a request of another process).  Nothing repairs such a     *)
(* rollup until its total changes again.                                   *)
CleanIsCurrent == \A r \in present_clean \ overtaken : server[r] = row[r].val

(* A snapshot that is not dirty is what the server has, or its payload is  *)
(* still in the outbox, or an older one overtook it: for one process, and  *)
(* until a payload has failed MAX_OUTBOX_RETRY_COUNT times or fell to a    *)
(* cap.  mark_payload_uploaded clears the flag whichever snapshot was      *)
(* uploaded, so that only the outbox remembers a newer one.                *)
pending_vals(s) == UNION {{i.val : i \in {x \in e.items : x.row = s}} : e \in outbox}

SubscriptionIsPending ==
    \A s \in Sub \ overtaken :
        ~row[s].dirty /\ fails < MaxRetry => row[s].val \in pending_vals(s) \cup {server[s]}

(* The caps of the outbox hold whatever the processes do (CHANGELOG.md:24, *)
(* "the local usage outbox limits rows, total payload bytes ..."), but for *)
(* one payload of every process between its insertion and its cleanup, and *)
(* of every one killed there.                                              *)
untrimmed == Cardinality({p \in Proc : pc[p] \in DOMAIN trimming}) + crashes

OutboxIsBounded ==
    /\ Cardinality(outbox) <= MaxRows + untrimmed
    /\ weight(outbox) <= MaxWeight + MaxItems * untrimmed

(* A total that no longer changes is delivered, whatever payloads failed,  *)
(* expired, were cut by the caps or were lost with their process: rollups  *)
(* stay dirty until their own payload is acknowledged and are put into the *)
(* outbox again by every sync.                                             *)
RollupsSettle == <>[](\A r \in Rollup : ~row[r].dirty)

(* The outbox implements the upload's promise.                             *)
Delivery == INSTANCE UsageDelivery WITH
    local <- [r \in Rollup |-> row[r].val],
    clean <- present_clean,
    server <- [r \in Rollup |-> server[r]]

ImplementsUsageDelivery == Delivery!Spec
=============================================================================
