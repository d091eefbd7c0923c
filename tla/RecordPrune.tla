------------------------------ MODULE RecordPrune ------------------------------
(***************************************************************************)
(* prune_local_record_storage of several client processes, statement by    *)
(* statement (RecordTable has it as one step).  Each cap is a COUNT, and   *)
(* then a DELETE whose LIMIT is the overage that was counted: what other   *)
(* processes insert, settle and delete in between is not looked at again.  *)
(* A row is its kind: "synced"; "spent", pending with all retries used;    *)
(* "dead", pending and never uploadable; "live", still to be uploaded.     *)
(***************************************************************************)
EXTENDS Integers, Sequences, FiniteSets

CONSTANTS
    Proc,
    MaxSynced, MaxSpent, MaxDead, MaxPending,   \* the caps of queries.rs
    MaxBatch,        \* the rows one transaction of a scan inserts at most
    MaxId, MaxCrashes                           \* bounds of the model

VARIABLES
    rows,            \* [ids -> kinds]
    last_id,         \* the AUTOINCREMENT sequence
    pc,              \* "idle", "flush", "prune"
    at,              \* each process: the number of the cap it is at
    over,            \* each process: 0, or the overage of its cap
    crashes

vars == <<rows, last_id, pc, at, over, crashes>>

Kinds == {"synced", "spent", "dead", "live"}
of_kind(kinds) == {i \in DOMAIN rows : rows[i] \in kinds}
pending == of_kind(Kinds \ {"synced"})

PruneInit ==
    /\ rows = [i \in {} |-> "live"]
    /\ last_id = 0
    /\ pc = [p \in Proc |-> "idle"]
    /\ at = [p \in Proc |-> 1]
    /\ over = [p \in Proc |-> 0]
    /\ crashes = 0

goto(p, place) == pc' = [pc EXCEPT ![p] = place]

insert_rows(p, batch) ==
    /\ pc[p] = "idle" /\ last_id + Len(batch) <= MaxId
    /\ last_id' = last_id + Len(batch)
    /\ rows' = [i \in DOMAIN rows \cup (last_id + 1) .. last_id' |->
                  IF i > last_id THEN batch[i - last_id] ELSE rows[i]]
    /\ UNCHANGED <<at, over, crashes>>

\* A hook inserts one row, uploads and prunes.
InsertRecord(p, kind) == insert_rows(p, <<kind>>) /\ goto(p, "flush")

\* insert_monitoring_events_into: a scan inserts the events of a file that are new in
\* one transaction, and prunes.
InsertEvents(p, batch) == insert_rows(p, batch) /\ goto(p, "prune")

\* Rows that can still be uploaded, and rows that never can.
Batch == UNION {[1 .. n -> {"live", "dead"}] : n \in 0 .. MaxBatch}

\* The upload settles live rows: marked synced, or failed for the last time.
Flush(p, done, failed) ==
    /\ pc[p] = "flush"
    /\ rows' = [i \in DOMAIN rows |->
                  IF i \in done THEN "synced" ELSE IF i \in failed THEN "spent" ELSE rows[i]]
    /\ goto(p, "prune")
    /\ UNCHANGED <<last_id, at, over, crashes>>

\* The caps in the order of the function; the last one is on all rows.
caps == << [kinds |-> {"synced"}, keep |-> MaxSynced],
           [kinds |-> {"spent"},  keep |-> MaxSpent],
           [kinds |-> {"dead"},   keep |-> MaxDead],
           [kinds |-> Kinds \ {"synced"}, keep |-> MaxPending],
           [kinds |-> Kinds, keep |-> MaxSynced + MaxPending] >>

\* Mutated form: the COUNT forgets the WHERE clause of its DELETE.
overage_of_all(cap) == Cardinality(DOMAIN rows) - cap.keep

\* Mutated form: LIMIT gets the count instead of the overage.
overage_whole(cap) ==
    LET current == Cardinality(of_kind(cap.kinds))
    IN  IF current > cap.keep THEN current ELSE 0

\* Mutated form: one row over the cap is let pass.
overage_late(cap) == Cardinality(of_kind(cap.kinds)) - cap.keep - 1

overage(cap) == Cardinality(of_kind(cap.kinds)) - cap.keep

next_cap(p) ==
    /\ at' = [at EXCEPT ![p] = (@ % Len(caps)) + 1]
    /\ goto(p, IF at[p] = Len(caps) THEN "idle" ELSE "prune")

Count(p) ==
    /\ pc[p] = "prune" /\ over[p] = 0
    /\ IF overage(caps[at[p]]) > 0
       THEN over' = [over EXCEPT ![p] = overage(caps[at[p]])] /\ UNCHANGED <<pc, at>>
       ELSE next_cap(p) /\ UNCHANGED over
    /\ UNCHANGED <<rows, last_id, crashes>>

\* ORDER BY id; for the total, ORDER BY synced DESC, retry_count DESC, id: rows
\* with retries left count as having used none.
rank(i) == CASE rows[i] = "synced" -> 0 [] rows[i] = "spent" -> 1 [] OTHER -> 2
goes_before(p, j, i) ==
    IF at[p] = Len(caps) /\ rank(j) # rank(i) THEN rank(j) < rank(i) ELSE j < i

first_rows(p, ids) == {i \in ids : Cardinality({j \in ids : goes_before(p, j, i)}) < over[p]}

Delete(p) ==
    /\ over[p] > 0
    /\ LET gone == first_rows(p, of_kind(caps[at[p]].kinds))
       IN  rows' = [i \in DOMAIN rows \ gone |-> rows[i]]
    /\ over' = [over EXCEPT ![p] = 0]
    /\ next_cap(p)
    /\ UNCHANGED <<last_id, crashes>>

\* The hook is killed at its timeout.
Crash(p) ==
    /\ pc[p] # "idle" /\ crashes < MaxCrashes
    /\ crashes' = crashes + 1
    /\ over' = [over EXCEPT ![p] = 0]
    /\ at' = [at EXCEPT ![p] = 1]
    /\ goto(p, "idle")
    /\ UNCHANGED <<rows, last_id>>

PruneNext == \E p \in Proc :
    \/ \E kind \in {"live", "dead"} : InsertRecord(p, kind)
    \/ \E batch \in Batch : InsertEvents(p, batch)
    \/ \E done, failed \in SUBSET of_kind({"live"}) :
          done \cap failed = {} /\ Flush(p, done, failed)
    \/ Count(p) \/ Delete(p) \/ Crash(p)

PruneSpec == PruneInit /\ [][PruneNext]_vars

-----------------------------------------------------------------------------
resting == \A p \in Proc : pc[p] = "idle"

(* With every process through, each cap holds, however their statements    *)
(* were mixed: a row over a cap was inserted or settled by a process that  *)
(* counts after it, unless that process was killed before it pruned.       *)
CapsHold == resting /\ crashes = 0 =>
    \A k \in DOMAIN caps : Cardinality(of_kind(caps[k].kinds)) <= caps[k].keep

(* How much a stale overage may take: the DELETEs that reach live rows are *)
(* limited to a transaction's rows for each process at work and each one   *)
(* killed before it pruned, whatever was inserted, settled or deleted      *)
(* since the COUNT.  (Which a scan of a large file may make hundreds.)     *)
StaleDeleteIsSmall == \A p \in Proc :
    at[p] >= 4 => over[p] <= MaxBatch * (Cardinality(Proc) + crashes)

gone(kind) == \E i \in of_kind({kind}) : i \notin DOMAIN rows'

(* A prune keeps the latest rows of its cap (mod.rs:449, prune_old_synced_ *)
(* records_keeps_latest_synced_rows_by_id): a row goes only when as many   *)
(* newer ones as the cap stay.  Two processes that both counted one        *)
(* overage delete it twice.                                                *)
KeepsLatest ==
    /\ gone("synced") => Cardinality(of_kind({"synced"})') >= MaxSynced
    /\ gone("live") => Cardinality(pending') >= MaxPending

LatestStay == [][KeepsLatest]_vars
=============================================================================
