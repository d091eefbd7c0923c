------------------------------- MODULE JavaIngest -------------------------------
(***************************************************************************)
(* POST /edits of the Java server (IngestService.ingest).  It promises     *)
(* what the Go server promises, but saves a batch in ONE transaction, read *)
(* committed: what other handlers insert is invisible until they commit,   *)
(* the unique key on record_sig makes an INSERT wait for them, and any     *)
(* exception undoes the whole batch.  A handler serves one client, which   *)
(* sends its batch again after a 500 while its rows have retries left.  An *)
(* edit is the id of its row at the client: equal edits are one row, sent  *)
(* by two processes.  Of the retention only its failing is looked at.      *)
(***************************************************************************)
EXTENDS Integers, Sequences, FiniteSets, SequencesExt

CONSTANTS
    Handler,
    Batch,           \* [Handler -> sequences of edits, in ORDER BY id]
    Refused,         \* edits that are malformed, wrongly signed or not whitelisted
    TooLong,         \* edits with a field longer than its column
    RateLimit,       \* edits stored for one file in an hour (all have one file)
    MaxRetry,        \* the client's retry_count cut (5)
    MaxFaults        \* bound of the model

\* fetch_unsynced: ORDER BY id ASC.
ASSUME BatchAssumption ==
    \A h \in Handler :
        /\ Batch[h] \in Seq(Nat) /\ Batch[h] # <<>>
        /\ \A j, k \in 1 .. Len(Batch[h]) : j < k => Batch[h][j] < Batch[h][k]

ASSUME LimitAssumption ==
    {MaxRetry, RateLimit, MaxFaults} \subseteq Nat /\ IsFiniteSet(Handler)

VARIABLES
    stored,          \* edit_records: the committed rows
    pc,              \* "idle", "edit", "exists", "insert", "retention", "commit"
    i,               \* each handler: the index of the edit it is at
    own,             \* its uncommitted rows
    acked,           \* the indices it will not report as rejected
    tries,           \* each client: its rows' retry_count, or MaxRetry after a 200
    faults

vars == <<stored, pc, i, own, acked, tries, faults>>

Init ==
    /\ stored = {} /\ faults = 0
    /\ pc = [h \in Handler |-> "idle"]
    /\ i = [h \in Handler |-> 1]
    /\ own = [h \in Handler |-> {}]
    /\ acked = [h \in Handler |-> {}]
    /\ tries = [h \in Handler |-> 0]

\* Mutated form: every other attempt starts from the newest edit.
edit_from_end(h) ==
    Batch[h][IF tries[h] % 2 = 1 THEN Len(Batch[h]) + 1 - i[h] ELSE i[h]]

edit(h) == Batch[h][i[h]]
goto(h, place) == pc' = [pc EXCEPT ![h] = place]

visible(h) == stored \cup own[h]

Receive(h) ==
    /\ pc[h] = "idle" /\ tries[h] < MaxRetry
    /\ goto(h, "edit")
    /\ i' = [i EXCEPT ![h] = 1]
    /\ acked' = [acked EXCEPT ![h] = {}]
    /\ UNCHANGED <<stored, own, tries, faults>>

\* Mutated form: the loop is left one turn late.
next_edit_late(h, rows) ==
    IF i[h] <= Len(Batch[h]) THEN i' = [i EXCEPT ![h] = @ + 1] /\ goto(h, "edit")
    ELSE UNCHANGED i /\ goto(h, IF rows # {} THEN "retention" ELSE "commit")

\* The end of one turn of the loop; `if (savedAny)` retention runs at its end.
next_edit(h, rows) ==
    IF i[h] < Len(Batch[h]) THEN i' = [i EXCEPT ![h] = @ + 1] /\ goto(h, "edit")
    ELSE UNCHANGED i /\ goto(h, IF rows # {} THEN "retention" ELSE "commit")

\* Mutated form: the COUNT runs outside the transaction.
limited_by_others(h) == Cardinality(stored) >= RateLimit

limited(h) == Cardinality(visible(h)) >= RateLimit

Reject(h) ==
    /\ pc[h] = "edit" /\ (edit(h) \in Refused \/ limited(h))
    /\ next_edit(h, own[h])
    /\ UNCHANGED <<stored, own, acked, tries, faults>>

Admit(h) ==
    /\ pc[h] = "edit" /\ edit(h) \notin Refused /\ ~limited(h)
    /\ acked' = [acked EXCEPT ![h] = @ \cup {i[h]}]
    /\ goto(h, "exists")
    /\ UNCHANGED <<stored, i, own, tries, faults>>

\* Mutated form: the check reads what others have not committed.
exists_dirty(h, e) == e \in stored \cup UNION {own[o] : o \in Handler}

\* Mutated form: a repeated edit is not looked up.
exists_never(h, e) == FALSE

existsByRecordSig(h, e) == e \in visible(h)

Exists(h) ==
    /\ pc[h] = "exists"
    /\ IF existsByRecordSig(h, edit(h)) THEN next_edit(h, own[h])
       ELSE goto(h, "insert") /\ UNCHANGED i
    /\ UNCHANGED <<stored, own, acked, tries, faults>>

\* The INSERT waits for a transaction that has inserted the same record_sig.
blocked(h) == \E o \in Handler \ {h} : edit(h) \in own[o]

Save(h) ==
    /\ pc[h] = "insert" /\ ~blocked(h)
    /\ edit(h) \notin stored \cup TooLong
    /\ own' = [own EXCEPT ![h] = @ \cup {edit(h)}]
    /\ next_edit(h, own'[h])
    /\ UNCHANGED <<stored, acked, tries, faults>>

\* The answer is a 500: the client counts a failure on every row of the batch.
Fail(h) ==
    /\ own' = [own EXCEPT ![h] = {}]
    /\ tries' = [tries EXCEPT ![h] = @ + 1]
    /\ goto(h, "idle")
    /\ UNCHANGED <<stored, i, acked>>

\* The unique key, or a column that is too short.
SaveFails(h) ==
    /\ pc[h] = "insert" /\ ~blocked(h)
    /\ edit(h) \in stored \cup TooLong
    /\ Fail(h) /\ UNCHANGED faults

Retention(h) ==
    /\ pc[h] = "retention"
    /\ goto(h, "commit")
    /\ UNCHANGED <<stored, i, own, acked, tries, faults>>

\* A statement fails, or the server stops.
Breaks(h) ==
    /\ pc[h] # "idle" /\ faults < MaxFaults
    /\ faults' = faults + 1
    /\ Fail(h)

Commit(h) ==
    /\ pc[h] = "commit"
    /\ stored' = stored \cup own[h]
    /\ own' = [own EXCEPT ![h] = {}]
    /\ tries' = [tries EXCEPT ![h] = MaxRetry]
    /\ goto(h, "idle")
    /\ UNCHANGED <<i, acked, faults>>

Step(h) == Receive(h) \/ Reject(h) \/ Admit(h) \/ Exists(h) \/ Save(h)
             \/ SaveFails(h) \/ Retention(h) \/ Commit(h)

Next == \E h \in Handler : Step(h) \/ Breaks(h)

Spec == Init /\ [][Next]_vars

\* Requests are worked on, and a client with rows left syncs again.
FairSpec == Spec /\ \A h \in Handler : WF_vars(Step(h))

-----------------------------------------------------------------------------
TypeOK ==
    /\ stored \subseteq UNION {Range(Batch[h]) : h \in Handler}
    /\ pc \in [Handler -> {"idle", "edit", "exists", "insert", "retention", "commit"}]
    /\ \A h \in Handler : /\ i[h] \in 1 .. Len(Batch[h])
                          /\ own[h] \subseteq Range(Batch[h])
                          /\ acked[h] \subseteq 1 .. Len(Batch[h])
    /\ tries \in [Handler -> 0 .. MaxRetry]
    /\ faults \in 0 .. MaxFaults

(* What a 200 does not report as rejected is in the table, though an edit  *)
(* found to exist was not saved by this request: an edit another request   *)
(* has saved and may still roll back does not count as existing.           *)
AcknowledgedIsStored == [][\A h \in Handler :
    Commit(h) => \A k \in acked[h] : Batch[h][k] \in stored']_vars

(* Handlers that wait for each other's rows never wait in a circle: the    *)
(* clients send their rows in the order of their ids, so a handler waits   *)
(* for one that is further along.                                          *)
waits_for(h, o) == pc[h] = "insert" /\ o # h /\ edit(h) \in own[o]

WaitsGoUp == \A h, o \in Handler :
    waits_for(h, o) /\ pc[o] = "insert" => edit(h) < edit(o)

(* By how much the hourly limit of a file can be exceeded: a handler does  *)
(* not see the rows the others have not committed, but it sees its own, so *)
(* each request stays below the limit for itself.                          *)
RateBound == Cardinality(stored) <= RateLimit * Cardinality(Handler)

(* Every edit that passes the checks is stored, however requests with the  *)
(* same edits clash, wait for each other and are undone: a request loses   *)
(* its retries only to others that commit (README.md:130, step 10).        *)
delivered(h) == Range(Batch[h]) \ (Refused \cup TooLong) \subseteq stored

ValidIsStored == \A h \in Handler : <>delivered(h)
=============================================================================
