------------------------------ MODULE EditIngest ------------------------------
(***************************************************************************)
(* The Go server's POST /api/v1/ai-track/edits.  Every request runs in its *)
(* own goroutine (a handler) and validates and stores its edits one after  *)
(* the other, each with a SELECT COUNT and an INSERT that commit           *)
(* separately; when something was stored it ends with the two UPDATEs of   *)
(* the retention policy.  Handlers interleave between any two statements.  *)
(***************************************************************************)
EXTENDS RecordTable, Sequences

CONSTANTS
    Handler,           \* goroutines that may serve a request at one time
    Suspicious,        \* events flagged by their own data: diff_inconsistent,
                       \*   path_mismatch, oversized
    Whitelist,         \* RepoWhitelistURLs, {} when there is none
    EnforceWhitelist,  \* EnforceWhitelist of the policy
    RateLimit,         \* RateLimitPerHour (30)
    Hour,              \* length of the rate-limit window in clock units
    RawWindow,         \* RawRetentionWindowDays (30) in clock units
    MaxRawRows,        \* MaxRawRows of the retention policy (10000)
    MaxBatch,          \* edits a request may carry (500)
    Edit,              \* bound: the edits standalone requests are made of
    Fault,             \* faults that may occur: "count", "save", "retain", "abort"
    MaxFaults,         \* bound: faults that occur
    MaxNow             \* bound: clock units that pass

VARIABLES
    store,      \* the edit_records table, in id order
    now,        \* the server's wall clock
    hpc,        \* the statement each handler executes next
    key,        \* TokenKey of the token the request was authenticated with
    edits,      \* req.Edits
    at,         \* the edit in turn
    verdict,    \* outcome of its validation, "" before it
    accepted,   \* resp.Accepted
    rejected,   \* indexes in resp.Rejected
    flagged,    \* indexes in resp.Flagged
    saved,      \* savedAny
    faults      \* faults that occurred

ingest_vars == <<store, now, hpc, key, edits, at, verdict, accepted, rejected,
                 flagged, saved, faults>>
response_vars == <<accepted, rejected, flagged>>
request_vars == <<key, edits>>

\* An edit on the wire: its fields and the record_sig the client computed.
WireEdit == [event : [tool : Tool, path : Path, diff : Diff, meta : Meta],
             repo : Repo, ts : Nat, sig : Signature \cup {None}]

StoredRow == [key : Key, sig : Signature,
              event : [tool : Tool, path : Path, diff : Diff \cup {Marker},
                       meta : Meta \cup {Marker}],
              repo : Repo, ts : Nat, status : {"ACCEPTED", "FLAGGED"},
              received : Nat]

ASSUME IngestAssumption ==
    /\ {RateLimit, MaxRawRows, MaxBatch} \subseteq Nat \ {0}
    /\ {Hour, RawWindow, MaxFaults, MaxNow} \subseteq Nat
    /\ Suspicious \subseteq Event
    /\ Edit \subseteq WireEdit
    /\ EnforceWhitelist \in BOOLEAN
    /\ IsFiniteSet(Handler)

\* The index the response uses for an error of the retention step.
RetentionIndex == -1

Batches(n) == UNION {[1 .. m -> Edit] : m \in 1 .. n}

IngestInit ==
    /\ store = <<>>
    /\ now = 0
    /\ hpc = [h \in Handler |-> "idle"]
    /\ key = [h \in Handler |-> None]
    /\ edits = [h \in Handler |-> <<>>]
    /\ at = [h \in Handler |-> 1]
    /\ verdict = [h \in Handler |-> ""]
    /\ accepted = [h \in Handler |-> 0]
    /\ rejected = [h \in Handler |-> {}]
    /\ flagged = [h \in Handler |-> {}]
    /\ saved = [h \in Handler |-> FALSE]
    /\ faults = 0

-----------------------------------------------------------------------------
(***************************************************************************)
(* EditValidator.Validate and ValidationService.Validate.                  *)
(***************************************************************************)
malformed(e) == \/ e.event.tool = None
                \/ e.event.path = None
                \/ None \in {e.repo.url, e.repo.branch, e.repo.sha}
                \/ e.sig = None

\* Mutated form: any signature will do.
sig_present(k, e) == e.sig # None

sig_matches(k, e) == e.sig = compute_record_sig(k, e.ts, e.event, e.repo)

refused_by_whitelist(e) ==
    Whitelist # {} /\ e.repo.url \notin Whitelist /\ EnforceWhitelist

flags(e) == e.event \in Suspicious \/ (Whitelist # {} /\ e.repo.url \notin Whitelist)

\* CountByTokenKeyAndFilePathSince(token_key, file_path, now - 1h)
recent(k, path) ==
    {i \in DOMAIN store : /\ store[i].key = k
                          /\ store[i].event.path = path
                          /\ store[i].received >= now - Hour}

\* Mutated form: `>` for `>=` in the rate limit.
Validate_over(k, e, n) ==
    IF malformed(e) THEN "malformed"
    ELSE IF ~sig_matches(k, e) THEN "sig_mismatch"
    ELSE IF refused_by_whitelist(e) THEN "repo_not_whitelisted"
    ELSE IF n > RateLimit THEN "rate_limited"
    ELSE IF flags(e) THEN "FLAGGED" ELSE "ACCEPTED"

Validate(k, e, n) ==
    IF malformed(e) THEN "malformed"
    ELSE IF ~sig_matches(k, e) THEN "sig_mismatch"
    ELSE IF refused_by_whitelist(e) THEN "repo_not_whitelisted"
    ELSE IF n >= RateLimit THEN "rate_limited"
    ELSE IF flags(e) THEN "FLAGGED" ELSE "ACCEPTED"

Stored == {"ACCEPTED", "FLAGGED"}

-----------------------------------------------------------------------------
(***************************************************************************)
(* Steps of a handler.                                                     *)
(***************************************************************************)
\* A fault of this kind occurs, or none does.
fault(kind, occurs) ==
    IF occurs THEN /\ kind \in Fault
                   /\ faults < MaxFaults
                   /\ faults' = faults + 1
              ELSE faults' = faults

\* Mutated form: the loop runs once too often.
next_edit_past_end(h) ==
    /\ at' = [at EXCEPT ![h] = @ + 1]
    /\ verdict' = [verdict EXCEPT ![h] = ""]
    /\ hpc' = [hpc EXCEPT ![h] = IF at[h] <= Len(edits[h]) THEN "validate"
                                 ELSE IF saved'[h] THEN "strip_old" ELSE "reply"]

\* The loop goes on with the next edit; after the last one retention runs when
\* something was saved.
next_edit(h) ==
    /\ at' = [at EXCEPT ![h] = @ + 1]
    /\ verdict' = [verdict EXCEPT ![h] = ""]
    /\ hpc' = [hpc EXCEPT ![h] = IF at[h] < Len(edits[h]) THEN "validate"
                                 ELSE IF saved'[h] THEN "strip_old" ELSE "reply"]

\* SubmitEdits up to Ingest: the body was read, the token resolved, the request
\* signature checked and the batch is neither empty nor too long.
Receive(h, k, es) ==
    /\ hpc[h] = "idle"
    /\ Len(es) \in 1 .. MaxBatch
    /\ hpc' = [hpc EXCEPT ![h] = "validate"]
    /\ key' = [key EXCEPT ![h] = k]
    /\ edits' = [edits EXCEPT ![h] = es]
    /\ at' = [at EXCEPT ![h] = 1]
    /\ UNCHANGED <<store, now, verdict, response_vars, saved, faults>>

count(h) == Cardinality(recent(key[h], edits[h][at[h]].event.path))

\* Validation rejects the edit in turn.
RejectEdit(h) ==
    /\ hpc[h] = "validate"
    /\ Validate(key[h], edits[h][at[h]], count(h)) \notin Stored
    /\ rejected' = [rejected EXCEPT ![h] = @ \cup {at[h]}]
    /\ saved' = saved
    /\ next_edit(h)
    /\ UNCHANGED <<store, now, request_vars, accepted, flagged, faults>>

\* Validation accepts or flags it.  The error of a count that fails is ignored,
\* and the count is then 0.
AdmitEdit(h, count_fails) ==
    LET n == IF count_fails THEN 0 ELSE count(h)
        v == Validate(key[h], edits[h][at[h]], n)
    IN  /\ hpc[h] = "validate"
        /\ fault("count", count_fails)
        /\ v \in Stored
        /\ verdict' = [verdict EXCEPT ![h] = v]
        /\ hpc' = [hpc EXCEPT ![h] = "save"]
        /\ UNCHANGED <<store, now, request_vars, at, response_vars, saved>>

new_stored(h) ==
    LET e == edits[h][at[h]]
    IN  [key |-> key[h], sig |-> e.sig, event |-> e.event, repo |-> e.repo,
         ts |-> e.ts, status |-> verdict[h], received |-> now]

\* Mutated form: ON CONFLICT (record_sig) DO UPDATE.
Save_upsert(s, r) ==
    IF \E i \in DOMAIN s : s[i].sig = r.sig
    THEN [i \in DOMAIN s |-> IF s[i].sig = r.sig THEN r ELSE s[i]]
    ELSE Append(s, r)

\* Mutated form: no ON CONFLICT clause and no unique index.
Save_append(s, r) == Append(s, r)

\* INSERT ... ON CONFLICT (record_sig) DO NOTHING
Save(s, r) ==
    IF \E i \in DOMAIN s : s[i].sig = r.sig THEN s ELSE Append(s, r)

SaveEdit(h) ==
    /\ hpc[h] = "save"
    /\ store' = Save(store, new_stored(h))
    /\ saved' = [saved EXCEPT ![h] = TRUE]
    /\ \/ /\ verdict[h] = "ACCEPTED"
          /\ accepted' = [accepted EXCEPT ![h] = @ + 1]
          /\ flagged' = flagged
       \/ /\ verdict[h] = "FLAGGED"
          /\ flagged' = [flagged EXCEPT ![h] = @ \cup {at[h]}]
          /\ accepted' = accepted
    /\ next_edit(h)
    /\ UNCHANGED <<now, request_vars, rejected, faults>>

\* Mutated form: the error is reported but the verdict is recorded as well.
SaveFails_no_continue(h) ==
    /\ hpc[h] = "save"
    /\ fault("save", TRUE)
    /\ rejected' = [rejected EXCEPT ![h] = @ \cup {at[h]}]
    /\ accepted' = [accepted EXCEPT ![h] = @ + 1]
    /\ saved' = saved
    /\ next_edit(h)
    /\ UNCHANGED <<store, now, request_vars, flagged>>

\* Mutated form: the error of Save is dropped.
SaveFails_dropped(h) ==
    /\ hpc[h] = "save"
    /\ fault("save", TRUE)
    /\ accepted' = [accepted EXCEPT ![h] = @ + 1]
    /\ saved' = saved
    /\ next_edit(h)
    /\ UNCHANGED <<store, now, request_vars, rejected, flagged>>

\* The INSERT fails: the edit is rejected with save_error.
SaveFails(h) ==
    /\ hpc[h] = "save"
    /\ fault("save", TRUE)
    /\ rejected' = [rejected EXCEPT ![h] = @ \cup {at[h]}]
    /\ saved' = saved
    /\ next_edit(h)
    /\ UNCHANGED <<store, now, request_vars, accepted, flagged>>

-----------------------------------------------------------------------------
(***************************************************************************)
(* ApplyRawRetention: two UPDATEs that replace text with a marker.         *)
(***************************************************************************)
strip_where(s, ids) ==
    [i \in DOMAIN s |-> IF i \in ids THEN strip(s[i]) ELSE s[i]]

old_ids == {i \in DOMAIN store : store[i].received < now - RawWindow}

\* ORDER BY received_at DESC, id DESC LIMIT MaxRawRows
newer(s, j, i) == \/ s[j].received > s[i].received
                  \/ s[j].received = s[i].received /\ j > i

\* Mutated form: LIMIT is one row too many.
overflow_ids_late(s) ==
    {i \in DOMAIN s : Cardinality({j \in DOMAIN s : newer(s, j, i)}) > MaxRawRows}

overflow_ids(s) ==
    {i \in DOMAIN s : Cardinality({j \in DOMAIN s : newer(s, j, i)}) >= MaxRawRows}

StripOld(h) ==
    /\ hpc[h] = "strip_old"
    /\ store' = strip_where(store, old_ids)
    /\ hpc' = [hpc EXCEPT ![h] = "strip_overflow"]
    /\ UNCHANGED <<now, request_vars, at, verdict, response_vars, saved, faults>>

StripOverflow(h) ==
    /\ hpc[h] = "strip_overflow"
    /\ store' = strip_where(store, overflow_ids(store))
    /\ hpc' = [hpc EXCEPT ![h] = "reply"]
    /\ UNCHANGED <<now, request_vars, at, verdict, response_vars, saved, faults>>

\* Either UPDATE fails: the error joins resp.Rejected under index -1.
RetentionFails(h) ==
    /\ hpc[h] \in {"strip_old", "strip_overflow"}
    /\ fault("retain", TRUE)
    /\ rejected' = [rejected EXCEPT ![h] = @ \cup {RetentionIndex}]
    /\ hpc' = [hpc EXCEPT ![h] = "reply"]
    /\ UNCHANGED <<store, now, request_vars, at, verdict, accepted, flagged, saved>>

end_request(h) ==
    /\ hpc' = [hpc EXCEPT ![h] = "idle"]
    /\ key' = [key EXCEPT ![h] = None]
    /\ edits' = [edits EXCEPT ![h] = <<>>]
    /\ at' = [at EXCEPT ![h] = 1]
    /\ verdict' = [verdict EXCEPT ![h] = ""]
    /\ accepted' = [accepted EXCEPT ![h] = 0]
    /\ rejected' = [rejected EXCEPT ![h] = {}]
    /\ flagged' = [flagged EXCEPT ![h] = {}]
    /\ saved' = [saved EXCEPT ![h] = FALSE]

Reply(h) ==
    /\ hpc[h] = "reply"
    /\ end_request(h)
    /\ UNCHANGED <<store, now, faults>>

\* The server stops, or the handler panics, between two statements.
Abort(h) ==
    /\ hpc[h] # "idle"
    /\ fault("abort", TRUE)
    /\ end_request(h)
    /\ UNCHANGED <<store, now>>

TickNow ==
    /\ now < MaxNow
    /\ now' = now + 1
    /\ UNCHANGED <<store, hpc, request_vars, at, verdict, response_vars, saved,
                   faults>>

\* A handler's own steps while it works on a request.
Work(h) ==
    \/ RejectEdit(h) \/ AdmitEdit(h, FALSE) \/ AdmitEdit(h, TRUE)
    \/ SaveEdit(h) \/ SaveFails(h)
    \/ StripOld(h) \/ StripOverflow(h) \/ RetentionFails(h)

IngestNext ==
    \/ \E h \in Handler :
         \/ \E k \in Key, es \in Batches(MaxBatch) : Receive(h, k, es)
         \/ Work(h) \/ Reply(h) \/ Abort(h)
    \/ TickNow

IngestSpec == IngestInit /\ [][IngestNext]_ingest_vars

-----------------------------------------------------------------------------
HPC == {"idle", "validate", "save", "strip_old", "strip_overflow", "reply"}

IngestTypeOK ==
    /\ store \in Seq(StoredRow)
    /\ now \in Nat
    /\ hpc \in [Handler -> HPC]
    /\ key \in [Handler -> Key \cup {None}]
    /\ edits \in [Handler -> Seq(WireEdit)]
    /\ at \in [Handler -> Nat \ {0}]
    /\ verdict \in [Handler -> Stored \cup {""}]
    /\ accepted \in [Handler -> Nat]
    /\ rejected \in [Handler -> SUBSET (Nat \cup {RetentionIndex})]
    /\ flagged \in [Handler -> SUBSET Nat]
    /\ saved \in [Handler -> BOOLEAN]
    /\ faults \in Nat
    /\ \A h \in Handler :
         /\ hpc[h] \in {"validate", "save"} => at[h] \in DOMAIN edits[h]
         /\ hpc[h] # "idle" => key[h] \in Key
         /\ hpc[h] = "save" <=> verdict[h] \in Stored

\* One stored row per record_sig, whatever is uploaded twice, in one batch or
\* by concurrent requests: uploads are idempotent.
StoredOnce ==
    \A i, j \in DOMAIN store : store[i].sig = store[j].sig => i = j

\* What is stored under a signature is what was signed with the key of the
\* token it is stored under; retention may only have stripped the text.
StoredIsSigned ==
    \A i \in DOMAIN store :
        LET r == store[i]
            s == compute_record_sig(r.key, r.ts, r.event, r.repo)
        IN  s = [r.sig EXCEPT !.diff = r.event.diff]
            /\ r.event.diff \in {r.sig.diff, prune_text(r.sig.diff)}

\* An edit the response does not reject is in the table under its signature: the
\* client that marks it synced, and deletes its text, loses nothing.
AcknowledgedIsStored ==
    \A h \in Handler : \A i \in 1 .. at[h] - 1 :
        i \notin rejected[h] =>
            \E j \in DOMAIN store : store[j].sig = edits[h][i].sig

\* The response gives every edit processed exactly one verdict.
OneVerdictEach ==
    \A h \in Handler :
        /\ rejected[h] \cap flagged[h] = {}
        /\ accepted[h] + Cardinality(flagged[h])
             + Cardinality(rejected[h] \ {RetentionIndex}) = at[h] - 1

\* Stored rows are append-only: no row disappears, is re-attributed, changes its
\* verdict or gets stripped text back, whatever is uploaded again.
StoredIsFinal ==
    [][\A i \in DOMAIN store :
          i \in DOMAIN store' /\ store'[i] \in {store[i], strip(store[i])}
      ]_ingest_vars

\* The rate limit is enforced up to the handlers between their COUNT and their
\* INSERT, and the counts that failed.
RateBound ==
    \A k \in Key, f \in Path :
        Cardinality(recent(k, f)) <= RateLimit - 1 + Cardinality(Handler) + faults

\* README.md: at most RateLimit records per token and file in an hour.
RateLimitHolds ==
    \A k \in Key, f \in Path : Cardinality(recent(k, f)) <= RateLimit

has_text(r) == r.event.diff \notin {None, Marker} \/ r.event.meta \notin {None, Marker}

\* When every request that stored something has finished its retention, at
\* most MaxRawRows rows keep their text: concurrent requests cover each other.
RawTextIsBounded ==
    faults = 0 /\ (\A h \in Handler : saved[h] => hpc[h] = "reply") =>
        Cardinality({i \in DOMAIN store : has_text(store[i])}) <= MaxRawRows
=============================================================================
