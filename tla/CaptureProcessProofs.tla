------------------------- MODULE CaptureProcessProofs -------------------------
(***************************************************************************)
(* Proofs about CaptureProcess, for any number of processes, rows, events, *)
(* repositories, credentials and limits.                                   *)
(*                                                                         *)
(* The argument: apart from INSERT, every statement replaces the table by  *)
(* one that descends from it (Descends): rows may be deleted, a row keeps  *)
(* its identity, and one that can still be uploaded kept its text.  This   *)
(* is proved statement by statement, and the invariants follow from it     *)
(* whichever process executes the statement and whatever the others hold.  *)
(* Two properties need more: the bound of the retry counter counts who may *)
(* still increment it, and what a prune keeps is about how many rows are   *)
(* older than another.                                                     *)
(***************************************************************************)
EXTENDS CaptureProcess, FiniteSetTheorems, TLAPS

Uploadable(r) == ~r.synced /\ r.retry < MaxRetry

Intact(r) == r.event.diff # Marker /\ r.event.meta # Marker

SameRecord(r, s) == s.sig = r.sig /\ s.ts = r.ts /\ s.key = r.key

\* The row s is what a statement other than INSERT may make of the row r.
Succeeds(r, s) ==
    /\ s \in Row
    /\ SameRecord(r, s)
    /\ r.repo.url # None => s.repo = r.repo
    /\ Uploadable(s) => Uploadable(r) /\ s.event = r.event

Typed(t) == \A i \in DOMAIN t : t[i] \in Row

Descends(t, u) ==
    /\ DOMAIN u \subseteq DOMAIN t
    /\ \A i \in DOMAIN u : Succeeds(t[i], u[i])

-----------------------------------------------------------------------------
(***************************************************************************)
(* Rows.                                                                   *)
(***************************************************************************)
\* A row may stay as it is.
LEMMA KeptSucceeds == ASSUME NEW r \in Row PROVE Succeeds(r, r)
BY DEF Succeeds, SameRecord

\* Stripping keeps the columns, except the text.
LEMMA StripKeeps ==
    ASSUME NEW r \in Row
    PROVE  /\ strip(r) \in Row
           /\ SameRecord(r, strip(r))
           /\ strip(r).repo = r.repo
           /\ strip(r).synced = r.synced
           /\ strip(r).retry = r.retry
<1>1. strip(r) \in Row
  BY DEF strip, prune_text, Row
<1>2. QED
  BY <1>1 DEF strip, Row, SameRecord

\* A row that mark_synced marks cannot be uploaded any more.
LEMMA MarkedSucceeds == ASSUME NEW r \in Row PROVE Succeeds(r, marked(r))
<1>1. marked(r) = [strip(r) EXCEPT !.synced = TRUE]
  BY DEF marked
<1>2. marked(r) \in Row /\ marked(r).synced
  BY <1>1, StripKeeps DEF Row
<1>3. SameRecord(r, marked(r)) /\ marked(r).repo = r.repo
  BY <1>1, StripKeeps DEF Row, SameRecord
<1>4. QED
  BY <1>2, <1>3 DEF Succeeds, Uploadable

\* A counted row keeps its text, and is uploadable only if it was.
LEMMA CountedSucceeds == ASSUME NEW r \in Row PROVE Succeeds(r, counted(r))
<1>1. counted(r) \in Row /\ counted(r).retry = r.retry + 1 /\ r.retry \in Nat
  BY DEF counted, Row
<1>2. /\ SameRecord(r, counted(r))
      /\ counted(r).repo = r.repo
      /\ counted(r).event = r.event
      /\ counted(r).synced = r.synced
  BY DEF counted, Row, SameRecord
<1>3. QED
  BY <1>1, <1>2, LimitAssumption DEF Succeeds, Uploadable

\* A row without a repository may be filled.
LEMMA FilledSucceeds ==
    ASSUME NEW r \in Row, NEW c \in Repo, r.repo.url = None
    PROVE  Succeeds(r, filled(r, c))
<1>1. filled(r, c) \in Row
  BY DEF filled, Row
<1>2. /\ SameRecord(r, filled(r, c))
      /\ filled(r, c).event = r.event
      /\ filled(r, c).synced = r.synced
      /\ filled(r, c).retry = r.retry
  BY DEF filled, Row, SameRecord
<1>3. QED
  BY <1>1, <1>2 DEF Succeeds, Uploadable

\* An exhausted row may be stripped.
LEMMA StrippedSucceeds ==
    ASSUME NEW r \in Row, ~Uploadable(r)
    PROVE  Succeeds(r, strip(r))
BY StripKeeps DEF Succeeds, Uploadable

\* What a capture builds is a row with its original text.
LEMMA NewRecord ==
    ASSUME NEW e \in Event, NEW c \in Repo, NEW k \in Key \cup {None}, NEW ts \in Nat
    PROVE  new_record(e, c, k, ts) \in Row /\ Intact(new_record(e, c, k, ts))
<1>1. /\ e = [tool |-> e.tool, path |-> e.path, diff |-> e.diff, meta |-> e.meta]
      /\ e.diff # Marker /\ e.meta # Marker
  BY EventAssumption
<1>2. /\ e.tool \in Tool /\ e.path \in Path /\ e.diff \in Diff /\ e.meta \in Meta
      /\ c.url \in Url /\ c.sha \in Sha
  BY DEF Tool, Path, Diff, Meta, Url, Sha
<1>3. k # None => compute_record_sig(k, ts, e, c) \in Signature
  BY <1>2 DEF compute_record_sig, Signature
<1>4. e \in [tool : Tool, path : Path, diff : Diff \cup {Marker},
             meta : Meta \cup {Marker}]
  BY <1>1, <1>2
<1>5. new_record(e, c, k, ts) \in Row
  BY <1>3, <1>4 DEF new_record, Row
<1>6. QED
  BY <1>1, <1>5 DEF new_record, Intact

-----------------------------------------------------------------------------
(***************************************************************************)
(* Statements.                                                             *)
(***************************************************************************)
LEMMA DeleteDescends ==
    ASSUME NEW t, Typed(t), NEW ids PROVE Descends(t, delete(t, ids))
BY KeptSucceeds DEF Descends, delete, Typed

LEMMA MarkDescends ==
    ASSUME NEW t, Typed(t), NEW ids PROVE Descends(t, mark_synced(t, ids))
BY KeptSucceeds, MarkedSucceeds DEF Descends, mark_synced, Typed

LEMMA IncrementDescends ==
    ASSUME NEW t, Typed(t), NEW ids PROVE Descends(t, increment_retry(t, ids))
BY KeptSucceeds, CountedSucceeds DEF Descends, increment_retry, Typed

LEMMA BackfillDescends ==
    ASSUME NEW t, Typed(t), NEW c \in Repo, NEW key
    PROVE  Descends(t, backfill_repo_info(t, c, key))
BY KeptSucceeds, FilledSucceeds DEF Descends, backfill_repo_info, Typed

LEMMA CleanDescends == ASSUME NEW t, Typed(t) PROVE Descends(t, clean_synced(t))
BY DeleteDescends DEF clean_synced

LEMMA NoRowsDescends == ASSUME NEW t PROVE Descends(t, NoRows)
BY DEF Descends, NoRows

\* Retention deletes rows, whichever they are, and strips the exhausted ones.
LEMMA PruneDescends ==
    ASSUME NEW t, Typed(t) PROVE Descends(t, prune_local_record_storage(t))
<1> DEFINE s == strip_retry_exhausted_pending_original_text(t)
           u == prune_local_record_storage(t)
<1>1. DOMAIN s = DOMAIN t
  BY DEF strip_retry_exhausted_pending_original_text
<1>2. ASSUME NEW i \in DOMAIN t PROVE Succeeds(t[i], s[i])
  <2>1. t[i] \in Row
    BY DEF Typed
  <2>2. CASE i \in exhausted_ids(t)
    <3>1. s[i] = strip(t[i])
      BY <2>2 DEF strip_retry_exhausted_pending_original_text
    <3>2. ~Uploadable(t[i])
      BY <2>1, <2>2, LimitAssumption DEF exhausted_ids, pending_ids, Uploadable, Row
    <3>3. QED
      BY <2>1, <3>1, <3>2, StrippedSucceeds
  <2>3. CASE i \notin exhausted_ids(t)
    <3>1. s[i] = t[i]
      BY <2>3 DEF strip_retry_exhausted_pending_original_text
    <3>2. QED
      BY <2>1, <3>1, KeptSucceeds
  <2>4. QED
    BY <2>2, <2>3
<1>3. DOMAIN u \subseteq DOMAIN t /\ \A i \in DOMAIN u : u[i] = s[i]
  BY <1>1 DEF prune_local_record_storage, delete
<1>4. QED
  BY <1>2, <1>3 DEF Descends

-----------------------------------------------------------------------------
(***************************************************************************)
(* The inductive invariant.                                                *)
(***************************************************************************)
\* A process between the start of its capture and its flush holds the record it
\* built, with its original text: the row it is about to insert is intact.
RecordInHand ==
    \A p \in Proc : pc[p] \in {"check", "insert", "fill", "fill_dup"} =>
        rec[p] \in Row /\ Intact(rec[p])

\* A process has a batch only while it waits for the answer and settles it: it
\* never fetches or prunes with a batch open.
BatchSettled ==
    \A p \in Proc : pc[p] \notin {"wait", "count", "mark"} => batch[p] = {}

ClientInv ==
    /\ ClientTypeOK
    /\ UploadableIsIntact
    /\ UploadsOriginalText
    /\ HeldIdIsSameRecord
    /\ SignaturesUnique
    /\ RecordInHand
    /\ BatchSettled

\* The parts of the invariant that speak of the table only.
TableInv ==
    /\ next_id \in Nat \ {0}
    /\ DOMAIN rows \subseteq 1 .. next_id - 1
    /\ \A i \in DOMAIN rows : rows[i] \in Row
    /\ UploadableIsIntact
    /\ SignaturesUnique

\* The parts that speak of the rows the processes hold.
HeldInv ==
    /\ \A p \in Proc : /\ DOMAIN fetched[p] \subseteq 1 .. next_id - 1
                       /\ \A i \in DOMAIN fetched[p] : fetched[p][i] \in Row
    /\ UploadsOriginalText
    /\ HeldIdIsSameRecord

\* No process holds rows it did not hold before.
HeldShrinks ==
    \A p \in Proc : /\ DOMAIN fetched'[p] \subseteq DOMAIN fetched[p]
                    /\ \A i \in DOMAIN fetched'[p] : fetched'[p][i] = fetched[p][i]

LEMMA InvTyped == ClientInv => TableInv /\ HeldInv /\ Typed(rows)
BY DEF ClientInv, ClientTypeOK, TableInv, HeldInv, Typed

LEMMA DescendsReflexive == ASSUME NEW t, Typed(t) PROVE Descends(t, t)
BY KeptSucceeds DEF Descends, Typed

\* A statement other than INSERT keeps what holds of the table.
LEMMA TableStep ==
    ASSUME TableInv, Descends(rows, rows'), next_id' = next_id
    PROVE  TableInv'
<1>1. \A i \in DOMAIN rows' : i \in DOMAIN rows /\ Succeeds(rows[i], rows'[i])
  BY DEF Descends
<1>2. DOMAIN rows' \subseteq 1 .. next_id' - 1 /\ \A i \in DOMAIN rows' : rows'[i] \in Row
  BY <1>1 DEF TableInv, Succeeds
<1>3. UploadableIsIntact'
  BY <1>1 DEF TableInv, UploadableIsIntact, Succeeds, Uploadable
<1>4. SignaturesUnique'
  BY <1>1 DEF TableInv, SignaturesUnique, Succeeds, SameRecord
<1>5. QED
  BY <1>2, <1>3, <1>4 DEF TableInv

\* It also keeps what holds of the rows held, if no process reads new ones.
LEMMA HeldStep ==
    ASSUME HeldInv, Descends(rows, rows'), next_id' = next_id, HeldShrinks
    PROVE  HeldInv'
<1>1. \A i \in DOMAIN rows' : i \in DOMAIN rows /\ SameRecord(rows[i], rows'[i])
  BY DEF Descends, Succeeds
<1>2. HeldIdIsSameRecord'
  BY <1>1 DEF HeldInv, HeldIdIsSameRecord, HeldShrinks, SameRecord
<1>3. UploadsOriginalText'
  BY DEF HeldInv, UploadsOriginalText, HeldShrinks
<1>4. \A p \in Proc : /\ DOMAIN fetched'[p] \subseteq 1 .. next_id' - 1
                      /\ \A i \in DOMAIN fetched'[p] : fetched'[p][i] \in Row
  BY DEF HeldInv, HeldShrinks
<1>5. QED
  BY <1>2, <1>3, <1>4 DEF HeldInv

\* The INSERT adds one row under a fresh id.
LEMMA InsertStep ==
    ASSUME TableInv, HeldInv, NEW r \in Row, Intact(r), ~sig_taken(rows, r),
           rows' = insert_row(rows, next_id, r), next_id' = next_id + 1,
           fetched' = fetched
    PROVE  TableInv' /\ HeldInv'
<1>1. next_id \in Nat \ {0} /\ next_id \notin DOMAIN rows
  BY DEF TableInv
<1>2. /\ DOMAIN rows' = DOMAIN rows \cup {next_id}
      /\ rows'[next_id] = r
      /\ \A i \in DOMAIN rows : rows'[i] = rows[i]
  BY <1>1 DEF insert_row
<1>3. DOMAIN rows' \subseteq 1 .. next_id' - 1 /\ \A i \in DOMAIN rows' : rows'[i] \in Row
  BY <1>1, <1>2 DEF TableInv
<1>4. UploadableIsIntact'
  BY <1>2 DEF TableInv, UploadableIsIntact, Intact
<1>5. SignaturesUnique'
  BY <1>2 DEF TableInv, SignaturesUnique, sig_taken
<1>6. TableInv'
  BY <1>1, <1>3, <1>4, <1>5 DEF TableInv
<1>7. \A p \in Proc : next_id \notin DOMAIN fetched[p]
  BY <1>1 DEF HeldInv
<1>8. HeldIdIsSameRecord'
  BY <1>2, <1>7 DEF HeldInv, HeldIdIsSameRecord
<1>9. UploadsOriginalText'
  BY DEF HeldInv, UploadsOriginalText
<1>10. \A p \in Proc : /\ DOMAIN fetched'[p] \subseteq 1 .. next_id' - 1
                       /\ \A i \in DOMAIN fetched'[p] : fetched'[p][i] \in Row
  BY <1>1 DEF HeldInv
<1>11. QED
  BY <1>6, <1>8, <1>9, <1>10 DEF HeldInv

-----------------------------------------------------------------------------
\* The parts that speak of the processes themselves.
ControlInv ==
    /\ clock \in Nat
    /\ pc \in [Proc -> PC]
    /\ rec \in [Proc -> Row \cup {None}]
    /\ cred \in [Proc -> Key \cup {None}]
    /\ DOMAIN fetched = Proc
    /\ batch \in [Proc -> SUBSET Nat]
    /\ rejected \in [Proc -> SUBSET Nat]
    /\ \A p \in Proc : batch[p] \subseteq DOMAIN fetched[p] /\ rejected[p] \subseteq batch[p]
    /\ RecordInHand
    /\ BatchSettled

LEMMA InvParts == ClientInv <=> TableInv /\ HeldInv /\ ControlInv
BY DEF ClientInv, ClientTypeOK, TableInv, HeldInv, ControlInv

\* The invariant holds initially.
LEMMA InitInv == ClientInit => ClientInv
<1> SUFFICES ASSUME ClientInit PROVE TableInv /\ HeldInv /\ ControlInv
  BY InvParts
<1> USE DEF ClientInit
<1>1. TableInv
  BY DEF TableInv, UploadableIsIntact, SignaturesUnique, NoRows
<1>2. HeldInv
  BY DEF HeldInv, UploadsOriginalText, HeldIdIsSameRecord, NoRows
<1>3. ControlInv
  BY DEF ControlInv, RecordInHand, BatchSettled, NoRows, PC
<1>4. QED
  BY <1>1, <1>2, <1>3

\* A step that leaves the table and the rows held alone.
LEMMA QuietStep ==
    ASSUME ClientInv, UNCHANGED <<rows, next_id, fetched>>
    PROVE  TableInv' /\ HeldInv'
<1>1. Descends(rows, rows') /\ HeldShrinks
  BY InvTyped, DescendsReflexive DEF HeldShrinks
<1>2. QED
  BY <1>1, InvTyped, TableStep, HeldStep

\* A statement on the table by a process that reads no rows.
LEMMA StatementStep ==
    ASSUME ClientInv, Descends(rows, rows'), UNCHANGED <<next_id, fetched>>
    PROVE  TableInv' /\ HeldInv'
<1>1. HeldShrinks
  BY DEF HeldShrinks
<1>2. QED
  BY <1>1, InvTyped, TableStep, HeldStep

\* settle drops the rows of the batch and keeps the control state well-formed.
LEMMA SettleStep ==
    ASSUME ClientInv, NEW p \in Proc, settle(p),
           UNCHANGED <<clock, rec, cred>>
    PROVE  HeldShrinks /\ ControlInv'
<1>1. ControlInv
  BY InvParts
<1>2. /\ fetched' = [fetched EXCEPT ![p] =
                        [i \in DOMAIN fetched[p] \ batch[p] |-> fetched[p][i]]]
      /\ batch' = [batch EXCEPT ![p] = {}]
      /\ rejected' = [rejected EXCEPT ![p] = {}]
      /\ \E l \in {"prune", "post"} : pc' = [pc EXCEPT ![p] = l]
  BY DEF settle, goto
<1>3. HeldShrinks
  BY <1>1, <1>2 DEF HeldShrinks, ControlInv
<1>4. RecordInHand'
  BY <1>1, <1>2 DEF ControlInv, RecordInHand
<1>5. pc' \in [Proc -> PC]
  BY <1>1, <1>2 DEF ControlInv, PC
<1>6. \A q \in Proc : batch'[q] \subseteq DOMAIN fetched'[q] /\ rejected'[q] \subseteq batch'[q]
  BY <1>1, <1>2 DEF ControlInv
<1>7. /\ DOMAIN fetched' = Proc
      /\ batch' \in [Proc -> SUBSET Nat]
      /\ rejected' \in [Proc -> SUBSET Nat]
  BY <1>1, <1>2 DEF ControlInv
<1>8. BatchSettled'
  BY <1>1, <1>2 DEF ControlInv, BatchSettled
<1>9. QED
  BY <1>1, <1>3, <1>4, <1>5, <1>6, <1>7, <1>8 DEF ControlInv

\* The end of a process forgets what it held.
LEMMA EndStep ==
    ASSUME ClientInv, NEW p \in Proc, end_process(p), UNCHANGED clock
    PROVE  HeldShrinks /\ ControlInv'
<1>1. ControlInv
  BY InvParts
<1>2. /\ fetched' = [fetched EXCEPT ![p] = NoRows]
      /\ batch' = [batch EXCEPT ![p] = {}]
      /\ rejected' = [rejected EXCEPT ![p] = {}]
      /\ pc' = [pc EXCEPT ![p] = "idle"]
      /\ rec' = [rec EXCEPT ![p] = None]
      /\ cred' = [cred EXCEPT ![p] = None]
  BY DEF end_process, goto
<1>3. DOMAIN NoRows = {}
  BY DEF NoRows
<1>4. HeldShrinks
  BY <1>1, <1>2, <1>3 DEF HeldShrinks, ControlInv
<1>5. RecordInHand'
  BY <1>1, <1>2 DEF ControlInv, RecordInHand
<1>6. \A q \in Proc : batch'[q] \subseteq DOMAIN fetched'[q] /\ rejected'[q] \subseteq batch'[q]
  BY <1>1, <1>2, <1>3 DEF ControlInv
<1>7. /\ pc' \in [Proc -> PC]
      /\ rec' \in [Proc -> Row \cup {None}]
      /\ cred' \in [Proc -> Key \cup {None}]
      /\ DOMAIN fetched' = Proc
      /\ batch' \in [Proc -> SUBSET Nat]
      /\ rejected' \in [Proc -> SUBSET Nat]
  BY <1>1, <1>2 DEF ControlInv, PC
<1>8. BatchSettled'
  BY <1>1, <1>2 DEF ControlInv, BatchSettled
<1>9. QED
  BY <1>1, <1>4, <1>5, <1>6, <1>7, <1>8 DEF ControlInv

-----------------------------------------------------------------------------
(***************************************************************************)
(* One lemma per group of actions: each keeps the whole invariant.         *)
(***************************************************************************)
LEMMA AfterInsert ==
    ASSUME NEW r, NEW fresh \in BOOLEAN
    PROVE  /\ after_insert(r, fresh) \in PC
           /\ after_insert(r, fresh) \notin {"wait", "count", "mark"}
BY DEF after_insert, PC

\* A step in which only the control state of one process changes, and which
\* opens no batch.
LEMMA MoveStep ==
    ASSUME ClientInv, NEW p \in Proc, NEW l \in PC, goto(p, l),
           l \notin {"wait", "count", "mark"}, batch[p] = {},
           l \in {"check", "insert", "fill", "fill_dup"} =>
               rec'[p] \in Row /\ Intact(rec'[p]),
           \A q \in Proc \ {p} : rec'[q] = rec[q],
           rec' \in [Proc -> Row \cup {None}], cred' \in [Proc -> Key \cup {None}],
           clock' = clock, UNCHANGED <<fetched, batch, rejected>>
    PROVE  ControlInv'
<1>1. ControlInv /\ pc' = [pc EXCEPT ![p] = l]
  BY InvParts DEF goto
<1>2. RecordInHand'
  BY <1>1 DEF ControlInv, RecordInHand
<1>3. BatchSettled'
  BY <1>1 DEF ControlInv, BatchSettled
<1>4. pc' \in [Proc -> PC]
  BY <1>1 DEF ControlInv
<1>5. QED
  BY <1>1, <1>2, <1>3, <1>4 DEF ControlInv

LEMMA CaptureKeeps ==
    ASSUME ClientInv, NEW p \in Proc, NEW e \in Event, NEW c \in Repo,
           NEW k \in Key \cup {None}, Capture(p, e, c, k)
    PROVE  ClientInv'
<1>1. ControlInv
  BY InvParts
<1>2. new_record(e, c, k, clock) \in Row /\ Intact(new_record(e, c, k, clock))
  BY <1>1, NewRecord DEF ControlInv
<1>3. /\ rec' = [rec EXCEPT ![p] = new_record(e, c, k, clock)]
      /\ cred' = [cred EXCEPT ![p] = k]
      /\ goto(p, "check")
      /\ pc[p] = "idle"
      /\ UNCHANGED <<rows, next_id, clock, fetched, batch, rejected>>
  BY DEF Capture
<1>4. batch[p] = {}
  BY <1>1, <1>3 DEF ControlInv, BatchSettled
<1>5. /\ rec'[p] = new_record(e, c, k, clock)
      /\ \A q \in Proc \ {p} : rec'[q] = rec[q]
      /\ rec' \in [Proc -> Row \cup {None}]
      /\ cred' \in [Proc -> Key \cup {None}]
  BY <1>1, <1>2, <1>3 DEF ControlInv
<1>6. "check" \in PC
  BY DEF PC
<1>7. ControlInv'
  BY <1>2, <1>3, <1>4, <1>5, <1>6, MoveStep
<1>8. TableInv' /\ HeldInv'
  BY <1>3, QuietStep
<1>9. QED
  BY <1>7, <1>8 DEF ClientInv, ClientTypeOK, TableInv, HeldInv, ControlInv

LEMMA StartSyncKeeps ==
    ASSUME ClientInv, NEW p \in Proc, NEW k \in Key, StartSync(p, k)
    PROVE  ClientInv'
<1>1. ControlInv
  BY InvParts
<1>2. /\ cred' = [cred EXCEPT ![p] = k]
      /\ goto(p, "fetch")
      /\ pc[p] = "idle"
      /\ UNCHANGED <<rows, next_id, clock, rec, fetched, batch, rejected>>
  BY DEF StartSync
<1>3. batch[p] = {} /\ "fetch" \in PC
  BY <1>1, <1>2 DEF ControlInv, BatchSettled, PC
<1>4. rec' \in [Proc -> Row \cup {None}] /\ cred' \in [Proc -> Key \cup {None}]
  BY <1>1, <1>2 DEF ControlInv
<1>5. ControlInv'
  BY <1>2, <1>3, <1>4, MoveStep
<1>6. TableInv' /\ HeldInv'
  BY <1>2, QuietStep
<1>7. QED
  BY <1>5, <1>6 DEF ClientInv, ClientTypeOK, TableInv, HeldInv, ControlInv

LEMMA SkipFlushKeeps ==
    ASSUME ClientInv, NEW p \in Proc, SkipFlush(p)
    PROVE  ClientInv'
<1>1. ControlInv
  BY InvParts
<1>2. /\ goto(p, "prune")
      /\ pc[p] = "fetch"
      /\ UNCHANGED <<rows, next_id, clock, rec, cred, fetched, batch, rejected>>
  BY DEF SkipFlush
<1>3. batch[p] = {} /\ "prune" \in PC
  BY <1>1, <1>2 DEF ControlInv, BatchSettled, PC
<1>4. rec' \in [Proc -> Row \cup {None}] /\ cred' \in [Proc -> Key \cup {None}]
  BY <1>1, <1>2 DEF ControlInv
<1>5. ControlInv'
  BY <1>2, <1>3, <1>4, MoveStep
<1>6. TableInv' /\ HeldInv'
  BY <1>2, QuietStep
<1>7. QED
  BY <1>5, <1>6 DEF ClientInv, ClientTypeOK, TableInv, HeldInv, ControlInv

LEMMA CheckDupKeeps ==
    ASSUME ClientInv, NEW p \in Proc, CheckDup(p)
    PROVE  ClientInv'
<1>1. ControlInv
  BY InvParts
<1>2. /\ pc[p] = "check"
      /\ UNCHANGED <<rows, next_id, clock, rec, cred, fetched, batch, rejected>>
  BY DEF CheckDup
<1>3. PICK l \in PC : goto(p, l) /\ l \notin {"wait", "count", "mark"}
  <2>1. goto(p, after_insert(rec[p], FALSE)) \/ goto(p, "insert")
    BY DEF CheckDup
  <2>2. "insert" \in PC
    BY DEF PC
  <2>3. QED
    BY <2>1, <2>2, AfterInsert
<1>4. batch[p] = {} /\ rec[p] \in Row /\ Intact(rec[p])
  BY <1>1, <1>2 DEF ControlInv, BatchSettled, RecordInHand
<1>5. rec' \in [Proc -> Row \cup {None}] /\ cred' \in [Proc -> Key \cup {None}]
  BY <1>1, <1>2 DEF ControlInv
<1>6. ControlInv'
  BY <1>2, <1>3, <1>4, <1>5, MoveStep
<1>7. TableInv' /\ HeldInv'
  BY <1>2, QuietStep
<1>8. QED
  BY <1>6, <1>7 DEF ClientInv, ClientTypeOK, TableInv, HeldInv, ControlInv

LEMMA InsertRowKeeps ==
    ASSUME ClientInv, NEW p \in Proc, InsertRow(p)
    PROVE  ClientInv'
<1>1. TableInv /\ HeldInv /\ ControlInv
  BY InvParts
<1>2. /\ pc[p] = "insert"
      /\ ~sig_taken(rows, rec[p])
      /\ rows' = insert_row(rows, next_id, rec[p])
      /\ next_id' = next_id + 1
      /\ goto(p, after_insert(rec[p], TRUE))
      /\ UNCHANGED <<clock, rec, cred, fetched, batch, rejected>>
  BY DEF InsertRow
<1>3. batch[p] = {} /\ rec[p] \in Row /\ Intact(rec[p])
  BY <1>1, <1>2 DEF ControlInv, BatchSettled, RecordInHand
<1>4. rec' \in [Proc -> Row \cup {None}] /\ cred' \in [Proc -> Key \cup {None}]
  BY <1>1, <1>2 DEF ControlInv
<1>5. ControlInv'
  BY <1>2, <1>3, <1>4, AfterInsert, MoveStep
<1>6. TableInv' /\ HeldInv'
  BY <1>1, <1>2, <1>3, InsertStep
<1>7. QED
  BY <1>5, <1>6 DEF ClientInv, ClientTypeOK, TableInv, HeldInv, ControlInv

LEMMA EndsKeep ==
    ASSUME ClientInv, NEW p \in Proc, InsertFails(p) \/ Prune(p) \/ Crash(p)
    PROVE  ClientInv'
<1>1. TableInv /\ HeldInv /\ ControlInv /\ Typed(rows)
  BY InvParts, InvTyped
<1>2. CASE InsertFails(p)
  <2>1. /\ pc[p] = "insert"
        /\ goto(p, "idle")
        /\ rec' = [rec EXCEPT ![p] = None]
        /\ cred' = [cred EXCEPT ![p] = None]
        /\ UNCHANGED <<rows, next_id, clock, fetched, batch, rejected>>
    BY <1>2 DEF InsertFails
  <2>2. batch[p] = {} /\ "idle" \in PC
    BY <1>1, <2>1 DEF ControlInv, BatchSettled, PC
  <2>3. /\ rec' \in [Proc -> Row \cup {None}] /\ cred' \in [Proc -> Key \cup {None}]
        /\ \A q \in Proc \ {p} : rec'[q] = rec[q]
    BY <1>1, <2>1 DEF ControlInv
  <2>4. ControlInv'
    BY <2>1, <2>2, <2>3, MoveStep
  <2>5. TableInv' /\ HeldInv'
    BY <2>1, QuietStep
  <2>6. QED
    BY <2>4, <2>5 DEF ClientInv, ClientTypeOK, TableInv, HeldInv, ControlInv
<1>3. CASE Prune(p)
  <2>1. Descends(rows, rows') /\ end_process(p) /\ UNCHANGED <<next_id, clock>>
    BY <1>1, <1>3, PruneDescends DEF Prune
  <2>2. HeldShrinks /\ ControlInv'
    BY <2>1, EndStep
  <2>3. TableInv' /\ HeldInv'
    BY <1>1, <2>1, <2>2, TableStep, HeldStep
  <2>4. QED
    BY <2>2, <2>3 DEF ClientInv, ClientTypeOK, TableInv, HeldInv, ControlInv
<1>4. CASE Crash(p)
  <2>1. Descends(rows, rows') /\ end_process(p) /\ UNCHANGED <<next_id, clock>>
    BY <1>1, <1>4, DescendsReflexive DEF Crash
  <2>2. HeldShrinks /\ ControlInv'
    BY <2>1, EndStep
  <2>3. TableInv' /\ HeldInv'
    BY <1>1, <2>1, <2>2, TableStep, HeldStep
  <2>4. QED
    BY <2>2, <2>3 DEF ClientInv, ClientTypeOK, TableInv, HeldInv, ControlInv
<1>5. QED
  BY <1>2, <1>3, <1>4

LEMMA BackfillKeeps ==
    ASSUME ClientInv, NEW p \in Proc, Backfill(p)
    PROVE  ClientInv'
<1>1. ControlInv /\ Typed(rows)
  BY InvParts, InvTyped
<1>2. /\ pc[p] \in {"fill", "fill_dup"}
      /\ UNCHANGED <<next_id, clock, rec, cred, fetched, batch, rejected>>
  BY DEF Backfill
<1>3. batch[p] = {} /\ rec[p].repo \in Repo
  BY <1>1, <1>2 DEF ControlInv, BatchSettled, RecordInHand, Row
<1>4. Descends(rows, rows')
  BY <1>1, <1>3, BackfillDescends, DescendsReflexive DEF Backfill
<1>5. PICK l \in {"fetch", "prune"} : goto(p, l)
  BY DEF Backfill
<1>6. l \in PC
  BY DEF PC
<1>7. rec' \in [Proc -> Row \cup {None}] /\ cred' \in [Proc -> Key \cup {None}]
  BY <1>1, <1>2 DEF ControlInv
<1>8. ControlInv'
  BY <1>2, <1>3, <1>5, <1>6, <1>7, MoveStep
<1>9. TableInv' /\ HeldInv'
  BY <1>2, <1>4, StatementStep
<1>10. QED
  BY <1>8, <1>9 DEF ClientInv, ClientTypeOK, TableInv, HeldInv, ControlInv

\* The rows read are uploadable, hence intact.
LEMMA FetchReads ==
    ASSUME NEW k, NEW i \in DOMAIN fetch_unsynced(rows, k)
    PROVE  /\ i \in DOMAIN rows
           /\ fetch_unsynced(rows, k)[i] = rows[i]
           /\ Uploadable(rows[i])
BY DEF fetch_unsynced, oldest, fetchable, Uploadable

LEMMA FetchKeeps ==
    ASSUME ClientInv, NEW p \in Proc, Fetch(p)
    PROVE  ClientInv'
<1> DEFINE F == fetch_unsynced(rows, cred[p])
<1>1. TableInv /\ HeldInv /\ ControlInv
  BY InvParts
<1>2. /\ pc[p] = "fetch"
      /\ fetched' = [fetched EXCEPT ![p] = F]
      /\ rec' = [rec EXCEPT ![p] = None]
      /\ UNCHANGED <<rows, next_id, clock, cred, batch, rejected>>
  BY DEF Fetch
<1>3. PICK l \in {"prune", "post"} : pc' = [pc EXCEPT ![p] = l]
  BY DEF Fetch, goto
<1>4. /\ fetched'[p] = F
      /\ \A q \in Proc \ {p} : fetched'[q] = fetched[q]
      /\ DOMAIN fetched' = Proc
  BY <1>1, <1>2 DEF ControlInv
<1>5. \A i \in DOMAIN F : i \in DOMAIN rows /\ F[i] = rows[i] /\ Uploadable(rows[i])
  BY FetchReads
<1> HIDE DEF F
<1>6. TableInv'
  BY <1>1, <1>2 DEF TableInv, UploadableIsIntact, SignaturesUnique
<1>7. HeldInv'
  <2>1. \A i \in DOMAIN F : /\ F[i] \in Row /\ i \in 1 .. next_id - 1
                            /\ Intact(F[i])
    BY <1>1, <1>5 DEF TableInv, UploadableIsIntact, Uploadable, Intact
  <2>2. \A q \in Proc : /\ DOMAIN fetched'[q] \subseteq 1 .. next_id' - 1
                        /\ \A i \in DOMAIN fetched'[q] : fetched'[q][i] \in Row
    BY <1>1, <1>2, <1>4, <2>1 DEF HeldInv
  <2>3. UploadsOriginalText'
    BY <1>1, <1>4, <2>1 DEF HeldInv, UploadsOriginalText, Intact
  <2>4. HeldIdIsSameRecord'
    BY <1>1, <1>2, <1>4, <1>5 DEF HeldInv, HeldIdIsSameRecord
  <2>5. QED
    BY <2>2, <2>3, <2>4 DEF HeldInv
<1>8. ControlInv'
  <2>1. batch[p] = {}
    BY <1>1, <1>2 DEF ControlInv, BatchSettled
  <2>2. RecordInHand' /\ BatchSettled'
    BY <1>1, <1>2, <1>3, <2>1 DEF ControlInv, RecordInHand, BatchSettled
  <2>3. \A q \in Proc : batch'[q] \subseteq DOMAIN fetched'[q] /\ rejected'[q] \subseteq batch'[q]
    BY <1>1, <1>2, <1>4, <2>1 DEF ControlInv
  <2>4. pc' \in [Proc -> PC] /\ rec' \in [Proc -> Row \cup {None}]
    BY <1>1, <1>2, <1>3 DEF ControlInv, PC
  <2>5. QED
    BY <1>1, <1>2, <1>4, <2>2, <2>3, <2>4 DEF ControlInv
<1>9. QED
  BY <1>6, <1>7, <1>8 DEF ClientInv, ClientTypeOK, TableInv, HeldInv, ControlInv

LEMMA PostKeeps ==
    ASSUME ClientInv, NEW p \in Proc, NEW n, Post(p, n)
    PROVE  ClientInv'
<1>1. HeldInv /\ ControlInv
  BY InvParts
<1>2. /\ pc[p] = "post"
      /\ batch' = [batch EXCEPT ![p] = oldest(DOMAIN fetched[p], n)]
      /\ pc' = [pc EXCEPT ![p] = "wait"]
      /\ UNCHANGED <<rows, next_id, clock, rec, cred, fetched, rejected>>
  BY DEF Post, goto
<1>3. oldest(DOMAIN fetched[p], n) \subseteq DOMAIN fetched[p]
  BY DEF oldest
<1>4. DOMAIN fetched[p] \subseteq Nat
  <2>1. DOMAIN fetched[p] \subseteq 1 .. next_id - 1
    BY <1>1 DEF HeldInv
  <2>2. QED
    BY <2>1, InvParts DEF TableInv
<1>5. batch[p] = {} /\ rejected[p] = {}
  BY <1>1, <1>2 DEF ControlInv, BatchSettled
<1>6. \A q \in Proc : batch'[q] \subseteq DOMAIN fetched'[q] /\ rejected'[q] \subseteq batch'[q]
  BY <1>1, <1>2, <1>3, <1>5 DEF ControlInv
<1>7. RecordInHand' /\ BatchSettled'
  BY <1>1, <1>2 DEF ControlInv, RecordInHand, BatchSettled
<1>8. batch' \in [Proc -> SUBSET Nat] /\ pc' \in [Proc -> PC]
  BY <1>1, <1>2, <1>3, <1>4 DEF ControlInv, PC
<1>9. ControlInv'
  BY <1>1, <1>2, <1>6, <1>7, <1>8 DEF ControlInv
<1>10. TableInv' /\ HeldInv'
  BY <1>2, QuietStep
<1>11. QED
  BY <1>9, <1>10 DEF ClientInv, ClientTypeOK, TableInv, HeldInv, ControlInv

\* An answer, or the first half of its bookkeeping.
LEMMA AnswerKeeps ==
    ASSUME ClientInv, NEW p \in Proc,
           \/ \E R \in SUBSET batch[p] : AnswerSuccess(p, R)
           \/ AnswerUnparseable(p)
           \/ CountRejected(p)
    PROVE  ClientInv'
<1>1. ControlInv /\ Typed(rows)
  BY InvParts, InvTyped
<1>2. /\ pc[p] \in {"wait", "count"}
      /\ UNCHANGED <<next_id, clock, rec, cred, fetched, batch>>
      /\ \E l \in {"count", "mark"} : pc' = [pc EXCEPT ![p] = l]
  BY DEF AnswerSuccess, AnswerUnparseable, CountRejected, goto
<1>3. \E R \in SUBSET batch[p] : rejected' = [rejected EXCEPT ![p] = R]
  <2>1. rejected[p] \subseteq batch[p] /\ rejected = [rejected EXCEPT ![p] = rejected[p]]
    BY <1>1 DEF ControlInv
  <2>2. QED
    BY <2>1 DEF AnswerSuccess, AnswerUnparseable, CountRejected
<1>4. Descends(rows, rows')
  BY <1>1, IncrementDescends, DescendsReflexive
  DEF AnswerSuccess, AnswerUnparseable, CountRejected
<1>5. /\ rejected' \in [Proc -> SUBSET Nat]
      /\ \A q \in Proc : rejected'[q] \subseteq batch[q]
  <2>1. PICK R \in SUBSET batch[p] : rejected' = [rejected EXCEPT ![p] = R]
    BY <1>3
  <2>2. R \in SUBSET Nat
    BY <1>1, <2>1 DEF ControlInv
  <2>3. QED
    BY <1>1, <2>1, <2>2 DEF ControlInv
<1>6. RecordInHand' /\ BatchSettled' /\ pc' \in [Proc -> PC]
  BY <1>1, <1>2 DEF ControlInv, RecordInHand, BatchSettled, PC
<1>7. ControlInv'
  BY <1>1, <1>2, <1>5, <1>6 DEF ControlInv
<1>8. TableInv' /\ HeldInv'
  BY <1>2, <1>4, StatementStep
<1>9. QED
  BY <1>7, <1>8 DEF ClientInv, ClientTypeOK, TableInv, HeldInv, ControlInv

\* The end of a batch: its retry counters or its synced flags are written.
LEMMA SettleKeeps ==
    ASSUME ClientInv, NEW p \in Proc, AnswerError(p) \/ MarkBatch(p)
    PROVE  ClientInv'
<1>1. TableInv /\ HeldInv /\ Typed(rows)
  BY InvParts, InvTyped
<1>2. settle(p) /\ UNCHANGED <<next_id, clock, rec, cred>>
  BY DEF AnswerError, MarkBatch
<1>3. Descends(rows, rows')
  BY <1>1, IncrementDescends, MarkDescends DEF AnswerError, MarkBatch
<1>4. HeldShrinks /\ ControlInv'
  BY <1>2, SettleStep
<1>5. TableInv' /\ HeldInv'
  BY <1>1, <1>2, <1>3, <1>4, TableStep, HeldStep
<1>6. QED
  BY <1>4, <1>5 DEF ClientInv, ClientTypeOK, TableInv, HeldInv, ControlInv

\* The user cleans the table, or time passes.
LEMMA UserKeeps ==
    ASSUME ClientInv, Clean \/ Tick
    PROVE  ClientInv'
<1>1. ControlInv /\ Typed(rows)
  BY InvParts, InvTyped
<1>2. UNCHANGED <<next_id, pc, rec, cred, fetched, batch, rejected>>
  BY DEF Clean, Tick
<1>3. Descends(rows, rows') /\ clock' \in Nat
  BY <1>1, CleanDescends, NoRowsDescends, DescendsReflexive DEF Clean, Tick, ControlInv
<1>4. ControlInv'
  BY <1>1, <1>2, <1>3 DEF ControlInv, RecordInHand, BatchSettled
<1>5. TableInv' /\ HeldInv'
  BY <1>2, <1>3, StatementStep
<1>6. QED
  BY <1>4, <1>5 DEF ClientInv, ClientTypeOK, TableInv, HeldInv, ControlInv

LEMMA StutterKeeps == ASSUME ClientInv, UNCHANGED client_vars PROVE ClientInv'
<1>1. ControlInv
  BY InvParts
<1>2. ControlInv'
  BY <1>1 DEF client_vars, ControlInv, RecordInHand, BatchSettled
<1>3. TableInv' /\ HeldInv'
  BY QuietStep DEF client_vars
<1>4. QED
  BY <1>2, <1>3 DEF ClientInv, ClientTypeOK, TableInv, HeldInv, ControlInv

\* Every step keeps the invariant.
LEMMA NextInv == ClientInv /\ [ClientNext]_client_vars => ClientInv'
<1> SUFFICES ASSUME ClientInv, [ClientNext]_client_vars PROVE ClientInv'
  OBVIOUS
<1>1. ASSUME NEW p \in Proc, Start(p) PROVE ClientInv'
  BY <1>1, CaptureKeeps, StartSyncKeeps DEF Start
<1>2. ASSUME NEW p \in Proc, Run(p) PROVE ClientInv'
  BY <1>2, CheckDupKeeps, InsertRowKeeps, EndsKeep, BackfillKeeps, SkipFlushKeeps,
     FetchKeeps, AnswerKeeps, SettleKeeps DEF Run
<1>3. ASSUME NEW p \in Proc, Crash(p) PROVE ClientInv'
  BY <1>3, EndsKeep
<1>4. ASSUME NEW p \in Proc, NEW n \in 1 .. FetchLimit, Post(p, n) PROVE ClientInv'
  BY <1>4, PostKeeps
<1>5. ASSUME NEW p \in Proc,
             \/ \E R \in SUBSET batch[p] : AnswerSuccess(p, R)
             \/ AnswerUnparseable(p)
      PROVE  ClientInv'
  BY <1>5, AnswerKeeps
<1>6. ASSUME NEW p \in Proc, AnswerError(p) PROVE ClientInv'
  BY <1>6, SettleKeeps
<1>7. CASE Clean \/ Tick
  BY <1>7, UserKeeps
<1>8. CASE UNCHANGED client_vars
  BY <1>8, StutterKeeps
<1>9. QED
  BY <1>1, <1>2, <1>3, <1>4, <1>5, <1>6, <1>7, <1>8 DEF ClientNext

-----------------------------------------------------------------------------
(***************************************************************************)
(* Theorems.                                                               *)
(***************************************************************************)
\* The inductive invariant holds in every reachable state.
THEOREM InvariantHolds == ClientSpec => []ClientInv
<1>1. QED
  BY InitInv, NextInv, PTL DEF ClientSpec

\* The variables keep their types, whatever the server answers and whichever
\* process is killed when.
THEOREM TypeCorrect == ClientSpec => []ClientTypeOK
<1>1. ClientInv => ClientTypeOK
  BY DEF ClientInv
<1>2. QED
  BY <1>1, InvariantHolds, PTL

\* A row that fetch_unsynced may still return has the text it was signed with.
THEOREM UploadableRowsIntact == ClientSpec => []UploadableIsIntact
<1>1. ClientInv => UploadableIsIntact
  BY DEF ClientInv
<1>2. QED
  BY <1>1, InvariantHolds, PTL

\* No process ever uploads the marker of a pruned text.
THEOREM UploadsAreOriginal == ClientSpec => []UploadsOriginalText
<1>1. ClientInv => UploadsOriginalText
  BY DEF ClientInv
<1>2. QED
  BY <1>1, InvariantHolds, PTL

\* The ids flush_batch marks or counts name the records it uploaded, though
\* clean and prune delete rows and captures insert new ones meanwhile.
THEOREM HeldIdsAreStable == ClientSpec => []HeldIdIsSameRecord
<1>1. ClientInv => HeldIdIsSameRecord
  BY DEF ClientInv
<1>2. QED
  BY <1>1, InvariantHolds, PTL

\* record_sig stays unique in the table under concurrent captures.
THEOREM LocalSignaturesUnique == ClientSpec => []SignaturesUnique
<1>1. ClientInv => SignaturesUnique
  BY DEF ClientInv
<1>2. QED
  BY <1>1, InvariantHolds, PTL

\* Every step but an INSERT makes the table descend from what it was.
LEMMA StepDescends ==
    ASSUME ClientInv, [ClientNext]_client_vars
    PROVE  Descends(rows, rows') \/ \E p \in Proc : InsertRow(p)
<1>1. ControlInv /\ Typed(rows)
  BY InvParts, InvTyped
<1>2. CASE rows' = rows
  BY <1>1, <1>2, DescendsReflexive
<1>3. ASSUME NEW p \in Proc, Backfill(p) PROVE Descends(rows, rows')
  <2>1. rec[p].repo \in Repo
    BY <1>1, <1>3 DEF Backfill, ControlInv, RecordInHand, Row
  <2>2. QED
    BY <1>1, <1>3, <2>1, BackfillDescends, DescendsReflexive DEF Backfill
<1>4. ASSUME NEW p \in Proc, AnswerError(p) \/ CountRejected(p) \/ MarkBatch(p) \/ Prune(p)
      PROVE  Descends(rows, rows')
  BY <1>1, <1>4, IncrementDescends, MarkDescends, PruneDescends
  DEF AnswerError, CountRejected, MarkBatch, Prune
<1>5. CASE Clean
  BY <1>1, <1>5, CleanDescends, NoRowsDescends DEF Clean
<1>6. \/ rows' = rows
      \/ Clean
      \/ \E p \in Proc : \/ Backfill(p) \/ AnswerError(p) \/ CountRejected(p)
                         \/ MarkBatch(p) \/ Prune(p) \/ InsertRow(p)
  BY DEF ClientNext, client_vars, Start, Run, Capture, StartSync, CheckDup, InsertFails,
     SkipFlush, Fetch, Crash, Post, AnswerSuccess, AnswerUnparseable, Tick
<1>7. QED
  BY <1>2, <1>3, <1>4, <1>5, <1>6

\* A record that has its repository never moves to another one.
THEOREM RepositoryNeverChanges == ClientSpec => RepositoryIsStable
<1> DEFINE Stable == \A i \in DOMAIN rows \cap DOMAIN rows' :
                        rows[i].repo.url # None => rows'[i].repo = rows[i].repo
<1>1. ClientInv /\ [ClientNext]_client_vars => [Stable]_client_vars
  <2> SUFFICES ASSUME ClientInv, [ClientNext]_client_vars PROVE Stable
    OBVIOUS
  <2>1. CASE Descends(rows, rows')
    BY <2>1 DEF Descends, Succeeds
  <2>2. ASSUME NEW p \in Proc, InsertRow(p) PROVE Stable
    <3>1. next_id \notin DOMAIN rows
      BY InvParts DEF TableInv
    <3>2. \A i \in DOMAIN rows : rows'[i] = rows[i]
      BY <2>2, <3>1 DEF InsertRow, insert_row
    <3>3. QED
      BY <3>2
  <2>3. QED
    BY <2>1, <2>2, StepDescends
<1>2. QED
  BY <1>1, InvariantHolds, PTL DEF ClientSpec, RepositoryIsStable

-----------------------------------------------------------------------------
(***************************************************************************)
(* The retry counter of a row passes MaxRetry, since increment_retry does  *)
(* not look at it and several processes may hold the row, but never by     *)
(* more than the number of processes.                                      *)
(*                                                                         *)
(* The argument: a process that holds a row may add one failure to it,     *)
(* once.  A row's failures and the processes that may still add one stay   *)
(* within Budget together: a fetch, which makes a process hold the row,    *)
(* takes only rows below MaxRetry, an increment takes one from the holders *)
(* and adds one to the failures, and no other step adds to either.         *)
(***************************************************************************)
Budget == MaxRetry - 1 + Cardinality(Proc)

\* The process p may still add a failure to the row i.
MayCount(p, i) ==
    /\ i \in DOMAIN fetched[p]
    /\ pc[p] = "mark" => i \notin rejected[p]

Holders(i) == {p \in Proc : MayCount(p, i)}

WithinBudget(i) == rows[i].retry + Cardinality(Holders(i)) <= Budget

RetryInv == \A i \in DOMAIN rows : WithinBudget(i)

-----------------------------------------------------------------------------
LEMMA SetOfProcesses ==
    ASSUME NEW S \in SUBSET Proc
    PROVE  /\ IsFiniteSet(S)
           /\ Cardinality(S) \in Nat
           /\ Cardinality(Proc) \in Nat
           /\ Cardinality(S) <= Cardinality(Proc)
BY ProcAssumption, FS_Subset, FS_CardinalityType

LEMMA HoldersAreProcesses ==
    ASSUME NEW i PROVE Holders(i) \in SUBSET Proc /\ Holders(i)' \in SUBSET Proc
BY DEF Holders

\* A step that gives the row no new holder and no new failure.
LEMMA KeepsBudget ==
    ASSUME NEW i \in DOMAIN rows, rows[i].retry \in Nat, WithinBudget(i),
           rows'[i].retry = rows[i].retry, Holders(i)' \subseteq Holders(i)
    PROVE  WithinBudget(i)'
<1>1. /\ Cardinality(Holders(i)') \in Nat
      /\ Cardinality(Holders(i)) \in Nat
      /\ Cardinality(Proc) \in Nat
  BY HoldersAreProcesses, SetOfProcesses
<1>2. IsFiniteSet(Holders(i))
  BY HoldersAreProcesses, SetOfProcesses
<1>3. Cardinality(Holders(i)') <= Cardinality(Holders(i))
  BY <1>2, FS_Subset
<1>4. MaxRetry \in Nat
  BY LimitAssumption
<1>5. QED
  BY <1>1, <1>3, <1>4 DEF WithinBudget, Budget

\* A holder that adds its failure is a holder no longer.
LEMMA SpendsBudget ==
    ASSUME NEW i \in DOMAIN rows, rows[i].retry \in Nat, WithinBudget(i),
           NEW p \in Holders(i), rows'[i].retry = rows[i].retry + 1,
           Holders(i)' \subseteq Holders(i) \ {p}
    PROVE  WithinBudget(i)'
<1>1. /\ Cardinality(Holders(i)') \in Nat
      /\ Cardinality(Holders(i)) \in Nat
      /\ Cardinality(Proc) \in Nat
  BY HoldersAreProcesses, SetOfProcesses
<1>2. IsFiniteSet(Holders(i))
  BY HoldersAreProcesses, SetOfProcesses
<1>3. /\ IsFiniteSet(Holders(i) \ {p})
      /\ Cardinality(Holders(i) \ {p}) = Cardinality(Holders(i)) - 1
  BY <1>2, FS_RemoveElement
<1>4. Cardinality(Holders(i)') <= Cardinality(Holders(i) \ {p})
  BY <1>3, FS_Subset
<1>5. MaxRetry \in Nat
  BY LimitAssumption
<1>6. QED
  BY <1>1, <1>3, <1>4, <1>5 DEF WithinBudget, Budget

\* Below MaxRetry the budget holds with every process as a holder.
LEMMA BelowCut ==
    ASSUME NEW i, rows'[i].retry \in Nat, rows'[i].retry < MaxRetry
    PROVE  WithinBudget(i)'
<1>1. /\ Cardinality(Holders(i)') \in Nat
      /\ Cardinality(Proc) \in Nat
      /\ Cardinality(Holders(i)') <= Cardinality(Proc)
  BY HoldersAreProcesses, SetOfProcesses
<1>2. MaxRetry \in Nat
  BY LimitAssumption
<1>3. QED
  BY <1>1, <1>2 DEF WithinBudget, Budget

-----------------------------------------------------------------------------
(***************************************************************************)
(* The statements that leave the counters alone.                           *)
(***************************************************************************)
SameCounters(t, u) ==
    /\ DOMAIN u \subseteq DOMAIN t
    /\ \A i \in DOMAIN u : u[i].retry = t[i].retry

LEMMA MarkCounters ==
    ASSUME NEW t, Typed(t), NEW ids PROVE SameCounters(t, mark_synced(t, ids))
<1>1. ASSUME NEW r \in Row PROVE marked(r).retry = r.retry
  <2>1. strip(r) \in Row /\ strip(r).retry = r.retry
    BY StripKeeps
  <2>2. QED
    BY <2>1 DEF marked, Row
<1>2. QED
  BY <1>1 DEF SameCounters, mark_synced, Typed

LEMMA BackfillCounters ==
    ASSUME NEW t, Typed(t), NEW c, NEW key
    PROVE  SameCounters(t, backfill_repo_info(t, c, key))
<1>1. ASSUME NEW r \in Row PROVE filled(r, c).retry = r.retry
  BY DEF filled, Row
<1>2. QED
  BY <1>1 DEF SameCounters, backfill_repo_info, Typed

LEMMA PruneCounters ==
    ASSUME NEW t, Typed(t) PROVE SameCounters(t, prune_local_record_storage(t))
<1> DEFINE s == strip_retry_exhausted_pending_original_text(t)
<1>1. SameCounters(t, s)
  BY StripKeeps DEF SameCounters, strip_retry_exhausted_pending_original_text, Typed
<1>2. QED
  BY <1>1 DEF SameCounters, prune_local_record_storage, delete

LEMMA CleanCounters ==
    ASSUME NEW t, NEW u \in {clean_synced(t), NoRows} PROVE SameCounters(t, u)
BY DEF SameCounters, clean_synced, delete, NoRows

\* Such a statement, by a process that does not read rows either, is within
\* the budget.
LEMMA CountersStep ==
    ASSUME ClientInv, RetryInv, SameCounters(rows, rows'),
           \A i \in DOMAIN rows : Holders(i)' \subseteq Holders(i)
    PROVE  RetryInv'
<1>1. ASSUME NEW i \in DOMAIN rows' PROVE WithinBudget(i)'
  <2>1. i \in DOMAIN rows /\ rows'[i].retry = rows[i].retry
    BY DEF SameCounters
  <2>2. rows[i].retry \in Nat /\ WithinBudget(i)
    BY <2>1 DEF RetryInv, ClientInv, ClientTypeOK, Row
  <2>3. QED
    BY <2>1, <2>2, KeepsBudget
<1>2. QED
  BY <1>1 DEF RetryInv

\* What settle makes of the holders: the batch has none left in p.
LEMMA SettleHolders ==
    ASSUME ClientInv, NEW p \in Proc, settle(p), NEW i
    PROVE  /\ Holders(i)' \subseteq Holders(i)
           /\ i \in batch[p] => p \notin Holders(i)'
<1>1. ControlInv
  BY InvParts
<1>2. /\ fetched' = [fetched EXCEPT ![p] =
                        [j \in DOMAIN fetched[p] \ batch[p] |-> fetched[p][j]]]
      /\ rejected' = [rejected EXCEPT ![p] = {}]
      /\ \E l \in {"prune", "post"} : pc' = [pc EXCEPT ![p] = l]
  BY DEF settle, goto
<1>3. \A q \in Proc \ {p} : MayCount(q, i)' <=> MayCount(q, i)
  BY <1>1, <1>2 DEF ControlInv, MayCount
<1>4. DOMAIN fetched'[p] = DOMAIN fetched[p] \ batch[p]
  BY <1>1, <1>2 DEF ControlInv
<1>5. rejected[p] \subseteq batch[p]
  BY <1>1 DEF ControlInv
<1>6. MayCount(p, i)' => MayCount(p, i) /\ i \notin batch[p]
  BY <1>4, <1>5 DEF MayCount
<1>7. QED
  BY <1>3, <1>6 DEF Holders

LEMMA EndHolders ==
    ASSUME ClientInv, NEW p \in Proc, end_process(p), NEW i
    PROVE  Holders(i)' \subseteq Holders(i)
<1>1. ControlInv
  BY InvParts
<1>2. /\ fetched' = [fetched EXCEPT ![p] = NoRows]
      /\ rejected' = [rejected EXCEPT ![p] = {}]
      /\ pc' = [pc EXCEPT ![p] = "idle"]
  BY DEF end_process, goto
<1>3. \A q \in Proc \ {p} : MayCount(q, i)' <=> MayCount(q, i)
  BY <1>1, <1>2 DEF ControlInv, MayCount
<1>4. DOMAIN fetched'[p] = {}
  BY <1>1, <1>2 DEF ControlInv, NoRows
<1>5. QED
  BY <1>3, <1>4 DEF Holders, MayCount

\* A move of the control, other than out of "mark", adds no holder.
LEMMA MoveHolders ==
    ASSUME ClientInv, NEW p \in Proc, NEW l, goto(p, l), pc[p] # "mark",
           UNCHANGED fetched, \A q \in Proc \ {p} : rejected'[q] = rejected[q],
           NEW i
    PROVE  Holders(i)' \subseteq Holders(i)
<1>1. pc' = [pc EXCEPT ![p] = l] /\ pc \in [Proc -> PC]
  BY InvParts DEF ControlInv, goto
<1>2. \A q \in Proc \ {p} : MayCount(q, i)' <=> MayCount(q, i)
  BY <1>1 DEF MayCount
<1>3. MayCount(p, i)' => MayCount(p, i)
  BY DEF MayCount
<1>4. QED
  BY <1>2, <1>3 DEF Holders

-----------------------------------------------------------------------------
(***************************************************************************)
(* The actions.                                                            *)
(***************************************************************************)
LEMMA InitRetry == ClientInit => RetryInv
BY DEF ClientInit, RetryInv, NoRows

\* Moves that touch neither the table nor the rows held.
LEMMA MovesRetry ==
    ASSUME ClientInv, RetryInv, NEW p \in Proc,
           \/ Start(p) \/ CheckDup(p) \/ InsertFails(p) \/ SkipFlush(p)
           \/ \E n \in 1 .. FetchLimit : Post(p, n)
           \/ \E R \in SUBSET batch[p] : AnswerSuccess(p, R)
           \/ AnswerUnparseable(p)
    PROVE  RetryInv'
<1>1. rejected \in [Proc -> SUBSET Nat]
  BY InvParts DEF ControlInv
<1>2. /\ UNCHANGED <<rows, fetched>>
      /\ pc[p] # "mark"
      /\ \E l : goto(p, l)
      /\ \A q \in Proc \ {p} : rejected'[q] = rejected[q]
  BY <1>1 DEF Start, Capture, StartSync, CheckDup, InsertFails, SkipFlush, Post,
     AnswerSuccess, AnswerUnparseable
<1>3. SameCounters(rows, rows')
  BY <1>2 DEF SameCounters
<1>4. \A i : Holders(i)' \subseteq Holders(i)
  BY <1>2, MoveHolders
<1>5. QED
  BY <1>3, <1>4, CountersStep

LEMMA BackfillRetry ==
    ASSUME ClientInv, RetryInv, NEW p \in Proc, Backfill(p)
    PROVE  RetryInv'
<1>1. SameCounters(rows, rows')
  <2>1. Typed(rows)
    BY InvTyped
  <2>2. SameCounters(rows, rows)
    BY DEF SameCounters
  <2>3. QED
    BY <2>1, <2>2, BackfillCounters DEF Backfill
<1>2. \A i : Holders(i)' \subseteq Holders(i)
  <2>1. UNCHANGED <<fetched, rejected>> /\ pc[p] # "mark" /\ \E l : goto(p, l)
    BY DEF Backfill
  <2>2. QED
    BY <2>1, MoveHolders
<1>3. QED
  BY <1>1, <1>2, CountersStep

\* What a process is about to insert it has just captured, or has had in hand.
LEMMA InHandStep ==
    ASSUME ClientInv, [ClientNext]_client_vars, NEW q \in Proc, pc'[q] \in {"check", "insert"}
    PROVE  \/ pc[q] \in {"check", "insert"} /\ rec'[q] = rec[q]
           \/ \E e \in Event, c \in Repo, k \in Key \cup {None} : Capture(q, e, c, k)
<1>1. pc \in [Proc -> PC] /\ rec \in [Proc -> Row \cup {None}]
  BY InvParts DEF ControlInv
<1> DEFINE Goal == pc[q] \in {"check", "insert"} /\ rec'[q] = rec[q]
<1>2. CASE UNCHANGED <<pc, rec>>
  BY <1>2
<1>3. ASSUME NEW p \in Proc, p # q, NEW e \in Event, NEW c \in Repo, NEW k \in Key \cup {None},
             Capture(p, e, c, k)
      PROVE  Goal
  BY <1>1, <1>3 DEF Capture, goto
<1>4. ASSUME NEW p \in Proc, CheckDup(p) PROVE Goal
  <2>1. pc[p] = "check" /\ rec' = rec /\ \E l : pc' = [pc EXCEPT ![p] = l]
    BY <1>4 DEF CheckDup, goto
  <2>. QED  BY <1>1, <2>1
<1>5. ASSUME NEW p \in Proc, NEW l \in PC \ {"check", "insert"}, goto(p, l),
             \A r \in Proc \ {p} : rec'[r] = rec[r]
      PROVE  Goal
  BY <1>1, <1>5 DEF goto
<1>6. \A r, b : after_insert(r, b) \in PC \ {"check", "insert"}
  BY DEF after_insert, PC
<1>7. ASSUME NEW p \in Proc, settle(p), rec' = rec PROVE Goal
  <2>1. \E l \in PC \ {"check", "insert"} : goto(p, l)
    BY <1>7 DEF settle, PC
  <2>. QED  BY <1>5, <1>7, <2>1
<1>8. ASSUME NEW p \in Proc, end_process(p) PROVE Goal
  BY <1>1, <1>5, <1>8 DEF end_process, PC
<1>9. ASSUME NEW p \in Proc, InsertRow(p) \/ InsertFails(p) \/ Backfill(p) \/ SkipFlush(p)
      PROVE  Goal
  <2>1. \E l \in PC \ {"check", "insert"} : goto(p, l)
    BY <1>6, <1>9 DEF InsertRow, InsertFails, Backfill, SkipFlush, PC
  <2>2. \A r \in Proc \ {p} : rec'[r] = rec[r]
    BY <1>1, <1>9 DEF InsertRow, InsertFails, Backfill, SkipFlush
  <2>. QED  BY <1>5, <2>1, <2>2
<1>10. ASSUME NEW p \in Proc, \/ Fetch(p) \/ CountRejected(p)
                              \/ \E k \in Key : StartSync(p, k)
                              \/ \E n \in 1 .. FetchLimit : Post(p, n)
                              \/ \E R \in SUBSET batch[p] : AnswerSuccess(p, R)
                              \/ AnswerUnparseable(p)
       PROVE  Goal
  <2>1. \E l \in PC \ {"check", "insert"} : goto(p, l)
    BY <1>10 DEF Fetch, CountRejected, StartSync, Post, AnswerSuccess,
       AnswerUnparseable, PC
  <2>2. \A r \in Proc \ {p} : rec'[r] = rec[r]
    BY <1>1, <1>10 DEF Fetch, CountRejected, StartSync, Post, AnswerSuccess,
       AnswerUnparseable
  <2>. QED  BY <1>5, <2>1, <2>2
<1>11. ASSUME NEW p \in Proc, AnswerError(p) \/ MarkBatch(p) \/ Prune(p) \/ Crash(p)
       PROVE  Goal
  BY <1>7, <1>8, <1>11 DEF AnswerError, MarkBatch, Prune, Crash
<1>12. CASE Clean \/ Tick \/ UNCHANGED client_vars
  BY <1>2, <1>12 DEF Clean, Tick, client_vars
<1>. QED  BY <1>3, <1>4, <1>9, <1>10, <1>11, <1>12 DEF ClientNext, Start, Run

\* A capture that has not inserted its record yet counted no failure on it.
NewInHand ==
    \A p \in Proc : pc[p] \in {"check", "insert"} => rec[p].retry = 0

LEMMA NewInHandStep ==
    ASSUME ClientInv, NewInHand, [ClientNext]_client_vars
    PROVE  NewInHand'
<1> SUFFICES ASSUME NEW q \in Proc, pc'[q] \in {"check", "insert"} PROVE rec'[q].retry = 0
  BY DEF NewInHand
<1>1. \A e \in Event, c \in Repo, k \in Key \cup {None} : Capture(q, e, c, k) => rec'[q].retry = 0
  BY InvParts DEF ControlInv, Capture, new_record
<1>. QED  BY <1>1, InHandStep DEF NewInHand

\* A new row has no failures.
LEMMA InsertRetry ==
    ASSUME ClientInv, RetryInv, NewInHand, NEW p \in Proc, InsertRow(p)
    PROVE  RetryInv'
<1>1. ControlInv /\ TableInv
  BY InvParts
<1>2. /\ pc[p] = "insert"
      /\ rows' = insert_row(rows, next_id, rec[p])
      /\ goto(p, after_insert(rec[p], TRUE))
      /\ UNCHANGED <<rec, fetched, rejected>>
  BY DEF InsertRow
<1>3. next_id \notin DOMAIN rows
  BY <1>1 DEF TableInv
<1>4. /\ DOMAIN rows' = DOMAIN rows \cup {next_id}
      /\ rows'[next_id] = rec[p]
      /\ \A i \in DOMAIN rows : rows'[i] = rows[i]
  BY <1>2, <1>3 DEF insert_row
<1>5. ASSUME NEW i \in DOMAIN rows PROVE WithinBudget(i)'
  <2>1. Holders(i)' \subseteq Holders(i)
    BY <1>2, MoveHolders
  <2>2. rows'[i] = rows[i]
    BY <1>4
  <2>3. rows[i].retry \in Nat /\ WithinBudget(i)
    BY <1>1 DEF TableInv, RetryInv, Row
  <2>4. QED
    BY <2>1, <2>2, <2>3, KeepsBudget
<1>6. ASSUME NEW i, i = next_id PROVE WithinBudget(i)'
  <2>1. rows'[i].retry = 0
    BY <1>2, <1>4, <1>6 DEF NewInHand
  <2>2. QED
    BY <2>1, BelowCut, LimitAssumption
<1>7. ASSUME NEW i \in DOMAIN rows' PROVE WithinBudget(i)'
  BY <1>4, <1>5, <1>6
<1>8. QED
  BY <1>7 DEF RetryInv

\* A fetch makes the process a holder of rows below MaxRetry only.
LEMMA FetchRetry ==
    ASSUME ClientInv, RetryInv, NEW p \in Proc, Fetch(p)
    PROVE  RetryInv'
<1>1. ControlInv /\ Typed(rows)
  BY InvParts, InvTyped
<1>2. /\ rows' = rows /\ rejected' = rejected
      /\ pc[p] = "fetch"
      /\ fetched' = [fetched EXCEPT ![p] = fetch_unsynced(rows, cred[p])]
      /\ \E l : pc' = [pc EXCEPT ![p] = l]
  BY DEF Fetch, goto
<1>3. \A i \in DOMAIN fetch_unsynced(rows, cred[p]) : rows[i].retry < MaxRetry
  BY DEF fetch_unsynced, oldest, fetchable
<1>4. \A i : \A q \in Proc \ {p} : MayCount(q, i)' <=> MayCount(q, i)
  BY <1>1, <1>2 DEF ControlInv, MayCount
<1>5. fetched'[p] = fetch_unsynced(rows, cred[p])
  BY <1>1, <1>2 DEF ControlInv
<1>6. ASSUME NEW i \in DOMAIN rows PROVE WithinBudget(i)'
  <2>1. rows[i].retry \in Nat /\ rows'[i].retry = rows[i].retry /\ WithinBudget(i)
    BY <1>1, <1>2 DEF Typed, Row, RetryInv
  <2>2. CASE i \in DOMAIN fetched'[p]
    <3>1. rows'[i].retry < MaxRetry
      BY <1>3, <1>5, <2>1, <2>2
    <3>2. QED
      BY <2>1, <3>1, BelowCut
  <2>3. CASE i \notin DOMAIN fetched'[p]
    <3>1. Holders(i)' \subseteq Holders(i)
      BY <1>4, <2>3 DEF Holders, MayCount
    <3>2. QED
      BY <2>1, <3>1, KeepsBudget
  <2>4. QED
    BY <2>2, <2>3
<1>7. QED
  BY <1>2, <1>6 DEF RetryInv

\* increment_retry on a set of rows the process holds, which it holds no more
\* afterwards.
LEMMA IncrementRetryStep ==
    ASSUME ClientInv, RetryInv, NEW p \in Proc, NEW ids,
           rows' = increment_retry(rows, ids),
           \A i : Holders(i)' \subseteq Holders(i),
           \A i \in ids : p \in Holders(i) /\ p \notin Holders(i)'
    PROVE  RetryInv'
<1>1. Typed(rows)
  BY InvTyped
<1>2. ASSUME NEW i \in DOMAIN rows PROVE WithinBudget(i)'
  <2>1. rows[i] \in Row /\ rows[i].retry \in Nat /\ WithinBudget(i)
    BY <1>1 DEF Typed, Row, RetryInv
  <2>2. CASE i \in ids
    <3>1. rows'[i].retry = rows[i].retry + 1
      BY <2>1, <2>2 DEF increment_retry, counted, Row
    <3>2. Holders(i)' \subseteq Holders(i) \ {p} /\ p \in Holders(i)
      BY <2>2
    <3>3. QED
      BY <2>1, <3>1, <3>2, SpendsBudget
  <2>3. CASE i \notin ids
    <3>1. rows'[i].retry = rows[i].retry
      BY <2>3 DEF increment_retry
    <3>2. QED
      BY <2>1, <3>1, KeepsBudget
  <2>4. QED
    BY <2>2, <2>3
<1>3. DOMAIN rows' = DOMAIN rows
  BY DEF increment_retry
<1>4. QED
  BY <1>2, <1>3 DEF RetryInv

\* A transient error counts every row of the batch, which is dropped.
LEMMA AnswerErrorRetry ==
    ASSUME ClientInv, RetryInv, NEW p \in Proc, AnswerError(p)
    PROVE  RetryInv'
<1>1. ControlInv
  BY InvParts
<1>2. pc[p] = "wait" /\ settle(p) /\ rows' = increment_retry(rows, batch[p])
  BY DEF AnswerError
<1>3. \A i \in batch[p] : p \in Holders(i)
  BY <1>1, <1>2 DEF ControlInv, Holders, MayCount
<1>4. QED
  BY <1>2, <1>3, SettleHolders, IncrementRetryStep

\* The rows the server rejected are counted before the others are marked.
LEMMA CountRejectedRetry ==
    ASSUME ClientInv, RetryInv, NEW p \in Proc, CountRejected(p)
    PROVE  RetryInv'
<1>1. ControlInv
  BY InvParts
<1>2. /\ pc[p] = "count" /\ goto(p, "mark")
      /\ rows' = increment_retry(rows, rejected[p])
      /\ UNCHANGED <<fetched, rejected>>
  BY DEF CountRejected
<1>3. pc'[p] = "mark"
  BY <1>1, <1>2 DEF ControlInv, goto
<1>4. \A i \in rejected[p] : p \in Holders(i) /\ p \notin Holders(i)'
  BY <1>1, <1>2, <1>3 DEF ControlInv, Holders, MayCount
<1>5. \A i : Holders(i)' \subseteq Holders(i)
  BY <1>2, MoveHolders
<1>6. QED
  BY <1>2, <1>4, <1>5, IncrementRetryStep

\* The statements that delete and mark rows, and the ends of a process.
LEMMA SettlesRetry ==
    ASSUME ClientInv, RetryInv, NEW p \in Proc, MarkBatch(p) \/ Prune(p) \/ Crash(p)
    PROVE  RetryInv'
<1>1. Typed(rows)
  BY InvTyped
<1>2. CASE MarkBatch(p)
  <2>1. SameCounters(rows, rows')
    BY <1>1, <1>2, MarkCounters DEF MarkBatch
  <2>2. \A i : Holders(i)' \subseteq Holders(i)
    BY <1>2, SettleHolders DEF MarkBatch
  <2>3. QED
    BY <2>1, <2>2, CountersStep
<1>3. CASE Prune(p) \/ Crash(p)
  <2>1. SameCounters(rows, rows')
    <3>1. SameCounters(rows, rows)
      BY DEF SameCounters
    <3>2. QED
      BY <1>1, <1>3, <3>1, PruneCounters DEF Prune, Crash
  <2>2. \A i : Holders(i)' \subseteq Holders(i)
    BY <1>3, EndHolders DEF Prune, Crash
  <2>3. QED
    BY <2>1, <2>2, CountersStep
<1>4. QED
  BY <1>2, <1>3

LEMMA UserRetry ==
    ASSUME ClientInv, RetryInv, Clean \/ Tick \/ UNCHANGED client_vars
    PROVE  RetryInv'
<1>1. SameCounters(rows, rows')
  <2>1. SameCounters(rows, rows)
    BY DEF SameCounters
  <2>2. QED
    BY <2>1, CleanCounters DEF Clean, Tick, client_vars
<1>2. \A i : Holders(i)' = Holders(i)
  BY DEF Clean, Tick, client_vars, Holders, MayCount
<1>3. QED
  BY <1>1, <1>2, CountersStep

\* Every step keeps the failures within the budget.
LEMMA NextRetry ==
    ASSUME ClientInv, RetryInv, NewInHand, [ClientNext]_client_vars
    PROVE  RetryInv'
<1>1. ASSUME NEW p \in Proc, Start(p) \/ Run(p) \/ Crash(p) PROVE RetryInv'
  BY <1>1, MovesRetry, InsertRetry, BackfillRetry, FetchRetry, CountRejectedRetry,
     SettlesRetry DEF Run
<1>2. ASSUME NEW p \in Proc,
             \/ \E n \in 1 .. FetchLimit : Post(p, n)
             \/ \E R \in SUBSET batch[p] : AnswerSuccess(p, R)
             \/ AnswerUnparseable(p)
      PROVE  RetryInv'
  BY <1>2, MovesRetry
<1>3. ASSUME NEW p \in Proc, AnswerError(p) PROVE RetryInv'
  BY <1>3, AnswerErrorRetry
<1>4. CASE Clean \/ Tick \/ UNCHANGED client_vars
  BY <1>4, UserRetry
<1>5. QED
  BY <1>1, <1>2, <1>3, <1>4 DEF ClientNext

-----------------------------------------------------------------------------
\* However the processes interleave and are killed, the retry counter of a row
\* stays below MaxRetry plus the number of processes: flush_unsynced uploads a
\* row a bounded number of times.
THEOREM RetryCounterBounded == ClientSpec => []RetryIsBounded
<1> DEFINE Inv == ClientInv /\ RetryInv /\ NewInHand
<1>1. ClientInit => Inv
  BY InitInv, InitRetry DEF ClientInit, NewInHand
<1>2. Inv /\ [ClientNext]_client_vars => Inv'
  BY NextInv, NextRetry, NewInHandStep
<1>3. Inv => RetryIsBounded
  <2> SUFFICES ASSUME ClientInv, RetryInv, NEW i \in DOMAIN rows
               PROVE  rows[i].retry < MaxRetry + Cardinality(Proc)
    BY DEF RetryIsBounded
  <2>1. rows[i].retry \in Nat
    BY InvTyped DEF Typed, Row
  <2>2. Cardinality(Holders(i)) \in Nat /\ Cardinality(Proc) \in Nat
    BY HoldersAreProcesses, SetOfProcesses
  <2>3. rows[i].retry + Cardinality(Holders(i)) <= MaxRetry - 1 + Cardinality(Proc)
    BY DEF RetryInv, WithinBudget, Budget
  <2>4. QED
    BY <2>1, <2>2, <2>3, LimitAssumption
<1>4. QED
  BY <1>1, <1>2, <1>3, PTL DEF ClientSpec

-----------------------------------------------------------------------------
(***************************************************************************)
(* What the prune of a process that is not disturbed leaves.  Each cap     *)
(* takes the oldest of its rows: so as many newer ones stay as it allows.  *)
(* The caps on synced and on pending rows together are the cap on all,     *)
(* which therefore takes nothing more.                                     *)
(***************************************************************************)
older(ids, i) == {j \in ids : j < i}

LEMMA OlderGrows ==
    ASSUME NEW ids, ids \subseteq Nat, IsFiniteSet(ids), NEW i \in ids, NEW j \in ids, i < j
    PROVE  /\ Cardinality(older(ids, i)) \in Nat /\ Cardinality(older(ids, j)) \in Nat
           /\ Cardinality(older(ids, i)) < Cardinality(older(ids, j))
<1>1. IsFiniteSet(older(ids, i)) /\ IsFiniteSet(older(ids, j))
  BY FS_Subset DEF older
<1>2. i \in Nat /\ j \in Nat
  OBVIOUS
<1>3. i \notin older(ids, i) /\ older(ids, i) \cup {i} \subseteq older(ids, j)
  <2>1. \A x \in ids : x \in Nat /\ (x < i => x < j) /\ ~(i < i)
    BY <1>2
  <2>. QED  BY <2>1 DEF older
<1>4. /\ IsFiniteSet(older(ids, i) \cup {i})
      /\ Cardinality(older(ids, i) \cup {i}) = Cardinality(older(ids, i)) + 1
  BY <1>1, <1>3, FS_AddElement
<1>5. Cardinality(older(ids, i) \cup {i}) <= Cardinality(older(ids, j))
  BY <1>1, <1>3, FS_Subset
<1>6. Cardinality(older(ids, i)) \in Nat /\ Cardinality(older(ids, j)) \in Nat
  BY <1>1, FS_CardinalityType
<1>. QED  BY <1>4, <1>5, <1>6

\* The first n numbers.
LEMMA CountTo ==
    ASSUME NEW n \in Nat
    PROVE  IsFiniteSet(0 .. n - 1) /\ Cardinality(0 .. n - 1) = n
<1>1. 0 \in Int /\ n - 1 \in Int
  OBVIOUS
<1>2. /\ IsFiniteSet(0 .. n - 1)
      /\ Cardinality(0 .. n - 1) = IF 0 > n - 1 THEN 0 ELSE (n - 1) - 0 + 1
  BY <1>1, FS_Interval
<1>. QED  BY <1>2

\* ORDER BY id LIMIT n takes n rows if there are as many.
LEMMA OldestCount ==
    ASSUME NEW ids, ids \subseteq Nat, IsFiniteSet(ids), NEW n \in 0 .. Cardinality(ids)
    PROVE  IsFiniteSet(oldest(ids, n)) /\ Cardinality(oldest(ids, n)) = n
<1> DEFINE N == Cardinality(ids)
           rank == [i \in ids |-> Cardinality(older(ids, i))]
           first == [i \in oldest(ids, n) |-> rank[i]]
<1>1. N \in Nat /\ n \in Nat /\ n <= N
  BY FS_CardinalityType
<1>2. ASSUME NEW i \in ids PROVE rank[i] \in 0 .. N - 1
  <2>1. IsFiniteSet(ids \ {i}) /\ Cardinality(ids \ {i}) = N - 1
    BY FS_RemoveElement
  <2>2. older(ids, i) \subseteq ids \ {i}
    BY DEF older
  <2>3. IsFiniteSet(older(ids, i)) /\ Cardinality(older(ids, i)) <= N - 1
    BY <2>1, <2>2, FS_Subset
  <2>4. Cardinality(older(ids, i)) \in Nat
    BY <2>3, FS_CardinalityType
  <2>. QED  BY <1>1, <2>3, <2>4
<1>3. ASSUME NEW i \in ids, NEW j \in ids, rank[i] = rank[j] PROVE i = j
  <2>1. i \in Nat /\ j \in Nat
    OBVIOUS
  <2>2. i < j => rank[i] < rank[j] /\ rank[i] \in Nat /\ rank[j] \in Nat
    BY OlderGrows
  <2>3. j < i => rank[j] < rank[i] /\ rank[i] \in Nat /\ rank[j] \in Nat
    BY OlderGrows
  <2>. QED  BY <1>3, <2>1, <2>2, <2>3
<1>4. rank \in Injection(ids, 0 .. N - 1)
  BY <1>2, <1>3 DEF Injection, IsInjective
<1>5. rank \in Surjection(ids, 0 .. N - 1)
  BY <1>1, <1>4, CountTo, FS_Injection
<1>6. oldest(ids, n) = {i \in ids : rank[i] < n}
  BY DEF oldest, older
<1>7. IsFiniteSet(oldest(ids, n))
  BY <1>6, FS_Subset
<1>8. first \in Bijection(oldest(ids, n), 0 .. n - 1)
  <2>1. \A i \in oldest(ids, n) : first[i] \in 0 .. n - 1
    <3> SUFFICES ASSUME NEW i \in oldest(ids, n) PROVE rank[i] \in 0 .. n - 1
      OBVIOUS
    <3>1. rank[i] \in 0 .. N - 1 /\ rank[i] < n
      BY <1>2, <1>6
    <3> HIDE DEF rank
    <3>. QED  BY <1>1, <3>1
  <2>2. \A i, j \in oldest(ids, n) : first[i] = first[j] => i = j
    BY <1>3, <1>6
  <2>3. \A v \in 0 .. n - 1 : \E i \in oldest(ids, n) : first[i] = v
    <3> SUFFICES ASSUME NEW v \in 0 .. n - 1 PROVE \E i \in oldest(ids, n) : first[i] = v
      OBVIOUS
    <3>1. v \in 0 .. N - 1 /\ v < n
      BY <1>1
    <3>2. PICK i \in ids : rank[i] = v
      BY <1>5, <3>1 DEF Surjection
    <3>. QED  BY <1>6, <3>1, <3>2
  <2>. QED  BY <2>1, <2>2, <2>3 DEF Bijection, Injection, Surjection, IsInjective
<1>9. Cardinality(0 .. n - 1) = Cardinality(oldest(ids, n))
  BY <1>7, <1>8, FS_Bijection DEF ExistsBijection
<1>. QED  BY <1>1, <1>7, <1>9, CountTo

\* A cap keeps no more rows than it allows, and that many if it takes any; those are newer.
LEMMA ExcessKeeps ==
    ASSUME NEW ids, ids \subseteq Nat, IsFiniteSet(ids), NEW cap \in Nat
    PROVE  /\ excess(ids, cap) \subseteq ids /\ IsFiniteSet(ids \ excess(ids, cap))
           /\ Cardinality(ids \ excess(ids, cap)) \in Nat
           /\ Cardinality(ids \ excess(ids, cap)) <= cap
           /\ excess(ids, cap) # {} => Cardinality(ids \ excess(ids, cap)) = cap
           /\ \A i \in excess(ids, cap), j \in ids \ excess(ids, cap) : i < j
<1> DEFINE N == Cardinality(ids)
           n == N - cap
           K == ids \ oldest(ids, n)
<1>1. N \in Nat /\ cap \in Nat /\ n \in Int
  BY FS_CardinalityType
<1>2. excess(ids, cap) = oldest(ids, n)
  BY DEF excess
<1>3. oldest(ids, n) \subseteq ids
  BY DEF oldest
<1>4. IsFiniteSet(K) /\ Cardinality(K) \in Nat /\ IsFiniteSet(oldest(ids, n))
  BY <1>3, FS_Subset, FS_CardinalityType
<1>5. CASE n <= 0
  <2>1. \A i \in ids : Cardinality(older(ids, i)) \in Nat
    BY FS_Subset, FS_CardinalityType DEF older
  <2>2. oldest(ids, n) = {}
    <3>1. \A i \in ids : ~(Cardinality(older(ids, i)) < n)
      <4> HIDE DEF n
      <4>. QED  BY <1>1, <1>5, <2>1
    <3>. QED  BY <3>1 DEF oldest, older
  <2>3. K = ids /\ Cardinality(K) <= cap
    BY <1>1, <1>5, <2>2
  <2>. QED  BY <1>2, <1>4, <2>2, <2>3
<1>6. CASE n > 0
  <2>1. n \in 0 .. N
    BY <1>1, <1>6
  <2>2. Cardinality(oldest(ids, n)) = n
    BY <2>1, OldestCount
  <2>3. ids = K \cup oldest(ids, n) /\ K \cap oldest(ids, n) = {}
    BY <1>3
  <2>4. N = Cardinality(K) + n - 0
    BY <1>4, <2>2, <2>3, FS_Union, FS_EmptySet
  <2>5. Cardinality(K) = cap
    <3> HIDE DEF K
    <3>. QED  BY <1>1, <1>4, <2>4
  <2>6. ASSUME NEW i \in oldest(ids, n), NEW j \in K PROVE i < j
    <3>1. Cardinality(older(ids, i)) < n /\ ~(Cardinality(older(ids, j)) < n) /\ i \in Nat /\ j \in Nat
      BY <2>6 DEF oldest, older
    <3>2. j < i => /\ Cardinality(older(ids, j)) < Cardinality(older(ids, i))
                   /\ Cardinality(older(ids, i)) \in Nat /\ Cardinality(older(ids, j)) \in Nat
      BY <1>3, OlderGrows
    <3>3. i # j
      BY <2>6
    <3>4. ~(j < i)
      BY <1>1, <3>1, <3>2
    <3>. QED  BY <3>1, <3>3, <3>4
  <2>. QED  BY <1>1, <1>2, <1>3, <1>4, <2>5, <2>6
<1>. QED  BY <1>1, <1>5, <1>6

\* A row without a credential's signature has no credential.
Signed(t) == \A i \in DOMAIN t : t[i].key # None => t[i].sig # None

\* The prune keeps what it looks at.
LEMMA PruneIs ==
    ASSUME NEW t, Typed(t)
    PROVE  LET u == prune_local_record_storage(t)
           IN  /\ DOMAIN u = kept_ids(t) /\ kept_ids(t) \subseteq DOMAIN t
               /\ \A i \in DOMAIN u : /\ u[i].synced = t[i].synced /\ u[i].retry = t[i].retry
                                      /\ u[i].key = t[i].key /\ u[i].sig = t[i].sig
<1> DEFINE s == strip_retry_exhausted_pending_original_text(t)
           u == prune_local_record_storage(t)
<1>1. DOMAIN s = DOMAIN t
  BY DEF strip_retry_exhausted_pending_original_text
<1>2. ASSUME NEW i \in DOMAIN t
      PROVE  s[i].synced = t[i].synced /\ s[i].retry = t[i].retry /\ s[i].key = t[i].key /\ s[i].sig = t[i].sig
  <2>1. s[i] = t[i] \/ s[i] = strip(t[i])
    BY DEF strip_retry_exhausted_pending_original_text
  <2>. QED  BY <2>1, StripKeeps DEF Typed, SameRecord
<1>3. kept_ids(t) \subseteq DOMAIN t
  BY DEF kept_ids
<1>4. DOMAIN u = kept_ids(t) /\ \A i \in DOMAIN u : u[i] = s[i]
  BY <1>1, <1>3 DEF prune_local_record_storage, delete
<1>. QED  BY <1>2, <1>3, <1>4

\* Nothing is left for the cap on all rows.
LEMMA KeptIs ==
    ASSUME NEW t, DOMAIN t \subseteq Nat, IsFiniteSet(DOMAIN t), \A i \in DOMAIN t : t[i].synced \in BOOLEAN
    PROVE  LET spent == excess(exhausted_ids(t), MaxExhausted)
               dead == excess(unuploadable_ids(t) \ spent, MaxUnuploadable)
               alive == pending_ids(t) \ (spent \cup dead)
               synced == synced_ids(t) \ excess(synced_ids(t), MaxSynced)
               pending == alive \ excess(alive, MaxPending)
           IN  /\ kept_ids(t) = synced \cup pending
               /\ Cardinality(synced) <= MaxSynced /\ Cardinality(pending) <= MaxPending
<1> DEFINE spent == excess(exhausted_ids(t), MaxExhausted)
           dead == excess(unuploadable_ids(t) \ spent, MaxUnuploadable)
           alive == pending_ids(t) \ (spent \cup dead)
           synced == synced_ids(t) \ excess(synced_ids(t), MaxSynced)
           pending == alive \ excess(alive, MaxPending)
           left == DOMAIN t \ (excess(synced_ids(t), MaxSynced) \cup spent \cup dead \cup excess(alive, MaxPending))
<1>1. MaxSynced \in Nat /\ MaxPending \in Nat /\ MaxExhausted \in Nat /\ MaxUnuploadable \in Nat
  BY LimitAssumption
<1>2. \A ids \in SUBSET DOMAIN t : ids \subseteq Nat /\ IsFiniteSet(ids)
  BY FS_Subset
<1>3. /\ synced_ids(t) \subseteq DOMAIN t /\ pending_ids(t) \subseteq DOMAIN t
      /\ synced_ids(t) \cup pending_ids(t) = DOMAIN t /\ synced_ids(t) \cap pending_ids(t) = {}
      /\ exhausted_ids(t) \subseteq pending_ids(t) /\ unuploadable_ids(t) \subseteq pending_ids(t)
  BY DEF synced_ids, pending_ids, exhausted_ids, unuploadable_ids
<1>4. \A ids, cap : excess(ids, cap) \subseteq ids
  BY DEF excess, oldest
<1>5. spent \subseteq pending_ids(t) /\ dead \subseteq pending_ids(t)
  BY <1>3, <1>4
<1>6. left = synced \cup pending /\ synced \cap pending = {}
  <2> HIDE DEF spent, dead
  <2>. QED  BY <1>3, <1>4, <1>5
<1>7. IsFiniteSet(synced) /\ Cardinality(synced) \in Nat /\ Cardinality(synced) <= MaxSynced
  BY <1>1, <1>2, <1>3, ExcessKeeps
<1>8. IsFiniteSet(pending) /\ Cardinality(pending) \in Nat /\ Cardinality(pending) <= MaxPending
  <2> HIDE DEF spent, dead
  <2>1. alive \subseteq Nat /\ IsFiniteSet(alive)
    BY <1>2, <1>3
  <2> HIDE DEF alive
  <2>. QED  BY <1>1, <2>1, ExcessKeeps
<1> HIDE DEF synced, pending
<1>9. Cardinality(left) = Cardinality(synced) + Cardinality(pending)
  <2>1. Cardinality(synced \cup pending) =
           Cardinality(synced) + Cardinality(pending) - Cardinality(synced \cap pending)
    BY <1>7, <1>8, FS_Union
  <2>2. Cardinality(synced \cap pending) = 0
    BY <1>6, FS_EmptySet
  <2> HIDE DEF left
  <2>. QED  BY <1>6, <1>7, <1>8, <2>1, <2>2
<1>10. left \subseteq DOMAIN t
  OBVIOUS
<1> HIDE DEF left
<1>11. over_total(t, left) = {}
  <2>1. ASSUME NEW i \in left
        PROVE  ~(Cardinality({j \in left : drops_before(t, j, i)}) < Cardinality(left) - (MaxSynced + MaxPending))
    <3>1. Cardinality({j \in left : drops_before(t, j, i)}) \in Nat
      <4>1. IsFiniteSet(left)
        BY <1>2, <1>10
      <4>. QED  BY <4>1, FS_Subset, FS_CardinalityType
    <3>. QED  BY <1>1, <1>7, <1>8, <1>9, <3>1
  <2>. QED  BY <2>1 DEF over_total
<1>12. kept_ids(t) = left \ over_total(t, left)
  BY DEF kept_ids, left, alive, dead, spent
<1>. QED  BY <1>6, <1>7, <1>8, <1>11, <1>12 DEF synced, pending

LEMMA PruneLeaves ==
    ASSUME NEW t, Typed(t), DOMAIN t \subseteq Nat, IsFiniteSet(DOMAIN t), Signed(t),
           NEW u, u = prune_local_record_storage(t)
    PROVE  /\ Cardinality(synced_ids(u)) <= MaxSynced
           /\ Cardinality(pending_ids(u)) <= MaxPending
           /\ Cardinality(exhausted_ids(u)) <= MaxExhausted
           /\ Cardinality(unuploadable_ids(u)) <= MaxUnuploadable
           /\ \A i \in pending_ids(t) \ DOMAIN u :
                 t[i].retry < MaxRetry /\ t[i].key # None =>
                    Cardinality({j \in pending_ids(u) : j > i}) = MaxPending
<1> DEFINE spent == excess(exhausted_ids(t), MaxExhausted)
           dead == excess(unuploadable_ids(t) \ spent, MaxUnuploadable)
           alive == pending_ids(t) \ (spent \cup dead)
           synced == synced_ids(t) \ excess(synced_ids(t), MaxSynced)
           pending == alive \ excess(alive, MaxPending)
<1>1. MaxSynced \in Nat /\ MaxPending \in Nat /\ MaxExhausted \in Nat /\ MaxUnuploadable \in Nat
      /\ MaxRetry \in Nat
  BY LimitAssumption
<1>2. \A ids \in SUBSET DOMAIN t : ids \subseteq Nat /\ IsFiniteSet(ids)
  BY FS_Subset
<1>3. \A i \in DOMAIN t : t[i].synced \in BOOLEAN /\ t[i].retry \in Nat
  BY DEF Typed, Row
<1>4. /\ DOMAIN u = synced \cup pending
      /\ Cardinality(synced) <= MaxSynced /\ Cardinality(pending) <= MaxPending
  BY <1>3, PruneIs, KeptIs
<1>5. /\ DOMAIN u \subseteq DOMAIN t
      /\ \A i \in DOMAIN u : /\ u[i].synced = t[i].synced /\ u[i].retry = t[i].retry
                             /\ u[i].key = t[i].key /\ u[i].sig = t[i].sig
  BY PruneIs
<1>6. /\ synced_ids(t) \cap pending_ids(t) = {} /\ synced_ids(t) \cup pending_ids(t) = DOMAIN t
      /\ exhausted_ids(t) \subseteq pending_ids(t) /\ unuploadable_ids(t) \subseteq pending_ids(t)
  BY <1>3 DEF synced_ids, pending_ids, exhausted_ids, unuploadable_ids
<1>7. /\ synced_ids(u) = synced_ids(t) \cap DOMAIN u
      /\ pending_ids(u) = pending_ids(t) \cap DOMAIN u
      /\ exhausted_ids(u) = exhausted_ids(t) \cap DOMAIN u
      /\ unuploadable_ids(u) = unuploadable_ids(t) \cap DOMAIN u
  BY <1>5 DEF synced_ids, pending_ids, exhausted_ids, unuploadable_ids
<1>8. synced_ids(u) = synced /\ pending_ids(u) = pending
  <2> HIDE DEF spent, dead
  <2>1. synced \subseteq synced_ids(t) /\ pending \subseteq pending_ids(t)
    OBVIOUS
  <2> HIDE DEF synced, pending, alive
  <2>. QED  BY <1>4, <1>6, <1>7, <2>1
<1>9. Cardinality(exhausted_ids(u)) <= MaxExhausted
  <2>1. exhausted_ids(u) \subseteq exhausted_ids(t) \ spent
    <3>1. exhausted_ids(u) \subseteq pending
      BY <1>6, <1>7, <1>8
    <3>. QED  BY <1>7, <3>1
  <2>2. /\ IsFiniteSet(exhausted_ids(t) \ spent)
        /\ Cardinality(exhausted_ids(t) \ spent) \in Nat
        /\ Cardinality(exhausted_ids(t) \ spent) <= MaxExhausted
    BY <1>1, <1>2, <1>6, ExcessKeeps
  <2>3. /\ Cardinality(exhausted_ids(u)) <= Cardinality(exhausted_ids(t) \ spent)
        /\ Cardinality(exhausted_ids(u)) \in Nat
    BY <2>1, <2>2, FS_Subset, FS_CardinalityType
  <2> HIDE DEF spent
  <2>. QED  BY <1>1, <2>2, <2>3
<1>10. Cardinality(unuploadable_ids(u)) <= MaxUnuploadable
  <2> DEFINE rest == unuploadable_ids(t) \ spent
  <2>1. unuploadable_ids(u) \subseteq rest \ dead
    <3>1. unuploadable_ids(u) \subseteq pending
      BY <1>6, <1>7, <1>8
    <3>. QED  BY <1>7, <3>1
  <2>2. rest \subseteq Nat /\ IsFiniteSet(rest)
    BY <1>2, <1>6
  <2>3. dead = excess(rest, MaxUnuploadable)
    OBVIOUS
  <2> HIDE DEF rest, dead
  <2>4. /\ IsFiniteSet(rest \ dead) /\ Cardinality(rest \ dead) \in Nat
        /\ Cardinality(rest \ dead) <= MaxUnuploadable
    BY <1>1, <2>2, <2>3, ExcessKeeps
  <2>5. /\ Cardinality(unuploadable_ids(u)) <= Cardinality(rest \ dead)
        /\ Cardinality(unuploadable_ids(u)) \in Nat
    BY <2>1, <2>4, FS_Subset, FS_CardinalityType
  <2>. QED  BY <1>1, <2>4, <2>5
<1>11. ASSUME NEW i \in pending_ids(t) \ DOMAIN u, t[i].retry < MaxRetry, t[i].key # None
       PROVE  Cardinality({j \in pending_ids(u) : j > i}) = MaxPending
  <2>1. i \notin exhausted_ids(t)
    BY <1>1, <1>3, <1>11 DEF exhausted_ids, pending_ids
  <2>2. i \notin unuploadable_ids(t)
    BY <1>11 DEF unuploadable_ids, pending_ids, Signed
  <2>3. \A ids, cap : excess(ids, cap) \subseteq ids
    BY DEF excess, oldest
  <2>4. i \in alive
    BY <1>11, <2>1, <2>2, <2>3
  <2>5. i \in excess(alive, MaxPending)
    BY <1>4, <1>11, <2>4
  <2>6. alive \subseteq Nat /\ IsFiniteSet(alive)
    BY <1>2, <1>6
  <2> HIDE DEF alive
  <2>7. /\ \A j \in pending : i < j
        /\ Cardinality(pending) = MaxPending
    BY <1>1, <2>5, <2>6, ExcessKeeps
  <2>8. pending \subseteq Nat /\ i \in Nat
    BY <2>4, <2>6
  <2>9. {j \in pending : j > i} = pending
    <3> HIDE DEF pending
    <3>. QED  BY <2>7, <2>8
  <2>. QED  BY <1>8, <2>7, <2>9
<1>. QED  BY <1>4, <1>8, <1>9, <1>10, <1>11

-----------------------------------------------------------------------------
\* A row that has a credential's key is signed, in the table and in hand.
SignedInv ==
    /\ Signed(rows)
    /\ \A p \in Proc : pc[p] \in {"check", "insert"} => (rec[p].key # None => rec[p].sig # None)

LEMMA SignedStep ==
    ASSUME None \notin Signature, ClientInv, SignedInv, [ClientNext]_client_vars
    PROVE  SignedInv'
<1>1. /\ pc \in [Proc -> PC] /\ rec \in [Proc -> Row \cup {None}] /\ clock \in Nat
      /\ TableInv
  BY InvParts DEF ControlInv
<1>2. Signed(rows)'
  <2>1. CASE Descends(rows, rows')
    BY <2>1 DEF Descends, Succeeds, SameRecord, SignedInv, Signed
  <2>2. ASSUME NEW p \in Proc, InsertRow(p) PROVE Signed(rows)'
    <3>1. pc[p] = "insert" /\ rows' = insert_row(rows, next_id, rec[p])
      BY <2>2 DEF InsertRow
    <3>2. /\ DOMAIN rows' = DOMAIN rows \cup {next_id}
          /\ \A i \in DOMAIN rows' : rows'[i] = rec[p] \/ (i \in DOMAIN rows /\ rows'[i] = rows[i])
      BY <3>1 DEF insert_row
    <3>. QED  BY <3>1, <3>2 DEF SignedInv, Signed
  <2>. QED  BY <2>1, <2>2, StepDescends
<1>3. ASSUME NEW q \in Proc, pc'[q] \in {"check", "insert"}, rec'[q].key # None
      PROVE  rec'[q].sig # None
  <2>1. ASSUME NEW e \in Event, NEW c \in Repo, NEW k \in Key \cup {None}, Capture(q, e, c, k)
        PROVE  rec'[q].sig # None
    <3>1. rec'[q] = new_record(e, c, k, clock)
      BY <1>1, <2>1 DEF Capture
    <3>2. rec'[q].key = k /\ rec'[q].sig = IF k = None THEN None ELSE compute_record_sig(k, clock, e, c)
      BY <3>1 DEF new_record
    <3>3. k # None => compute_record_sig(k, clock, e, c) \in Signature
      <4>1. /\ e.tool \in Tool /\ e.path \in Path /\ e.diff \in Diff /\ e.meta \in Meta
            /\ c.url \in Url /\ c.sha \in Sha
        BY DEF Tool, Path, Diff, Meta, Url, Sha
      <4>. QED  BY <1>1, <4>1 DEF compute_record_sig, Signature
    <3>. QED  BY <1>3, <3>2, <3>3
  <2>. QED  BY <1>3, <2>1, InHandStep DEF SignedInv
<1>. QED  BY <1>2, <1>3 DEF SignedInv

\* The prune leaves every cap satisfied, and deletes a row that could still be uploaded only
\* for as many newer ones as the cap on pending rows allows.
THEOREM KeepsUploadable ==
    ASSUME None \notin Signature
    PROVE  ClientSpec => PruneKeepsUploadable
<1>1. ClientInit => SignedInv
  BY DEF ClientInit, SignedInv, Signed, NoRows
<1>2. SignedInv /\ ClientInv /\ [ClientNext]_client_vars => SignedInv'
  BY SignedStep
<1>3. SignedInv /\ ClientInv /\ [ClientNext]_client_vars => [PruneStep]_client_vars
  <2> SUFFICES ASSUME SignedInv, ClientInv PROVE PruneStep
    OBVIOUS
  <2>1. Typed(rows) /\ DOMAIN rows \subseteq Nat /\ IsFiniteSet(DOMAIN rows)
    <3>1. Typed(rows) /\ DOMAIN rows \subseteq 1 .. next_id - 1 /\ next_id \in Nat
      BY InvTyped, InvParts DEF TableInv
    <3>2. IsFiniteSet(1 .. next_id - 1)
      BY <3>1, FS_Interval
    <3>. QED  BY <3>1, <3>2, FS_Subset
  <2>2. \A p \in Proc : Prune(p) => rows' = prune_local_record_storage(rows)
    BY DEF Prune
  <2>. QED  BY <2>1, <2>2, PruneLeaves DEF SignedInv, PruneStep
<1>. QED  BY <1>1, <1>2, <1>3, InvariantHolds, PTL DEF ClientSpec, PruneKeepsUploadable
=============================================================================
