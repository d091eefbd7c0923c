--------------------------- MODULE EditPipelineProofs ---------------------------
(***************************************************************************)
(* Proofs about EditPipeline: client and server together.  Each step of    *)
(* the pipeline is a step of CaptureProcess and a step of EditIngest whose *)
(* requests carry any edits, so the invariants proved of either hold here  *)
(* (IngestProofs is EditIngestProofs for this pipeline's server).  What is *)
(* proved anew is what only the two together promise.                      *)
(***************************************************************************)
EXTENDS EditPipeline, CaptureProcessProofs, FiniteSetTheorems, Sequences

IngestProofs == INSTANCE EditIngestProofs WITH
    now <- clock, key <- s_key, rejected <- s_rejected, MaxNow <- MaxClock,
    Edit <- {}

LEMMA ServerAssumption ==
    /\ {RateLimit, MaxRawRows, MaxBatch} \subseteq Nat \ {0}
    /\ {Hour, RawWindow, MaxFaults, MaxClock} \subseteq Nat
    /\ Suspicious \subseteq Event
    /\ {} \subseteq IngestProofs!WireEdit
    /\ EnforceWhitelist \in BOOLEAN
    /\ IngestProofs!IsFiniteSet(Handler)
BY PipelineAssumption DEF IsFiniteSet, IngestProofs!IsFiniteSet

LEMMA ServerStep ==
    ASSUME IngestProofs!IngestInv, [IngestProofs!OpenNext]_(IngestProofs!ingest_vars)
    PROVE  IngestProofs!IngestInv'
BY ServerAssumption, EventAssumption, LimitAssumption, IngestProofs!IngestInvStep

-----------------------------------------------------------------------------
(***************************************************************************)
(* The server of EditPipeline (Server) and the one the proofs are about    *)
(* (IngestProofs) are two instances of one module: operator by operator,   *)
(* and then action by action, they are the same.                           *)
(***************************************************************************)
LEMMA SameCardinality == \A S : Server!Cardinality(S) = IngestProofs!Cardinality(S)
BY DEF Server!Cardinality, IngestProofs!Cardinality

LEMMA SameValidate ==
    \A k, e, n : Server!Validate(k, e, n) = IngestProofs!Validate(k, e, n)
BY DEF Server!Validate, IngestProofs!Validate, Server!malformed, IngestProofs!malformed,
       Server!sig_matches, IngestProofs!sig_matches,
       Server!compute_record_sig, IngestProofs!compute_record_sig,
       Server!refused_by_whitelist, IngestProofs!refused_by_whitelist,
       Server!flags, IngestProofs!flags

LEMMA SameCount == \A h : Server!count(h) = IngestProofs!count(h)
BY SameCardinality DEF Server!count, IngestProofs!count, Server!recent, IngestProofs!recent

LEMMA SameLoop ==
    \A h, k, b : /\ Server!next_edit(h) = IngestProofs!next_edit(h)
                 /\ Server!fault(k, b) = IngestProofs!fault(k, b)
                 /\ Server!end_request(h) = IngestProofs!end_request(h)
BY DEF Server!next_edit, IngestProofs!next_edit, Server!fault, IngestProofs!fault,
       Server!end_request, IngestProofs!end_request

LEMMA SameStrip ==
    /\ \A s, ids : Server!strip_where(s, ids) = IngestProofs!strip_where(s, ids)
    /\ Server!old_ids = IngestProofs!old_ids
    /\ Server!overflow_ids(store) = IngestProofs!overflow_ids(store)
<1>1. \A s, ids : Server!strip_where(s, ids) = IngestProofs!strip_where(s, ids)
  BY DEF Server!strip_where, IngestProofs!strip_where, Server!strip, IngestProofs!strip,
         Server!prune_text, IngestProofs!prune_text
<1>2. Server!old_ids = IngestProofs!old_ids
  BY DEF Server!old_ids, IngestProofs!old_ids
<1>3. Server!overflow_ids(store) = IngestProofs!overflow_ids(store)
  BY SameCardinality DEF Server!overflow_ids, IngestProofs!overflow_ids,
                         Server!newer, IngestProofs!newer
<1>4. QED
  BY <1>1, <1>2, <1>3

LEMMA SameIndex == Server!RetentionIndex = IngestProofs!RetentionIndex
BY DEF Server!RetentionIndex, IngestProofs!RetentionIndex

LEMMA SameReject == \A h : Server!RejectEdit(h) => IngestProofs!RejectEdit(h)
BY SameValidate, SameCount, SameLoop
   DEF Server!RejectEdit, IngestProofs!RejectEdit, Server!Stored, IngestProofs!Stored,
       Server!request_vars, IngestProofs!request_vars

LEMMA SameAdmit == \A h, b : Server!AdmitEdit(h, b) => IngestProofs!AdmitEdit(h, b)
BY SameValidate, SameCount, SameLoop
   DEF Server!AdmitEdit, IngestProofs!AdmitEdit, Server!Stored, IngestProofs!Stored,
       Server!request_vars, IngestProofs!request_vars,
       Server!response_vars, IngestProofs!response_vars

LEMMA SameSave == \A h : Server!SaveEdit(h) => IngestProofs!SaveEdit(h)
BY SameLoop
   DEF Server!SaveEdit, IngestProofs!SaveEdit, Server!Save, IngestProofs!Save,
       Server!new_stored, IngestProofs!new_stored,
       Server!request_vars, IngestProofs!request_vars

LEMMA SameSaveFails == \A h : Server!SaveFails(h) => IngestProofs!SaveFails(h)
BY SameLoop DEF Server!SaveFails, IngestProofs!SaveFails,
                Server!request_vars, IngestProofs!request_vars

LEMMA SameStripOld == \A h : Server!StripOld(h) => IngestProofs!StripOld(h)
BY SameStrip DEF Server!StripOld, IngestProofs!StripOld,
                 Server!request_vars, IngestProofs!request_vars,
                 Server!response_vars, IngestProofs!response_vars

LEMMA SameStripOverflow == \A h : Server!StripOverflow(h) => IngestProofs!StripOverflow(h)
BY SameStrip DEF Server!StripOverflow, IngestProofs!StripOverflow,
                 Server!request_vars, IngestProofs!request_vars,
                 Server!response_vars, IngestProofs!response_vars

LEMMA SameRetentionFails ==
    \A h : Server!RetentionFails(h) => IngestProofs!RetentionFails(h)
BY SameLoop, SameIndex
   DEF Server!RetentionFails, IngestProofs!RetentionFails,
       Server!request_vars, IngestProofs!request_vars

LEMMA SameWork == \A h : Server!Work(h) => IngestProofs!Work(h)
BY SameReject, SameAdmit, SameSave, SameSaveFails, SameStripOld, SameStripOverflow,
   SameRetentionFails DEF Server!Work, IngestProofs!Work

LEMMA SameReply ==
    \A h : /\ Server!Reply(h) => IngestProofs!Reply(h)
           /\ Server!Abort(h) => IngestProofs!Abort(h)
BY SameLoop DEF Server!Reply, IngestProofs!Reply, Server!Abort, IngestProofs!Abort

LEMMA SameReceive ==
    \A h, k, es : Server!Receive(h, k, es) => IngestProofs!Receive(h, k, es)
BY DEF Server!Receive, IngestProofs!Receive,
       Server!response_vars, IngestProofs!response_vars

LEMMA SameInit == Server!IngestInit => IngestProofs!IngestInit
BY DEF Server!IngestInit, IngestProofs!IngestInit

-----------------------------------------------------------------------------
(***************************************************************************)
(* The edits of a request are the rows of the batch in id order.           *)
(***************************************************************************)
below(ids, i) == {j \in ids : j < i}

\* Different rows have different numbers of rows below them.
LEMMA BelowGrows ==
    ASSUME NEW ids \in SUBSET Nat, IsFiniteSet(ids), NEW i \in ids, NEW k \in ids, i < k
    PROVE  Cardinality(below(ids, i)) < Cardinality(below(ids, k))
<1> DEFINE lo == below(ids, i)  hi == below(ids, k)
<1>1. lo \subseteq hi /\ hi \subseteq ids /\ i \in hi /\ i \notin lo
  <2>1. \A j \in ids : j \in Nat
    OBVIOUS
  <2>2. \A j \in ids : j < i => j < k
    BY <2>1
  <2>3. ~(i < i)
    BY <2>1
  <2>4. QED
    BY <2>2, <2>3 DEF below
<1> HIDE DEF lo, hi
<1>2. IsFiniteSet(hi) /\ Cardinality(hi) \in Nat
  BY <1>1, FS_Subset, FS_CardinalityType
<1>3. IsFiniteSet(lo) /\ Cardinality(lo) \in Nat /\ Cardinality(lo) <= Cardinality(hi)
      /\ (Cardinality(hi) = Cardinality(lo) => hi = lo)
  BY <1>1, <1>2, FS_Subset, FS_CardinalityType
<1>4. Cardinality(lo) < Cardinality(hi)
  BY <1>1, <1>2, <1>3
<1>5. QED
  BY <1>4 DEF lo, hi

LEMMA BelowBounded ==
    ASSUME NEW ids \in SUBSET Nat, IsFiniteSet(ids), NEW i \in ids
    PROVE  /\ Cardinality(ids) \in Nat
           /\ Cardinality(below(ids, i)) \in Nat
           /\ Cardinality(below(ids, i)) < Cardinality(ids)
<1> DEFINE lo == below(ids, i)
<1>1. lo \subseteq ids /\ i \notin lo
  BY DEF below
<1> HIDE DEF lo
<1>2. Cardinality(ids) \in Nat
  BY FS_CardinalityType
<1>3. IsFiniteSet(lo) /\ Cardinality(lo) \in Nat /\ Cardinality(lo) <= Cardinality(ids)
      /\ (Cardinality(ids) = Cardinality(lo) => ids = lo)
  BY <1>1, FS_Subset, FS_CardinalityType
<1>4. Cardinality(lo) < Cardinality(ids)
  BY <1>1, <1>2, <1>3
<1>5. QED
  BY <1>2, <1>3, <1>4 DEF lo

\* Each row of a batch has its position ...
LEMMA PositionOfRow ==
    ASSUME NEW ids \in SUBSET Nat, IsFiniteSet(ids), NEW i \in ids
    PROVE  \E n \in 1 .. Cardinality(ids) : row_at(ids, n) = i
<1> DEFINE c == Cardinality(below(ids, i))
<1>1. Cardinality(ids) \in Nat /\ c \in Nat /\ c < Cardinality(ids)
  BY BelowBounded
<1>2. c + 1 \in 1 .. Cardinality(ids) /\ (c + 1) - 1 = c
  BY <1>1
<1>3. \A k \in ids : Cardinality(below(ids, k)) = c => k = i
  <2> SUFFICES ASSUME NEW k \in ids, Cardinality(below(ids, k)) = c, k # i PROVE FALSE
    OBVIOUS
  <2>1. i < k \/ k < i
    OBVIOUS
  <2>2. Cardinality(below(ids, k)) \in Nat
    BY BelowBounded
  <2>3. QED
    BY <2>1, <2>2, BelowGrows
<1> HIDE DEF c
<1>4. row_at(ids, c + 1) = CHOOSE k \in ids : Cardinality(below(ids, k)) = c
  BY <1>2 DEF row_at, below
<1>5. Cardinality(below(ids, i)) = c
  BY DEF c
<1>6. row_at(ids, c + 1) = i
  BY <1>3, <1>4, <1>5
<1>7. QED
  BY <1>2, <1>6

\* ... and each position its row.
LEMMA RowOfPosition ==
    ASSUME NEW ids \in SUBSET Nat, IsFiniteSet(ids), NEW n \in 1 .. Cardinality(ids)
    PROVE  row_at(ids, n) \in ids
<1>1. ASSUME \A i \in ids : Cardinality(below(ids, i)) # n - 1 PROVE FALSE
  <2> DEFINE places == (1 .. Cardinality(ids)) \ {n}
             f == [i \in ids |-> Cardinality(below(ids, i)) + 1]
  <2>1. Cardinality(ids) \in Nat
    BY FS_CardinalityType
  <2>2. f \in [ids -> places]
    <3>1. \A i \in ids : Cardinality(below(ids, i)) + 1 \in places
      <4> TAKE i \in ids
      <4>1. Cardinality(below(ids, i)) \in Nat /\ Cardinality(below(ids, i)) < Cardinality(ids)
        BY BelowBounded
      <4>2. Cardinality(below(ids, i)) # n - 1
        BY <1>1
      <4>3. QED
        BY <2>1, <4>1, <4>2
    <3>2. QED
      BY <3>1
  <2>3. IsFiniteSet(places) /\ Cardinality(places) = Cardinality(ids) - 1
    <3> DEFINE all == 1 .. Cardinality(ids)
    <3>1. IsFiniteSet(all) /\ Cardinality(all) = Cardinality(ids) /\ n \in all
      BY <2>1, FS_Interval
    <3>2. places = all \ {n}
      OBVIOUS
    <3> HIDE DEF all, places
    <3>3. QED
      BY <3>1, <3>2, FS_RemoveElement
  <2> HIDE DEF places, f
  <2>8. Cardinality(places) < Cardinality(ids)
    BY <2>1, <2>3
  <2>4. PICK x, y \in ids : x # y /\ f[x] = f[y]
    BY <2>2, <2>3, <2>8, FS_PigeonHole
  <2>5. Cardinality(below(ids, x)) = Cardinality(below(ids, y))
    <3>1. f[x] = Cardinality(below(ids, x)) + 1 /\ f[y] = Cardinality(below(ids, y)) + 1
      BY DEF f
    <3>2. Cardinality(below(ids, x)) \in Nat /\ Cardinality(below(ids, y)) \in Nat
      BY BelowBounded
    <3>3. \A a, b \in Nat : a + 1 = b + 1 => a = b
      OBVIOUS
    <3>4. Cardinality(below(ids, x)) + 1 = Cardinality(below(ids, y)) + 1
      BY <2>4, <3>1
    <3>5. QED
      BY <3>2, <3>3, <3>4
  <2>6. x < y \/ y < x
    BY <2>4
  <2>7. QED
    BY <2>5, <2>6, BelowGrows, BelowBounded
<1>2. PICK i \in ids : Cardinality(below(ids, i)) = n - 1
  BY <1>1
<1>3. row_at(ids, n) = CHOOSE k \in ids : Cardinality(below(ids, k)) = n - 1
  BY DEF row_at, below
<1>4. QED
  BY <1>2, <1>3

-----------------------------------------------------------------------------
(***************************************************************************)
(* The steps of the pipeline are steps of its processes and handlers.      *)
(***************************************************************************)
\* The credentials of uploading processes and the record a capture is about to
\* insert.
UploaderOK(p) ==
    /\ pc[p] \in {"fetch", "post", "wait", "count", "mark"} => cred[p] \in Key
    /\ pc[p] \in {"check", "insert"} =>
         /\ rec[p].key = cred[p]
         /\ ~rec[p].synced
         /\ rec[p].sig \in BoundedSignature \cup {None}

Uploaders ==
    /\ clock \in 0 .. MaxClock
    /\ \A p \in Proc : UploaderOK(p)

ConnType == conn \in [Handler -> Proc \cup {Nobody}]

LEMMA ClientMoves ==
    ASSUME ConnType, [PipelineNext]_pipeline_vars
    PROVE  [ClientNext]_client_vars
<1>1. ASSUME NEW p \in Proc, ClientStep(p) \/ Killed(p) \/ NoAnswer(p)
      PROVE  ClientNext
  BY <1>1 DEF ClientStep, Killed, NoAnswer, ClientNext
<1>2. ASSUME NEW p \in Proc, NEW n \in 1 .. FetchLimit,
             LoseRequest(p, n) \/ \E h \in Handler : Upload(p, n, h)
      PROVE  ClientNext
  BY <1>2 DEF LoseRequest, Upload, ClientNext
<1>3. ASSUME NEW h \in Handler, Answer(h) \/ AnswerCutOff(h) \/ Disconnect(h)
      PROVE  ClientNext
  <2>1. conn[h] \in Proc
    BY <1>3 DEF ConnType, Answer, AnswerCutOff, Disconnect
  <2>2. \/ AnswerUnparseable(conn[h])
        \/ AnswerError(conn[h])
        \/ AnswerSuccess(conn[h], rejected_rows(conn[h], h))
    BY <1>3 DEF Answer, AnswerCutOff, Disconnect
  <2>3. ASSUME NEW R, AnswerSuccess(conn[h], R) PROVE R \in SUBSET batch[conn[h]]
    BY <2>3 DEF AnswerSuccess
  <2>4. QED
    BY <2>1, <2>2, <2>3 DEF ClientNext
<1>4. ASSUME NEW h \in Handler, HandlerStep(h) \/ ServerStops(h) \/ ReplyToNobody(h)
      PROVE  UNCHANGED client_vars
  BY <1>4 DEF HandlerStep, ServerStops, ReplyToNobody
<1>5. CASE UserStep
  BY <1>5 DEF UserStep, ClientNext
<1>6. CASE UNCHANGED pipeline_vars
  BY <1>6 DEF pipeline_vars
<1>7. QED
  BY <1>1, <1>2, <1>3, <1>4, <1>5, <1>6 DEF PipelineNext

\* What a process uploads are edits with their original text.
LEMMA PayloadIsWire ==
    ASSUME ClientInv, NEW p \in Proc, NEW ids \in SUBSET DOMAIN fetched[p]
    PROVE  /\ payload(p, ids) \in Seq(IngestProofs!WireEdit)
           /\ Cardinality(ids) \in Nat
           /\ \A n \in 1 .. Cardinality(ids) :
                /\ row_at(ids, n) \in ids
                /\ payload(p, ids)[n] = wire(fetched[p][row_at(ids, n)])
<1>1. ids \in SUBSET Nat /\ IsFiniteSet(ids) /\ Cardinality(ids) \in Nat
  <2>1. next_id \in Nat /\ ids \subseteq 1 .. next_id - 1
    BY InvParts DEF TableInv, HeldInv
  <2>2. 1 \in Int /\ next_id - 1 \in Int /\ 1 .. next_id - 1 \subseteq Nat
    BY <2>1
  <2>3. IsFiniteSet(1 .. next_id - 1)
    BY <2>2, FS_Interval
  <2>4. IsFiniteSet(ids)
    BY <2>1, <2>3, FS_Subset
  <2>5. QED
    BY <2>1, <2>2, <2>4, FS_CardinalityType
<1>2. ASSUME NEW i \in ids PROVE wire(fetched[p][i]) \in IngestProofs!WireEdit
  <2>1. /\ fetched[p][i] \in Row
        /\ fetched[p][i].event.diff # Marker /\ fetched[p][i].event.meta # Marker
    BY InvParts DEF HeldInv, UploadsOriginalText
  <2>2. /\ fetched[p][i].event \in [tool : Tool, path : Path, diff : Diff, meta : Meta]
        /\ fetched[p][i].repo \in Repo /\ fetched[p][i].ts \in Nat
        /\ fetched[p][i].sig \in Signature \cup {None}
    BY <2>1 DEF Row
  <2>3. QED
    BY <2>2 DEF wire, IngestProofs!WireEdit, IngestProofs!Signature, Signature,
       Tool, Path, Diff, Meta, Url, Sha, IngestProofs!Tool, IngestProofs!Path,
       IngestProofs!Diff, IngestProofs!Meta, IngestProofs!Url, IngestProofs!Sha
<1>3. \A n \in 1 .. Cardinality(ids) : row_at(ids, n) \in ids
  BY <1>1, RowOfPosition
<1>4. payload(p, ids) \in [1 .. Cardinality(ids) -> IngestProofs!WireEdit]
  BY <1>2, <1>3 DEF payload
<1>5. payload(p, ids) \in Seq(IngestProofs!WireEdit)
  BY <1>1, <1>4
<1>6. QED
  BY <1>1, <1>3, <1>5 DEF payload

LEMMA ServerMoves ==
    ASSUME ClientInv, Uploaders, [PipelineNext]_pipeline_vars
    PROVE  [IngestProofs!OpenNext]_(IngestProofs!ingest_vars)
<1> USE DEF server_vars
<1>1. ASSUME NEW p \in Proc, ClientStep(p) \/ Killed(p) \/ NoAnswer(p)
      PROVE  UNCHANGED IngestProofs!ingest_vars
  <2>1. clock' = clock
    BY <1>1 DEF ClientStep, Killed, NoAnswer, Start, Run, Capture, StartSync, CheckDup,
       InsertRow, InsertFails, Backfill, SkipFlush, Fetch, CountRejected, MarkBatch,
       Prune, Crash, AnswerError
  <2>2. UNCHANGED server_vars
    BY <1>1 DEF ClientStep, Killed, NoAnswer
  <2>3. QED
    BY <2>1, <2>2 DEF IngestProofs!ingest_vars
<1>2. ASSUME NEW p \in Proc, NEW n \in 1 .. FetchLimit, LoseRequest(p, n)
      PROVE  UNCHANGED IngestProofs!ingest_vars
  BY <1>2 DEF LoseRequest, Post, IngestProofs!ingest_vars
<1>3. ASSUME NEW p \in Proc, NEW n \in 1 .. FetchLimit, NEW h \in Handler, Upload(p, n, h)
      PROVE  IngestProofs!OpenNext
  <2>1. cred[p] \in Key
    BY <1>3 DEF Upload, Post, Uploaders, UploaderOK
  <2>2. batch'[p] = oldest(DOMAIN fetched[p], n)
    BY <1>3, InvParts DEF Upload, Post, ControlInv
  <2>3. batch'[p] \in SUBSET DOMAIN fetched[p]
    BY <2>2 DEF oldest
  <2>4. payload(p, batch'[p]) \in Seq(IngestProofs!WireEdit)
    BY <2>3, PayloadIsWire
  <2>5. IngestProofs!Receive(h, cred[p], payload(p, batch'[p]))
    BY <1>3, SameReceive DEF Upload
  <2>6. IngestProofs!AnyRequest(h)
    BY <2>1, <2>4, <2>5 DEF IngestProofs!AnyRequest
  <2>7. QED
    BY <2>6 DEF IngestProofs!OpenNext
<1>4. ASSUME NEW h \in Handler,
             HandlerStep(h) \/ ServerStops(h) \/ Answer(h) \/ AnswerCutOff(h)
               \/ ReplyToNobody(h)
      PROVE  IngestProofs!OpenNext
  <2>1. IngestProofs!Work(h) \/ IngestProofs!Reply(h) \/ IngestProofs!Abort(h)
    BY <1>4, SameWork, SameReply
       DEF HandlerStep, ServerStops, Answer, AnswerCutOff, ReplyToNobody
  <2>2. QED
    BY <2>1 DEF IngestProofs!OpenNext
<1>5. ASSUME NEW h \in Handler, Disconnect(h)
      PROVE  UNCHANGED IngestProofs!ingest_vars
  BY <1>5 DEF Disconnect, AnswerError, IngestProofs!ingest_vars
<1>6. CASE UserStep
  <2>1. Clean => UNCHANGED IngestProofs!ingest_vars
    BY <1>6 DEF UserStep, Clean, IngestProofs!ingest_vars
  <2>2. Tick => IngestProofs!TickNow
    BY <1>6 DEF UserStep, Tick, IngestProofs!TickNow, IngestProofs!request_vars,
                IngestProofs!response_vars
  <2>3. QED
    BY <1>6, <2>1, <2>2 DEF UserStep, IngestProofs!OpenNext
<1>7. CASE UNCHANGED pipeline_vars
  BY <1>7 DEF pipeline_vars, client_vars, IngestProofs!ingest_vars
<1>8. QED
  BY <1>1, <1>2, <1>3, <1>4, <1>5, <1>6, <1>7 DEF PipelineNext

-----------------------------------------------------------------------------
(***************************************************************************)
(* The inductive invariant of the pipeline.                                *)
(***************************************************************************)
\* A connection joins a process that waits to a handler that works on the batch
\* the process has open, and a process waits for one handler.
Connected ==
    /\ ConnType
    /\ \A h \in Handler : conn[h] # Nobody =>
         /\ pc[conn[h]] = "wait"
         /\ hpc[h] # "idle"
         /\ edits[h] = payload(conn[h], batch[conn[h]])
    /\ \A g, h \in Handler : conn[g] # Nobody /\ conn[g] = conn[h] => g = h

\* Whatever signature there is anywhere was computed by a capture.
SignaturesKnown ==
    /\ row_sigs(rows) \subseteq signed
    /\ \A p \in Proc : row_sigs(fetched[p]) \subseteq signed
    /\ \A h \in Handler : \A n \in DOMAIN edits[h] :
         edits[h][n].sig \in signed \cup {None}
    /\ stored_sigs \subseteq signed

\* The server stores what it does not reject and says so: no retention error
\* comes as index -1 and no answer is cut off.
Reliable == {"retain", "cut"} \cap Fault = {}

\* What a process is about to mark, and what is marked, is on the server.
Delivered ==
    /\ \A p \in Proc : pc[p] \in {"count", "mark"} =>
         \A i \in batch[p] \ rejected[p] : fetched[p][i].sig \in stored_sigs
    /\ SyncedIsStored

PipelineInv ==
    /\ ClientInv
    /\ IngestProofs!IngestInv
    /\ Uploaders
    /\ Connected
    /\ SignaturesKnown
    /\ Reliable => Delivered

-----------------------------------------------------------------------------
LEMMA CaptureSigns ==
    ASSUME NEW e \in Event, NEW c \in Repo, NEW k \in Key \cup {None},
           NEW ts \in 0 .. MaxClock
    PROVE  LET r == new_record(e, c, k, ts)
           IN  r.key = k /\ ~r.synced /\ r.sig \in BoundedSignature \cup {None}
<1>1. k # None => compute_record_sig(k, ts, e, c) \in BoundedSignature
  BY DEF compute_record_sig, BoundedSignature, Tool, Path, Diff, Url, Sha
<1>2. QED
  BY <1>1 DEF new_record

LEMMA UploadersStep ==
    ASSUME ClientInv, Uploaders, [ClientNext]_client_vars
    PROVE  Uploaders'
<1>1. /\ pc \in [Proc -> PC] /\ rec \in [Proc -> Row \cup {None}]
      /\ cred \in [Proc -> Key \cup {None}]
      /\ clock \in 0 .. MaxClock /\ \A q \in Proc : UploaderOK(q)
  BY InvParts DEF ControlInv, Uploaders
<1> DEFINE kept(p) == \A q \in Proc \ {p} : pc'[q] = pc[q] /\ rec'[q] = rec[q] /\ cred'[q] = cred[q]
<1>2. ASSUME NEW p \in Proc, NEW e \in Event, NEW c \in Repo, NEW k \in Key \cup {None},
             Capture(p, e, c, k)
      PROVE  clock' = clock /\ kept(p) /\ UploaderOK(p)'
  <2>1. /\ clock' = clock /\ kept(p)
        /\ pc'[p] = "check" /\ cred'[p] = k /\ rec'[p] = new_record(e, c, k, clock)
    BY <1>1, <1>2 DEF Capture, goto
  <2>2. QED
    BY <1>1, <2>1, CaptureSigns DEF UploaderOK
<1>3. ASSUME NEW p \in Proc, NEW k \in Key, StartSync(p, k)
      PROVE  clock' = clock /\ kept(p) /\ UploaderOK(p)'
  BY <1>1, <1>3 DEF StartSync, goto, UploaderOK
<1>4. ASSUME NEW p \in Proc, CheckDup(p)
      PROVE  clock' = clock /\ kept(p) /\ UploaderOK(p)'
  <2>1. after_insert(rec[p], FALSE) \in {"fill_dup", "prune"}
    BY DEF after_insert
  <2>2. /\ clock' = clock /\ kept(p) /\ rec'[p] = rec[p] /\ cred'[p] = cred[p]
        /\ pc[p] = "check" /\ pc'[p] \in {"insert", "fill_dup", "prune"}
    BY <1>1, <1>4, <2>1 DEF CheckDup, goto
  <2>3. QED
    BY <1>1, <2>2 DEF UploaderOK
<1>5. ASSUME NEW p \in Proc, InsertRow(p)
      PROVE  clock' = clock /\ kept(p) /\ UploaderOK(p)'
  <2>1. /\ clock' = clock /\ kept(p) /\ rec'[p] = rec[p] /\ cred'[p] = cred[p]
        /\ pc[p] = "insert" /\ pc'[p] = after_insert(rec[p], TRUE)
    BY <1>1, <1>5 DEF InsertRow, goto
  <2>2. rec[p].key = cred[p] /\ cred[p] \in Key \cup {None}
    BY <1>1, <2>1 DEF UploaderOK
  <2>3. /\ pc'[p] \in {"fill", "fetch", "prune"}
        /\ pc'[p] = "fetch" => cred[p] # None
    BY <2>1, <2>2 DEF after_insert
  <2>4. QED
    BY <2>1, <2>2, <2>3 DEF UploaderOK
<1>6. ASSUME NEW p \in Proc, InsertFails(p) \/ Prune(p) \/ Crash(p)
      PROVE  clock' = clock /\ kept(p) /\ UploaderOK(p)'
  BY <1>1, <1>6 DEF InsertFails, Prune, Crash, end_process, goto, UploaderOK
<1>7. ASSUME NEW p \in Proc, Backfill(p)
      PROVE  clock' = clock /\ kept(p) /\ UploaderOK(p)'
  BY <1>1, <1>7 DEF Backfill, goto, UploaderOK
<1>8. ASSUME NEW p \in Proc, SkipFlush(p) \/ Fetch(p) \/ CountRejected(p) \/ \E n : Post(p, n)
      PROVE  clock' = clock /\ kept(p) /\ UploaderOK(p)'
  BY <1>1, <1>8 DEF SkipFlush, Fetch, CountRejected, Post, goto, UploaderOK
<1>9. ASSUME NEW p \in Proc,
             AnswerUnparseable(p) \/ AnswerError(p) \/ MarkBatch(p)
               \/ \E R : AnswerSuccess(p, R)
      PROVE  clock' = clock /\ kept(p) /\ UploaderOK(p)'
  BY <1>1, <1>9 DEF AnswerUnparseable, AnswerError, MarkBatch, settle, AnswerSuccess, goto,
                    UploaderOK
<1>10. ASSUME NEW p \in Proc, clock' = clock, kept(p), UploaderOK(p)'
       PROVE  Uploaders'
  BY <1>1, <1>10 DEF Uploaders, UploaderOK
<1>11. CASE Clean \/ UNCHANGED client_vars
  BY <1>1, <1>11 DEF Clean, client_vars, Uploaders, UploaderOK
<1>12. CASE Tick
  <2>1. clock' \in 0 .. MaxClock /\ UNCHANGED <<pc, rec, cred>>
    BY <1>1, <1>12, PipelineAssumption DEF Tick
  <2>2. QED
    BY <1>1, <2>1 DEF Uploaders, UploaderOK
<1> HIDE DEF kept
<1>13. QED
  BY <1>2, <1>3, <1>4, <1>5, <1>6, <1>7, <1>8, <1>9, <1>10, <1>11, <1>12
     DEF ClientNext, Start, Run

-----------------------------------------------------------------------------
\* A process acts on its own state and the table only.
LEMMA ProcessAlone ==
    ASSUME ClientInv, NEW p \in Proc,
           \/ Start(p) \/ Run(p) \/ Crash(p) \/ AnswerUnparseable(p) \/ AnswerError(p)
           \/ (\E n : Post(p, n)) \/ (\E R : AnswerSuccess(p, R)),
           NEW q \in Proc \ {p}
    PROVE  /\ pc'[q] = pc[q] /\ fetched'[q] = fetched[q]
           /\ batch'[q] = batch[q] /\ rejected'[q] = rejected[q]
<1>1. /\ pc \in [Proc -> PC] /\ DOMAIN fetched = Proc
      /\ batch \in [Proc -> SUBSET Nat] /\ rejected \in [Proc -> SUBSET Nat]
  BY InvParts DEF ControlInv
<1>2. ASSUME Start(p) \/ CheckDup(p) \/ InsertRow(p) \/ InsertFails(p) \/ Backfill(p)
               \/ SkipFlush(p) \/ Fetch(p) \/ CountRejected(p)
      PROVE  /\ pc'[q] = pc[q] /\ fetched'[q] = fetched[q]
             /\ batch' = batch /\ rejected' = rejected
  BY <1>1, <1>2 DEF Start, Capture, StartSync, CheckDup, InsertRow, InsertFails, Backfill,
     SkipFlush, Fetch, CountRejected, goto
<1>3. ASSUME Crash(p) \/ Prune(p)
      PROVE  /\ pc'[q] = pc[q] /\ fetched'[q] = fetched[q]
             /\ batch'[q] = batch[q] /\ rejected'[q] = rejected[q]
  BY <1>1, <1>3 DEF Crash, Prune, end_process, goto
<1>4. ASSUME AnswerError(p) \/ MarkBatch(p)
      PROVE  /\ pc'[q] = pc[q] /\ fetched'[q] = fetched[q]
             /\ batch'[q] = batch[q] /\ rejected'[q] = rejected[q]
  BY <1>1, <1>4 DEF AnswerError, MarkBatch, settle, goto
<1>5. ASSUME AnswerUnparseable(p) \/ (\E n : Post(p, n)) \/ (\E R : AnswerSuccess(p, R))
      PROVE  /\ pc'[q] = pc[q] /\ fetched'[q] = fetched[q]
             /\ batch'[q] = batch[q] /\ rejected'[q] = rejected[q]
  BY <1>1, <1>5 DEF AnswerUnparseable, Post, AnswerSuccess, goto
<1>6. QED
  BY <1>2, <1>3, <1>4, <1>5 DEF Run

\* Where a process is when it acts.
LEMMA ProcessPlace ==
    ASSUME NEW p \in Proc
    PROVE  /\ Start(p) \/ Run(p) \/ (\E n : Post(p, n)) => pc[p] # "wait"
           /\ AnswerUnparseable(p) \/ AnswerError(p) \/ (\E R : AnswerSuccess(p, R))
                => pc[p] = "wait"
BY DEF Start, Capture, StartSync, Run, CheckDup, InsertRow, InsertFails, Backfill, SkipFlush,
   Fetch, CountRejected, MarkBatch, Prune, Post, AnswerUnparseable, AnswerError, AnswerSuccess

LEMMA ServerTyped ==
    ASSUME IngestProofs!IngestInv
    PROVE  /\ hpc \in [Handler -> IngestProofs!HPC]
           /\ edits \in [Handler -> Seq(IngestProofs!WireEdit)]
           /\ at \in [Handler -> Nat \ {0}]
           /\ s_rejected \in [Handler -> SUBSET (Nat \cup {IngestProofs!RetentionIndex})]
BY DEF IngestProofs!IngestInv, IngestProofs!BaseInv, IngestProofs!StatusType,
       IngestProofs!RequestType, IngestProofs!ResponseType

\* A handler at work keeps its request and stays busy.
LEMMA WorkStays ==
    ASSUME IngestProofs!IngestInv, NEW h \in Handler, IngestProofs!Work(h)
    PROVE  /\ edits' = edits
           /\ hpc'[h] # "idle"
           /\ \A g \in Handler \ {h} : hpc'[g] = hpc[g]
<1>1. hpc \in [Handler -> IngestProofs!HPC]
  BY ServerTyped
<1>2. ASSUME IngestProofs!next_edit(h)
      PROVE  hpc'[h] # "idle" /\ \A g \in Handler \ {h} : hpc'[g] = hpc[g]
  BY <1>1, <1>2 DEF IngestProofs!next_edit
<1>3. ASSUME IngestProofs!RejectEdit(h) \/ IngestProofs!SaveEdit(h) \/ IngestProofs!SaveFails(h)
      PROVE  IngestProofs!next_edit(h) /\ edits' = edits
  BY <1>3 DEF IngestProofs!RejectEdit, IngestProofs!SaveEdit, IngestProofs!SaveFails,
              IngestProofs!request_vars
<1>4. ASSUME \/ IngestProofs!AdmitEdit(h, FALSE) \/ IngestProofs!AdmitEdit(h, TRUE)
             \/ IngestProofs!StripOld(h) \/ IngestProofs!StripOverflow(h)
             \/ IngestProofs!RetentionFails(h)
      PROVE  /\ edits' = edits /\ hpc'[h] # "idle"
             /\ \A g \in Handler \ {h} : hpc'[g] = hpc[g]
  BY <1>1, <1>4 DEF IngestProofs!AdmitEdit, IngestProofs!StripOld,
     IngestProofs!StripOverflow, IngestProofs!RetentionFails, IngestProofs!request_vars
<1>5. QED
  BY <1>2, <1>3, <1>4 DEF IngestProofs!Work

\* A request that ends concerns its own handler only.
LEMMA EndStays ==
    ASSUME IngestProofs!IngestInv, NEW h \in Handler, IngestProofs!end_request(h),
           NEW g \in Handler \ {h}
    PROVE  edits'[g] = edits[g] /\ hpc'[g] = hpc[g]
BY ServerTyped DEF IngestProofs!end_request

\* A connection that stays as it was.
stays(g) ==
    /\ conn'[g] = conn[g]
    /\ conn[g] # Nobody =>
         /\ pc'[conn[g]] = pc[conn[g]]
         /\ fetched'[conn[g]] = fetched[conn[g]]
         /\ batch'[conn[g]] = batch[conn[g]]
         /\ hpc'[g] # "idle"
         /\ edits'[g] = edits[g]

LEMMA ConnectedStays ==
    ASSUME Connected, conn' \in [Handler -> Proc \cup {Nobody}],
           \A g \in Handler : conn'[g] = Nobody \/ stays(g)
    PROVE  Connected'
<1>1. ASSUME NEW h \in Handler, conn'[h] # Nobody
      PROVE  /\ stays(h) /\ pc'[conn'[h]] = "wait" /\ hpc'[h] # "idle"
             /\ edits'[h] = payload(conn[h], batch[conn[h]])
  BY <1>1 DEF Connected, stays
<1>2. ASSUME NEW h \in Handler, conn'[h] # Nobody
      PROVE  edits'[h] = payload(conn[h], batch[conn[h]])'
  <2>1. /\ conn'[h] = conn[h] /\ batch'[conn[h]] = batch[conn[h]]
        /\ fetched'[conn[h]] = fetched[conn[h]]
        /\ edits'[h] = payload(conn[h], batch[conn[h]])
    BY <1>1, <1>2 DEF stays
  <2>2. QED
    BY <2>1 DEF payload
<1>3. \A g, h \in Handler : conn'[g] # Nobody /\ conn'[g] = conn'[h] => g = h
  BY <1>1 DEF Connected, stays
<1>4. QED
  BY <1>1, <1>2, <1>3 DEF Connected, ConnType

LEMMA ConnectedStep ==
    ASSUME ClientInv, IngestProofs!IngestInv, Connected, [PipelineNext]_pipeline_vars
    PROVE  Connected'
<1> DEFINE typed == conn' \in [Handler -> Proc \cup {Nobody}]
           kept == \A g \in Handler : conn'[g] = Nobody \/ stays(g)
<1>1. /\ conn \in [Handler -> Proc \cup {Nobody}]
      /\ \A g \in Handler : conn[g] # Nobody =>
           conn[g] \in Proc /\ pc[conn[g]] = "wait" /\ hpc[g] # "idle"
      /\ Nobody \notin Proc
  BY PipelineAssumption DEF Connected, ConnType, Nobody
<1> DEFINE alone(p) == \A g \in Handler : conn[g] # Nobody /\ conn[g] # p =>
                         /\ pc'[conn[g]] = pc[conn[g]]
                         /\ fetched'[conn[g]] = fetched[conn[g]]
                         /\ batch'[conn[g]] = batch[conn[g]]
<1>2. ASSUME NEW p \in Proc,
             \/ Start(p) \/ Run(p) \/ Crash(p) \/ AnswerUnparseable(p) \/ AnswerError(p)
             \/ (\E n : Post(p, n)) \/ (\E R : AnswerSuccess(p, R))
      PROVE  alone(p)
  BY <1>1, <1>2, ProcessAlone
<1>3. ASSUME NEW p \in Proc, ClientStep(p) \/ \E n : LoseRequest(p, n) PROVE Connected'
  <2>1. alone(p) /\ \A g \in Handler : conn[g] # p
    BY <1>1, <1>2, <1>3, ProcessPlace DEF ClientStep, LoseRequest
  <2>2. conn' = conn /\ hpc' = hpc /\ edits' = edits
    BY <1>3 DEF ClientStep, LoseRequest, server_vars
  <2>3. typed /\ kept
    BY <1>1, <2>1, <2>2 DEF stays
  <2>4. QED
    BY <2>3, ConnectedStays
<1>4. ASSUME NEW p \in Proc, Killed(p) PROVE Connected'
  <2>1. alone(p) /\ hpc' = hpc /\ edits' = edits
    BY <1>2, <1>4 DEF Killed, server_vars
  <2>2. conn' = [h \in Handler |-> IF conn[h] = p THEN Nobody ELSE conn[h]]
    BY <1>4 DEF Killed
  <2>3. typed /\ kept
    BY <1>1, <2>1, <2>2 DEF stays
  <2>4. QED
    BY <2>3, ConnectedStays
<1>5. ASSUME NEW p \in Proc, NoAnswer(p) PROVE Connected'
  <2>1. alone(p) /\ \A g \in Handler : conn[g] # p
    BY <1>2, <1>5 DEF NoAnswer
  <2>2. conn' = conn /\ hpc' = hpc /\ edits' = edits
    BY <1>5 DEF NoAnswer, server_vars
  <2>3. typed /\ kept
    BY <1>1, <2>1, <2>2 DEF stays
  <2>4. QED
    BY <2>3, ConnectedStays
<1>6. ASSUME NEW p \in Proc, NEW n, NEW h \in Handler, Upload(p, n, h) PROVE Connected'
  <2>1. alone(p) /\ (\A g \in Handler : conn[g] # p) /\ Post(p, n)
    BY <1>1, <1>2, <1>6, ProcessPlace DEF Upload
  <2>2. pc'[p] = "wait" /\ fetched' = fetched
    BY <2>1, InvParts DEF Post, goto, ControlInv
  <2>3. IngestProofs!Receive(h, cred[p], payload(p, batch'[p]))
    BY <1>6, SameReceive DEF Upload
  <2>4. /\ hpc[h] = "idle" /\ hpc'[h] = "validate" /\ edits'[h] = payload(p, batch'[p])
        /\ \A g \in Handler \ {h} : hpc'[g] = hpc[g] /\ edits'[g] = edits[g]
    BY <2>3, ServerTyped DEF IngestProofs!Receive
  <2>5. conn' = [conn EXCEPT ![h] = p]
    BY <1>6 DEF Upload
  <2>6. typed /\ conn'[h] = p /\ \A g \in Handler \ {h} : stays(g) /\ conn'[g] # p
    BY <1>1, <2>1, <2>4, <2>5 DEF stays
  <2>7. edits'[h] = payload(p, batch[p])'
    BY <2>2, <2>4 DEF payload
  <2>8. \A g \in Handler : conn'[g] # Nobody =>
          pc'[conn'[g]] = "wait" /\ hpc'[g] # "idle"
            /\ edits'[g] = payload(conn[g], batch[conn[g]])'
    <3> TAKE g \in Handler
    <3>1. CASE g = h
      BY <2>2, <2>4, <2>6, <2>7, <3>1 DEF payload
    <3>2. CASE g # h /\ conn[g] # Nobody
      BY <1>1, <2>6, <3>2 DEF stays, payload, Connected
    <3>3. CASE g # h /\ conn[g] = Nobody
      BY <2>6, <3>3 DEF stays
    <3>4. QED
      BY <3>1, <3>2, <3>3
  <2>9. \A g, k \in Handler : conn'[g] # Nobody /\ conn'[g] = conn'[k] => g = k
    BY <2>6 DEF stays, Connected
  <2>10. QED
    BY <2>6, <2>8, <2>9 DEF Connected, ConnType
<1>7. ASSUME NEW h \in Handler, HandlerStep(h) PROVE Connected'
  <2>1. UNCHANGED client_vars /\ conn' = conn
    BY <1>7 DEF HandlerStep
  <2>2. IngestProofs!Work(h)
    BY <1>7, SameWork DEF HandlerStep
  <2>3. edits' = edits /\ hpc'[h] # "idle" /\ \A g \in Handler \ {h} : hpc'[g] = hpc[g]
    BY <2>2, WorkStays
  <2>4. typed /\ kept
    BY <1>1, <2>1, <2>3 DEF stays, client_vars
  <2>5. QED
    BY <2>4, ConnectedStays
<1>8. ASSUME NEW h \in Handler, IngestProofs!end_request(h)
      PROVE  \A g \in Handler \ {h} : edits'[g] = edits[g] /\ hpc'[g] = hpc[g]
  BY <1>8, EndStays
<1>9. ASSUME NEW h \in Handler, ServerStops(h) \/ ReplyToNobody(h) PROVE Connected'
  <2>1. UNCHANGED client_vars
    BY <1>9 DEF ServerStops, ReplyToNobody
  <2>2. IngestProofs!end_request(h)
    BY <1>9, SameReply DEF ServerStops, ReplyToNobody, IngestProofs!Abort, IngestProofs!Reply
  <2>3. conn' = [conn EXCEPT ![h] = Nobody]
    BY <1>1, <1>9 DEF ServerStops, ReplyToNobody
  <2>4. typed /\ kept
    BY <1>1, <1>8, <2>1, <2>2, <2>3 DEF stays, client_vars
  <2>5. QED
    BY <2>4, ConnectedStays
<1>10. ASSUME NEW h \in Handler, Answer(h) \/ AnswerCutOff(h) \/ Disconnect(h) PROVE Connected'
  <2>1. /\ conn[h] \in Proc
        /\ \/ AnswerUnparseable(conn[h]) \/ AnswerError(conn[h])
           \/ \E R : AnswerSuccess(conn[h], R)
        /\ conn' = [conn EXCEPT ![h] = Nobody]
    BY <1>1, <1>10 DEF Answer, AnswerCutOff, Disconnect, hang_up
  <2>2. alone(conn[h]) /\ \A g \in Handler \ {h} : conn[g] = conn[h] => conn[g] = Nobody
    BY <1>2, <2>1 DEF Connected
  <2>3. IngestProofs!end_request(h) \/ (edits' = edits /\ hpc' = hpc)
    BY <1>10, SameReply DEF Answer, AnswerCutOff, Disconnect, server_vars, IngestProofs!Reply
  <2>4. \A g \in Handler \ {h} : edits'[g] = edits[g] /\ hpc'[g] = hpc[g]
    BY <1>8, <2>3
  <2>5. typed /\ kept
    BY <1>1, <2>1, <2>2, <2>4 DEF stays
  <2>6. QED
    BY <2>5, ConnectedStays
<1>11. CASE UserStep \/ UNCHANGED pipeline_vars
  <2>1. UNCHANGED <<pc, fetched, batch, conn, hpc, edits>>
    BY <1>11 DEF UserStep, Clean, Tick, pipeline_vars, client_vars, server_vars
  <2>2. typed /\ kept
    BY <1>1, <2>1 DEF stays
  <2>3. QED
    BY <2>2, ConnectedStays
<1> HIDE DEF typed, kept, alone
<1>12. QED
  BY <1>3, <1>4, <1>5, <1>6, <1>7, <1>9, <1>10, <1>11 DEF PipelineNext

-----------------------------------------------------------------------------
(***************************************************************************)
(* Signatures.                                                             *)
(***************************************************************************)
\* A statement other than INSERT brings no signature.
LEMMA DescendantSigs ==
    ASSUME NEW t, NEW u, Descends(t, u)
    PROVE  row_sigs(u) \subseteq row_sigs(t)
BY DEF row_sigs, Descends, Succeeds, SameRecord

\* The INSERT brings the signature of the record, if it has one.
LEMMA InsertSigs ==
    ASSUME ClientInv, NEW p \in Proc, InsertRow(p)
    PROVE  row_sigs(rows') = row_sigs(rows) \cup ({rec[p].sig} \ {None})
<1>1. next_id \notin DOMAIN rows /\ rows' = insert_row(rows, next_id, rec[p])
  BY InvParts DEF TableInv, InsertRow
<1>2. /\ DOMAIN rows' = DOMAIN rows \cup {next_id} /\ rows'[next_id] = rec[p]
      /\ \A i \in DOMAIN rows : rows'[i] = rows[i]
  BY <1>1 DEF insert_row
<1>3. QED
  BY <1>2 DEF row_sigs

\* What a process holds it held before or reads from the table.
LEMMA HeldSigs ==
    ASSUME ClientInv, [ClientNext]_client_vars, NEW q \in Proc
    PROVE  row_sigs(fetched'[q]) \subseteq row_sigs(fetched[q]) \cup row_sigs(rows)
<1>1. ControlInv /\ DOMAIN fetched = Proc
  BY InvParts DEF ControlInv
<1>2. CASE HeldShrinks
  BY <1>2 DEF HeldShrinks, row_sigs
<1>3. ASSUME NEW p \in Proc, Fetch(p)
      PROVE  row_sigs(fetched'[q]) \subseteq row_sigs(fetched[q]) \cup row_sigs(rows)
  <2>1. CASE q = p
    <3>1. fetched'[q] = fetch_unsynced(rows, cred[p])
      BY <1>1, <1>3, <2>1 DEF Fetch
    <3>2. \A i \in DOMAIN fetched'[q] : i \in DOMAIN rows /\ fetched'[q][i] = rows[i]
      BY <3>1, FetchReads
    <3>3. QED
      BY <3>2 DEF row_sigs
  <2>2. CASE q # p
    BY <1>1, <1>3, <2>2 DEF Fetch
  <2>3. QED
    BY <2>1, <2>2
<1>4. ASSUME NEW p \in Proc, AnswerError(p) \/ MarkBatch(p) PROVE HeldShrinks
  BY <1>4, SettleStep DEF AnswerError, MarkBatch
<1>5. ASSUME NEW p \in Proc, Prune(p) \/ Crash(p) PROVE HeldShrinks
  BY <1>5, EndStep DEF Prune, Crash
<1>6. fetched' = fetched => HeldShrinks
  BY DEF HeldShrinks
<1>7. \/ fetched' = fetched
      \/ \E p \in Proc : \/ Fetch(p) \/ AnswerError(p) \/ MarkBatch(p) \/ Prune(p) \/ Crash(p)
  BY DEF ClientNext, client_vars, Start, Run, Capture, StartSync, CheckDup, InsertRow,
     InsertFails, Backfill, SkipFlush, CountRejected, Post, AnswerSuccess,
     AnswerUnparseable, Clean, Tick
<1>8. QED
  BY <1>2, <1>3, <1>4, <1>5, <1>6, <1>7

\* The signatures of the table are recorded in the step that brings them.
LEMMA SignedGrows ==
    ASSUME ClientInv, SignaturesKnown, ConnType, [PipelineNext]_pipeline_vars
    PROVE  /\ signed \subseteq signed'
           /\ row_sigs(rows') \subseteq signed'
           /\ \/ signed' = signed
              \/ \E p \in Proc : /\ InsertRow(p) /\ UNCHANGED server_vars
                                 /\ signed' = signed \cup ({rec[p].sig} \ {None})
<1>1. Typed(rows) /\ row_sigs(rows) \subseteq signed
  BY InvTyped DEF SignaturesKnown
<1>2. Descends(rows, rows') => row_sigs(rows') \subseteq signed
  BY <1>1, DescendantSigs
<1>3. rows' = rows => Descends(rows, rows')
  BY <1>1, DescendsReflexive
<1>4. ASSUME NEW p \in Proc, ClientStep(p)
      PROVE  /\ signed \subseteq signed' /\ row_sigs(rows') \subseteq signed'
             /\ signed' = signed
                  \/ (/\ InsertRow(p) /\ UNCHANGED server_vars
                      /\ signed' = signed \cup ({rec[p].sig} \ {None}))
  <2>1. /\ signed' = signed \cup row_sigs(rows')
        /\ Start(p) \/ Run(p)
        /\ UNCHANGED server_vars
    BY <1>4 DEF ClientStep, keep_signed
  <2>2. CASE InsertRow(p)
    BY <1>1, <2>1, <2>2, InsertSigs
  <2>3. CASE Descends(rows, rows')
    BY <1>2, <2>1, <2>3
  <2>4. CASE rows' = rows
    BY <1>2, <1>3, <2>1, <2>4
  <2>5. CASE Backfill(p) \/ CountRejected(p) \/ MarkBatch(p) \/ Prune(p)
    <3>1. Descends(rows, rows')
      <4>1. CASE Backfill(p)
        <5>1. rows' = rows \/ \E c \in Repo : rows' = backfill_repo_info(rows, c, cred[p])
          BY <2>5, <4>1, InvParts DEF Backfill, ControlInv, RecordInHand, Row
        <5>2. QED
          BY <1>1, <1>3, <5>1, BackfillDescends
      <4>2. CASE CountRejected(p) \/ MarkBatch(p) \/ Prune(p)
        BY <1>1, <4>2, IncrementDescends, MarkDescends, PruneDescends
           DEF CountRejected, MarkBatch, Prune
      <4>3. QED
        BY <2>5, <4>1, <4>2
    <3>2. QED
      BY <2>3, <3>1
  <2>6. QED
    BY <2>1, <2>2, <2>4, <2>5 DEF Start, Run, Capture, StartSync, CheckDup, InsertFails,
                                  SkipFlush, Fetch
<1>5. ASSUME NEW p \in Proc,
             Killed(p) \/ NoAnswer(p) \/ (\E n : LoseRequest(p, n) \/ \E h : Upload(p, n, h))
      PROVE  signed' = signed /\ Descends(rows, rows')
  BY <1>1, <1>3, <1>5, IncrementDescends
     DEF Killed, NoAnswer, LoseRequest, Upload, Crash, Post, AnswerError
<1>6. ASSUME NEW h \in Handler,
             \/ HandlerStep(h) \/ ServerStops(h)
             \/ Answer(h) \/ AnswerCutOff(h) \/ Disconnect(h) \/ ReplyToNobody(h)
      PROVE  signed' = signed /\ Descends(rows, rows')
  BY <1>1, <1>3, <1>6, IncrementDescends
     DEF HandlerStep, ServerStops, Answer, AnswerCutOff, Disconnect, ReplyToNobody, client_vars,
         AnswerSuccess, AnswerUnparseable, AnswerError
<1>7. CASE UserStep \/ UNCHANGED pipeline_vars
  <2>1. signed' = signed /\ Descends(rows, rows')
    BY <1>1, <1>3, <1>7, CleanDescends, NoRowsDescends
       DEF UserStep, Clean, Tick, pipeline_vars, client_vars
  <2>2. QED
    BY <1>2, <2>1
<1>8. QED
  BY <1>2, <1>4, <1>5, <1>6, <1>7 DEF PipelineNext

\* The edits of a handler stay, or are none, or are a batch just uploaded.
LEMMA EditsStep ==
    ASSUME ClientInv, IngestProofs!IngestInv, ConnType, [PipelineNext]_pipeline_vars,
           NEW h \in Handler
    PROVE  \/ edits'[h] = edits[h]
           \/ edits'[h] = <<>>
           \/ \E p \in Proc, n \in 1 .. FetchLimit :
                Upload(p, n, h) /\ edits'[h] = payload(p, batch'[p])
<1>1. edits \in [Handler -> Seq(IngestProofs!WireEdit)]
  BY ServerTyped
<1>2. ASSUME NEW g \in Handler, IngestProofs!end_request(g)
      PROVE  edits'[h] = edits[h] \/ edits'[h] = <<>>
  BY <1>1, <1>2 DEF IngestProofs!end_request
<1>3. ASSUME NEW p \in Proc, ClientStep(p) \/ Killed(p) \/ NoAnswer(p) \/ \E n : LoseRequest(p, n)
      PROVE  edits' = edits
  BY <1>3 DEF ClientStep, Killed, NoAnswer, LoseRequest, server_vars
<1>4. ASSUME NEW p \in Proc, NEW n \in 1 .. FetchLimit, NEW g \in Handler, Upload(p, n, g)
      PROVE  \/ edits'[h] = edits[h]
             \/ Upload(p, n, h) /\ edits'[h] = payload(p, batch'[p])
  <2>1. IngestProofs!Receive(g, cred[p], payload(p, batch'[p]))
    BY <1>4, SameReceive DEF Upload
  <2>2. QED
    BY <1>1, <1>4, <2>1 DEF IngestProofs!Receive
<1>5. ASSUME NEW g \in Handler, HandlerStep(g) PROVE edits' = edits
  BY <1>5, SameWork, WorkStays DEF HandlerStep
<1>6. ASSUME NEW g \in Handler,
             ServerStops(g) \/ Answer(g) \/ AnswerCutOff(g) \/ ReplyToNobody(g)
      PROVE  IngestProofs!end_request(g)
  BY <1>6, SameReply DEF ServerStops, Answer, AnswerCutOff, ReplyToNobody,
                         IngestProofs!Reply, IngestProofs!Abort
<1>7. ASSUME NEW g \in Handler, Disconnect(g) PROVE edits' = edits
  BY <1>7 DEF Disconnect, server_vars
<1>8. CASE UserStep \/ UNCHANGED pipeline_vars
  BY <1>8 DEF UserStep, pipeline_vars, server_vars
<1>9. QED
  BY <1>2, <1>3, <1>4, <1>5, <1>6, <1>7, <1>8 DEF PipelineNext

\* The server's table gains at most the signature of the edit being saved.
LEMMA StoredSigsStep ==
    ASSUME IngestProofs!IngestInv, [IngestProofs!OpenNext]_(IngestProofs!ingest_vars)
    PROVE  \/ stored_sigs' = stored_sigs
           \/ \E h \in Handler : \E n \in DOMAIN edits[h] :
                /\ IngestProofs!SaveEdit(h)
                /\ edits[h][n].sig \notin stored_sigs \cup {None}
                /\ stored_sigs' = stored_sigs \cup {edits[h][n].sig}
<1>1. IngestProofs!BaseInv /\ store \in Seq(IngestProofs!StoredRow)
  BY DEF IngestProofs!IngestInv, IngestProofs!BaseInv
<1>2. store' = store => stored_sigs' = stored_sigs
  BY DEF stored_sigs
<1>3. ASSUME NEW ids, store' = IngestProofs!strip_where(store, ids)
      PROVE  stored_sigs' = stored_sigs
  <2>1. /\ DOMAIN store' = DOMAIN store
        /\ \A i \in DOMAIN store : store'[i] \in {store[i], IngestProofs!strip(store[i])}
    BY <1>3 DEF IngestProofs!strip_where
  <2>2. \A i \in DOMAIN store : store[i] \in IngestProofs!StoredRow
    BY <1>1
  <2>3. \A i \in DOMAIN store : store'[i].sig = store[i].sig
    BY <2>1, <2>2, IngestProofs!StripKeeps, ServerAssumption, EventAssumption, LimitAssumption
  <2>4. QED
    BY <2>1, <2>3 DEF stored_sigs
<1>4. ASSUME NEW h \in Handler, IngestProofs!SaveEdit(h)
      PROVE  \/ stored_sigs' = stored_sigs
             \/ /\ at[h] \in DOMAIN edits[h]
                /\ edits[h][at[h]].sig \notin stored_sigs \cup {None}
                /\ stored_sigs' = stored_sigs \cup {edits[h][at[h]].sig}
  <2> DEFINE e == edits[h][at[h]]
             r == IngestProofs!new_stored(h)
  <2>1. hpc[h] = "save" /\ at[h] \in DOMAIN edits[h] /\ e.sig # None
    <3>1. hpc[h] = "save"
      BY <1>4 DEF IngestProofs!SaveEdit
    <3>2. IngestProofs!PlaceOK(h) /\ IngestProofs!SavedIsVerified
      BY <1>1 DEF IngestProofs!BaseInv, IngestProofs!HandlersOK
    <3>3. QED
      BY <3>1, <3>2 DEF IngestProofs!PlaceOK, IngestProofs!SavedIsVerified,
                        IngestProofs!edit_of
  <2>2. /\ r.sig = e.sig
        /\ \/ store' = store
           \/ /\ e.sig \notin IngestProofs!sigs(store)
              /\ DOMAIN store' = DOMAIN store \cup {Len(store) + 1}
              /\ \A i \in DOMAIN store : store'[i] = store[i]
              /\ Len(store) + 1 \notin DOMAIN store
              /\ store'[Len(store) + 1] = r
    BY <1>1, <1>4, IngestProofs!SaveEditStores, ServerAssumption, EventAssumption,
       LimitAssumption DEF IngestProofs!edit_of
  <2> HIDE DEF e, r
  <2>3. IngestProofs!sigs(store) = stored_sigs
    BY DEF IngestProofs!sigs, stored_sigs
  <2>4. store' = store => stored_sigs' = stored_sigs
    BY <1>2
  <2>5. CASE store' # store
    <3>1. e.sig \notin stored_sigs
      BY <2>2, <2>3, <2>5
    <3>2. stored_sigs' = stored_sigs \cup {e.sig}
      BY <2>2, <2>5 DEF stored_sigs
    <3>3. QED
      BY <2>1, <3>1, <3>2 DEF e
  <2>6. QED
    BY <2>4, <2>5
<1>5. \/ store' = store
      \/ \E ids : store' = IngestProofs!strip_where(store, ids)
      \/ \E h \in Handler : IngestProofs!SaveEdit(h)
  BY IngestProofs!TableStep, ServerAssumption, EventAssumption, LimitAssumption
<1>6. QED
  BY <1>2, <1>3, <1>4, <1>5

LEMMA SignaturesStep ==
    ASSUME PipelineInv, [PipelineNext]_pipeline_vars
    PROVE  SignaturesKnown'
<1>1. ClientInv /\ IngestProofs!IngestInv /\ ConnType /\ SignaturesKnown /\ Uploaders
  BY DEF PipelineInv, Connected
<1>2. signed \subseteq signed' /\ row_sigs(rows') \subseteq signed'
  BY <1>1, SignedGrows
<1>3. \A q \in Proc : row_sigs(fetched'[q]) \subseteq signed'
  BY <1>1, <1>2, ClientMoves, HeldSigs DEF SignaturesKnown
<1>4. ASSUME NEW h \in Handler, NEW n \in DOMAIN edits'[h]
      PROVE  edits'[h][n].sig \in signed' \cup {None}
  <2>1. CASE edits'[h] = edits[h]
    BY <1>1, <1>2, <2>1 DEF SignaturesKnown
  <2>2. CASE edits'[h] = <<>>
    BY <2>2
  <2>3. ASSUME NEW p \in Proc, NEW m \in 1 .. FetchLimit, Upload(p, m, h),
               edits'[h] = payload(p, batch'[p])
        PROVE  edits'[h][n].sig \in signed' \cup {None}
    <3>1. batch'[p] = oldest(DOMAIN fetched[p], m)
      BY <1>1, <2>3, InvParts DEF Upload, Post, ControlInv
    <3>2. batch'[p] \in SUBSET DOMAIN fetched[p]
      BY <3>1 DEF oldest
    <3>3. DOMAIN payload(p, batch'[p]) = 1 .. Cardinality(batch'[p])
      BY DEF payload
    <3>4. /\ row_at(batch'[p], n) \in batch'[p]
          /\ edits'[h][n] = wire(fetched[p][row_at(batch'[p], n)])
      BY <1>1, <2>3, <3>2, <3>3, PayloadIsWire
    <3>5. edits'[h][n].sig = fetched[p][row_at(batch'[p], n)].sig
      BY <3>4 DEF wire
    <3>6. QED
      BY <1>1, <1>2, <3>2, <3>4, <3>5 DEF SignaturesKnown, row_sigs
  <2>4. QED
    BY <1>1, <2>1, <2>2, <2>3, EditsStep
<1>5. stored_sigs' \subseteq signed'
  BY <1>1, <1>2, ServerMoves, StoredSigsStep DEF SignaturesKnown
<1>6. QED
  BY <1>2, <1>3, <1>4, <1>5 DEF SignaturesKnown

-----------------------------------------------------------------------------
(***************************************************************************)
(* Synced rows.                                                            *)
(***************************************************************************)
synced_in(t) == {t[i].sig : i \in synced_ids(t)} \ {None}

\* A statement that neither marks, deletes nor changes synced rows.
KeepsSynced(t, u) ==
    /\ synced_ids(u) = synced_ids(t)
    /\ \A i \in synced_ids(t) : u[i].sig = t[i].sig

LEMMA KeptSynced ==
    ASSUME NEW t, NEW u, KeepsSynced(t, u)
    PROVE  synced_in(u) = synced_in(t)
BY DEF KeepsSynced, synced_in

LEMMA IncrementSynced ==
    ASSUME NEW t, Typed(t), NEW ids
    PROVE  KeepsSynced(t, increment_retry(t, ids))
<1> DEFINE u == increment_retry(t, ids)
<1>1. DOMAIN u = DOMAIN t /\ \A i \in DOMAIN t : u[i] \in {t[i], counted(t[i])}
  BY DEF increment_retry
<1>2. \A i \in DOMAIN t : counted(t[i]).synced = t[i].synced /\ counted(t[i]).sig = t[i].sig
  BY DEF Typed, counted, Row
<1>3. \A i \in DOMAIN t : u[i].synced = t[i].synced /\ u[i].sig = t[i].sig
  BY <1>1, <1>2
<1> HIDE DEF u
<1>4. KeepsSynced(t, u)
  BY <1>1, <1>3 DEF KeepsSynced, synced_ids
<1>5. QED
  BY <1>4 DEF u

LEMMA BackfillSynced ==
    ASSUME NEW t, Typed(t), NEW c, NEW k
    PROVE  KeepsSynced(t, backfill_repo_info(t, c, k))
<1> DEFINE u == backfill_repo_info(t, c, k)
<1>1. DOMAIN u = DOMAIN t /\ \A i \in DOMAIN t : u[i] \in {t[i], filled(t[i], c)}
  BY DEF backfill_repo_info
<1>2. \A i \in DOMAIN t : filled(t[i], c).synced = t[i].synced /\ filled(t[i], c).sig = t[i].sig
  BY DEF Typed, filled, Row
<1>3. \A i \in DOMAIN t : u[i].synced = t[i].synced /\ u[i].sig = t[i].sig
  BY <1>1, <1>2
<1> HIDE DEF u
<1>4. KeepsSynced(t, u)
  BY <1>1, <1>3 DEF KeepsSynced, synced_ids
<1>5. QED
  BY <1>4 DEF u

\* The INSERT adds a pending row.
LEMMA InsertSynced ==
    ASSUME ClientInv, Uploaders, NEW p \in Proc, InsertRow(p)
    PROVE  KeepsSynced(rows, rows')
<1>1. next_id \notin DOMAIN rows /\ rows' = insert_row(rows, next_id, rec[p])
  BY InvParts DEF TableInv, InsertRow
<1>2. ~rec[p].synced
  BY DEF InsertRow, Uploaders, UploaderOK
<1>3. /\ DOMAIN rows' = DOMAIN rows \cup {next_id} /\ rows'[next_id] = rec[p]
      /\ \A i \in DOMAIN rows : rows'[i] = rows[i]
  BY <1>1 DEF insert_row
<1>4. QED
  BY <1>2, <1>3 DEF KeepsSynced, synced_ids

LEMMA MarkSynced ==
    ASSUME NEW t, Typed(t), NEW ids
    PROVE  synced_in(mark_synced(t, ids))
             = synced_in(t) \cup ({t[i].sig : i \in ids \cap DOMAIN t} \ {None})
<1> DEFINE u == mark_synced(t, ids)
<1>1. DOMAIN u = DOMAIN t
      /\ \A i \in DOMAIN t : u[i] = IF i \in ids THEN marked(t[i]) ELSE t[i]
  BY DEF mark_synced
<1>2. \A i \in DOMAIN t : marked(t[i]).synced /\ marked(t[i]).sig = t[i].sig
  BY MarkedSucceeds, StripKeeps DEF Typed, marked, Row, Succeeds, SameRecord
<1>3. synced_ids(u) = synced_ids(t) \cup (ids \cap DOMAIN t)
  BY <1>1, <1>2 DEF synced_ids
<1>4. \A i \in DOMAIN t : u[i].sig = t[i].sig
  BY <1>1, <1>2
<1>5. \A i \in synced_ids(u) : i \in DOMAIN t
  BY <1>1 DEF synced_ids
<1> HIDE DEF u
<1>6. synced_in(u) = {t[i].sig : i \in synced_ids(u)} \ {None}
  BY <1>4, <1>5 DEF synced_in
<1>7. synced_in(u) = synced_in(t) \cup ({t[i].sig : i \in ids \cap DOMAIN t} \ {None})
  BY <1>3, <1>6 DEF synced_in
<1>8. QED
  BY <1>7 DEF u

\* Deleting rows and stripping exhausted ones marks none.
LEMMA DeleteSynced ==
    ASSUME NEW t, NEW ids PROVE synced_in(delete(t, ids)) \subseteq synced_in(t)
BY DEF delete, synced_in, synced_ids

LEMMA PruneSynced ==
    ASSUME NEW t, Typed(t)
    PROVE  synced_in(prune_local_record_storage(t)) \subseteq synced_in(t)
<1> DEFINE s == strip_retry_exhausted_pending_original_text(t)
<1>1. DOMAIN s = DOMAIN t /\ \A i \in DOMAIN t : s[i] \in {t[i], strip(t[i])}
  BY DEF strip_retry_exhausted_pending_original_text
<1>2. \A i \in DOMAIN t : strip(t[i]).synced = t[i].synced /\ strip(t[i]).sig = t[i].sig
  BY DEF Typed, strip, Row
<1>3. \A i \in DOMAIN t : s[i].synced = t[i].synced /\ s[i].sig = t[i].sig
  BY <1>1, <1>2
<1> HIDE DEF s
<1>4. synced_in(s) = synced_in(t)
  BY <1>1, <1>3 DEF synced_in, synced_ids
<1>5. prune_local_record_storage(t) = delete(s, DOMAIN t \ kept_ids(t))
  BY DEF prune_local_record_storage, s
<1>6. QED
  BY <1>4, <1>5, DeleteSynced

\* What a step of the clients does to the synced rows.
LEMMA SyncedStep ==
    ASSUME ClientInv, Uploaders, [ClientNext]_client_vars
    PROVE  \/ synced_in(rows') = synced_in(rows)
           \/ /\ synced_in(rows') \subseteq synced_in(rows)
              /\ Clean \/ \E p \in Proc : Prune(p)
           \/ \E p \in Proc :
                /\ MarkBatch(p)
                /\ synced_in(rows') = synced_in(rows) \cup
                     ({rows[i].sig : i \in (batch[p] \ rejected[p]) \cap DOMAIN rows} \ {None})
<1>1. Typed(rows)
  BY InvTyped
<1>2. ASSUME NEW p \in Proc, AnswerError(p) \/ CountRejected(p) \/ Backfill(p) \/ InsertRow(p)
      PROVE  synced_in(rows') = synced_in(rows)
  <2>1. CASE AnswerError(p) \/ CountRejected(p)
    BY <1>1, <2>1, IncrementSynced, KeptSynced DEF AnswerError, CountRejected
  <2>2. CASE Backfill(p)
    BY <1>1, <2>2, BackfillSynced, KeptSynced DEF Backfill
  <2>3. CASE InsertRow(p)
    BY <2>3, InsertSynced, KeptSynced
  <2>4. QED
    BY <1>2, <2>1, <2>2, <2>3
<1>3. ASSUME NEW p \in Proc, MarkBatch(p)
      PROVE  synced_in(rows') = synced_in(rows) \cup
               ({rows[i].sig : i \in (batch[p] \ rejected[p]) \cap DOMAIN rows} \ {None})
  BY <1>1, <1>3, MarkSynced DEF MarkBatch
<1>4. ASSUME NEW p \in Proc, Prune(p)
      PROVE  synced_in(rows') \subseteq synced_in(rows)
  BY <1>1, <1>4, PruneSynced DEF Prune
<1>5. ASSUME Clean PROVE synced_in(rows') \subseteq synced_in(rows)
  <2>1. synced_in(NoRows) = {}
    BY DEF NoRows, synced_in, synced_ids
  <2>2. QED
    BY <1>5, <2>1, DeleteSynced DEF Clean, clean_synced
<1>6. \/ rows' = rows
      \/ Clean
      \/ \E p \in Proc : \/ Backfill(p) \/ AnswerError(p) \/ CountRejected(p)
                         \/ MarkBatch(p) \/ Prune(p) \/ InsertRow(p)
  BY DEF ClientNext, client_vars, Start, Run, Capture, StartSync, CheckDup, InsertFails,
     SkipFlush, Fetch, Crash, Post, AnswerSuccess, AnswerUnparseable, Tick
<1>7. QED
  BY <1>2, <1>3, <1>4, <1>5, <1>6

-----------------------------------------------------------------------------
(***************************************************************************)
(* What is marked is stored.                                               *)
(***************************************************************************)
\* The rows an answer does not reject are in the server's table.
LEMMA AnsweredIsStored ==
    ASSUME ClientInv, IngestProofs!IngestInv, Connected,
           NEW h \in Handler, conn[h] # Nobody, hpc[h] = "reply",
           NEW i \in batch[conn[h]] \ rejected_rows(conn[h], h)
    PROVE  fetched[conn[h]][i].sig \in stored_sigs
<1> DEFINE p == conn[h]
           ids == batch[p]
<1>1. p \in Proc /\ edits[h] = payload(p, ids)
  BY PipelineAssumption DEF Connected, ConnType, Nobody
<1>2. ids \in SUBSET DOMAIN fetched[p]
  BY <1>1, InvParts DEF ControlInv
<1>3. ids \in SUBSET Nat /\ IsFiniteSet(ids)
  <2>1. next_id \in Nat /\ DOMAIN fetched[p] \subseteq 1 .. next_id - 1
    BY <1>1, InvParts DEF TableInv, HeldInv
  <2>2. 1 .. next_id - 1 \subseteq Nat /\ IsFiniteSet(1 .. next_id - 1)
    BY <2>1, FS_Interval
  <2>3. QED
    BY <1>2, <2>1, <2>2, FS_Subset
<1>4. PICK n \in 1 .. Cardinality(ids) : row_at(ids, n) = i
  BY <1>3, PositionOfRow
<1>5. n \notin s_rejected[h]
  BY <1>4 DEF rejected_rows
<1>6. /\ Cardinality(ids) \in Nat
      /\ edits[h][n] = wire(fetched[p][i])
      /\ Len(edits[h]) = Cardinality(ids)
  <2>1. Cardinality(ids) \in Nat /\ payload(p, ids)[n] = wire(fetched[p][row_at(ids, n)])
    BY <1>1, <1>2, PayloadIsWire
  <2>2. edits[h] \in Seq(IngestProofs!WireEdit) /\ DOMAIN edits[h] = 1 .. Cardinality(ids)
    BY <1>1, ServerTyped DEF payload
  <2>3. DOMAIN edits[h] = 1 .. Len(edits[h]) /\ Len(edits[h]) \in Nat
    BY <2>2
  <2>4. Len(edits[h]) = Cardinality(ids)
    BY <2>1, <2>2, <2>3
  <2>5. QED
    BY <1>1, <1>4, <2>1, <2>4
<1>7. at[h] = Len(edits[h]) + 1
  BY DEF IngestProofs!IngestInv, IngestProofs!RepliesToAll
<1>8. n \in 1 .. at[h] - 1
  BY <1>6, <1>7
<1>9. \E j \in DOMAIN store : store[j].sig = edits[h][n].sig
  BY <1>5, <1>8 DEF IngestProofs!IngestInv, IngestProofs!AcknowledgedIsStored
<1>10. edits[h][n].sig = fetched[p][i].sig
  BY <1>6 DEF wire
<1>11. QED
  BY <1>9, <1>10 DEF stored_sigs

\* With a reliable server an answer is a success with the rejected positions.
LEMMA AnswerIsSuccess ==
    ASSUME IngestProofs!IngestInv, Reliable, NEW h \in Handler, Answer(h) \/ AnswerCutOff(h)
    PROVE  /\ conn[h] # Nobody /\ hpc[h] = "reply"
           /\ AnswerSuccess(conn[h], rejected_rows(conn[h], h))
<1>1. Answer(h)
  BY DEF Reliable, AnswerCutOff
<1>2. Server!RetentionIndex \notin s_rejected[h]
  BY SameIndex DEF Reliable, IngestProofs!IngestInv, IngestProofs!RetentionErrorsOnly
<1>3. QED
  BY <1>1, <1>2 DEF Answer, Server!Reply

\* A process comes to mark what the server just acknowledged, or what it was
\* about to mark already.
LEMMA MarkingStep ==
    ASSUME PipelineInv, Reliable, [PipelineNext]_pipeline_vars, NEW p \in Proc,
           pc'[p] \in {"count", "mark"}, NEW i \in batch'[p] \ rejected'[p]
    PROVE  fetched'[p][i].sig \in stored_sigs
<1>1. /\ ClientInv /\ IngestProofs!IngestInv /\ Connected /\ Delivered /\ ControlInv
      /\ pc \in [Proc -> PC] /\ rejected \in [Proc -> SUBSET Nat]
  BY InvParts DEF PipelineInv, ControlInv
<1>2. CASE /\ pc[p] \in {"count", "mark"} /\ fetched'[p] = fetched[p]
           /\ batch'[p] = batch[p] /\ rejected'[p] = rejected[p]
  BY <1>1, <1>2 DEF Delivered
<1> DEFINE same == /\ pc[p] \in {"count", "mark"} /\ fetched'[p] = fetched[p]
                   /\ batch'[p] = batch[p] /\ rejected'[p] = rejected[p]
<1>3. ASSUME NEW q \in Proc, ClientStep(q) \/ Killed(q) \/ NoAnswer(q) \/ \E n : Post(q, n)
      PROVE  same
  <2>1. CASE q # p
    <3>1. \/ Start(q) \/ Run(q) \/ Crash(q) \/ AnswerError(q) \/ \E n : Post(q, n)
      BY <1>3 DEF ClientStep, Killed, NoAnswer
    <3>2. QED
      BY <1>1, <2>1, <3>1, ProcessAlone
  <2>2. CASE q = p
    <3>1. ~(Killed(p) \/ NoAnswer(p) \/ \E n : Post(p, n))
      BY <1>1 DEF Killed, Crash, end_process, NoAnswer, AnswerError, settle, Post, goto
    <3>2. ~(Start(p) \/ CheckDup(p) \/ InsertRow(p) \/ InsertFails(p) \/ Backfill(p)
             \/ SkipFlush(p) \/ Fetch(p) \/ MarkBatch(p) \/ Prune(p))
      BY <1>1 DEF Start, Capture, StartSync, CheckDup, InsertRow, InsertFails, Backfill,
         SkipFlush, Fetch, MarkBatch, settle, Prune, end_process, goto, after_insert
    <3>3. CountRejected(p)
      BY <1>3, <2>2, <3>1, <3>2 DEF ClientStep, Run
    <3>4. QED
      BY <1>1, <3>3 DEF CountRejected, goto
  <2>3. QED
    BY <2>1, <2>2
<1>4. ASSUME NEW h \in Handler, Disconnect(h) PROVE same
  <2>1. conn[h] \in Proc /\ AnswerError(conn[h])
    BY <1>1, <1>4 DEF Disconnect, Connected, ConnType
  <2>2. conn[h] # p
    BY <1>1, <2>1 DEF AnswerError, settle, goto
  <2>3. QED
    BY <1>1, <2>1, <2>2, ProcessAlone
<1>5. ASSUME NEW h \in Handler, Answer(h) \/ AnswerCutOff(h)
      PROVE  fetched'[p][i].sig \in stored_sigs
  <2>1. /\ conn[h] \in Proc /\ conn[h] # Nobody /\ hpc[h] = "reply"
        /\ AnswerSuccess(conn[h], rejected_rows(conn[h], h))
    BY <1>1, <1>5, AnswerIsSuccess DEF Connected, ConnType
  <2>2. CASE conn[h] = p
    <3>1. fetched' = fetched /\ batch' = batch /\ rejected'[p] = rejected_rows(p, h)
      BY <1>1, <2>1, <2>2 DEF AnswerSuccess
    <3>2. i \in batch[p] \ rejected_rows(p, h)
      BY <3>1
    <3>3. QED
      BY <1>1, <2>1, <2>2, <3>1, <3>2, AnsweredIsStored
  <2>3. CASE conn[h] # p
    BY <1>1, <1>2, <2>1, <2>3, ProcessAlone
  <2>4. QED
    BY <2>2, <2>3
<1>6. ASSUME \/ UserStep \/ UNCHANGED pipeline_vars
             \/ \E h \in Handler : HandlerStep(h) \/ ServerStops(h) \/ ReplyToNobody(h)
      PROVE  same
  BY <1>6 DEF UserStep, Clean, Tick, HandlerStep, ServerStops, ReplyToNobody, client_vars,
              pipeline_vars
<1> HIDE DEF same
<1>7. same => fetched'[p][i].sig \in stored_sigs
  BY <1>2 DEF same
<1>8. ASSUME NEW q \in Proc, NEW n, LoseRequest(q, n) \/ \E h : Upload(q, n, h)
      PROVE  \E m : Post(q, m)
  BY <1>8 DEF LoseRequest, Upload
<1>9. QED
  BY <1>3, <1>4, <1>5, <1>6, <1>7, <1>8 DEF PipelineNext

LEMMA DeliveredStep ==
    ASSUME PipelineInv, Reliable, [PipelineNext]_pipeline_vars
    PROVE  Delivered'
<1>1. /\ ClientInv /\ IngestProofs!IngestInv /\ Uploaders /\ Connected /\ Delivered
      /\ ConnType
  BY DEF PipelineInv, Connected
<1>2. stored_sigs \subseteq stored_sigs'
  BY <1>1, ServerMoves, StoredSigsStep
<1>3. \A p \in Proc : pc'[p] \in {"count", "mark"} =>
        \A i \in batch'[p] \ rejected'[p] : fetched'[p][i].sig \in stored_sigs'
  BY <1>2, MarkingStep
<1>4. synced_in(rows) \subseteq stored_sigs
  BY <1>1 DEF Delivered, SyncedIsStored, synced_sigs, synced_in
<1>5. ASSUME NEW p \in Proc, MarkBatch(p)
      PROVE  {rows[i].sig : i \in (batch[p] \ rejected[p]) \cap DOMAIN rows} \subseteq stored_sigs
  <2>1. pc[p] = "mark" /\ batch[p] \subseteq DOMAIN fetched[p]
    BY <1>1, <1>5, InvParts DEF MarkBatch, ControlInv
  <2>2. \A i \in batch[p] \cap DOMAIN rows : rows[i].sig = fetched[p][i].sig
    BY <1>1, <2>1 DEF ClientInv, HeldIdIsSameRecord
  <2>3. QED
    BY <1>1, <2>1, <2>2 DEF Delivered
<1>6. synced_in(rows') \subseteq stored_sigs
  BY <1>1, <1>4, <1>5, ClientMoves, SyncedStep
<1>7. QED
  BY <1>2, <1>3, <1>6 DEF Delivered, SyncedIsStored, synced_sigs, synced_in

-----------------------------------------------------------------------------
(***************************************************************************)
(* The theorems of the specification.                                      *)
(***************************************************************************)
LEMMA PipelineInvInit == PipelineInit => PipelineInv
<1> SUFFICES ASSUME PipelineInit PROVE PipelineInv
  OBVIOUS
<1>1. ClientInv
  BY InitInv DEF PipelineInit
<1>2. IngestProofs!IngestInv
  BY SameInit, IngestProofs!IngestInvInit, ServerAssumption, EventAssumption, LimitAssumption
     DEF PipelineInit
<1>3. /\ rows = NoRows /\ DOMAIN NoRows = {} /\ clock = 0
      /\ pc = [p \in Proc |-> "idle"] /\ fetched = [p \in Proc |-> NoRows]
      /\ conn = [h \in Handler |-> Nobody] /\ signed = {}
  BY DEF PipelineInit, ClientInit, NoRows
<1>4. edits = [h \in Handler |-> <<>>] /\ DOMAIN store = {}
  <2>1. edits = [h \in Handler |-> <<>>] /\ store = <<>>
    BY DEF PipelineInit, Server!IngestInit
  <2>2. QED
    BY <2>1
<1>5. Uploaders
  BY <1>3, PipelineAssumption DEF Uploaders, UploaderOK
<1>6. Connected
  BY <1>3 DEF Connected, ConnType
<1>7. SignaturesKnown
  BY <1>3, <1>4 DEF SignaturesKnown, row_sigs, stored_sigs
<1>8. Delivered
  BY <1>3 DEF Delivered, SyncedIsStored, synced_sigs, synced_ids
<1>9. QED
  BY <1>1, <1>2, <1>5, <1>6, <1>7, <1>8 DEF PipelineInv

LEMMA PipelineInvStep == PipelineInv /\ [PipelineNext]_pipeline_vars => PipelineInv'
<1> SUFFICES ASSUME PipelineInv, [PipelineNext]_pipeline_vars PROVE PipelineInv'
  OBVIOUS
<1>1. ClientInv /\ IngestProofs!IngestInv /\ Uploaders /\ Connected /\ ConnType
  BY DEF PipelineInv, Connected
<1>2. [ClientNext]_client_vars /\ [IngestProofs!OpenNext]_(IngestProofs!ingest_vars)
  BY <1>1, ClientMoves, ServerMoves
<1>3. ClientInv' /\ Uploaders'
  BY <1>1, <1>2, NextInv, UploadersStep
<1>4. IngestProofs!IngestInv'
  BY <1>1, <1>2, ServerStep
<1>5. Connected'
  BY <1>1, ConnectedStep
<1>6. SignaturesKnown'
  BY SignaturesStep
<1>7. Reliable => Delivered'
  BY DeliveredStep
<1>8. QED
  BY <1>3, <1>4, <1>5, <1>6, <1>7 DEF PipelineInv, Reliable

THEOREM PipelineInvariant == PipelineSpec => []PipelineInv
BY PipelineInvInit, PipelineInvStep, PTL DEF PipelineSpec

\* Whatever is lost, killed, repeated or answered late, a row whose text the
\* client deletes as delivered is on the server, unless the retention statements
\* fail or a 2xx answer is cut off: there the code takes rejected rows for
\* delivered.
THEOREM SyncedRowsAreStored ==
    ASSUME Reliable
    PROVE  PipelineSpec => []SyncedIsStored
<1>1. PipelineInv => SyncedIsStored
  BY DEF PipelineInv, Delivered
<1>2. QED
  BY <1>1, PipelineInvariant, PTL

\* However often and by however many processes a record is uploaded, the server
\* stores it once.
THEOREM UploadsStoreOnce == PipelineSpec => []UploadedOnce
<1>1. PipelineInv => UploadedOnce
  BY DEF PipelineInv, UploadedOnce, IngestProofs!IngestInv, IngestProofs!StoredOnce,
         Server!StoredOnce
<1>2. QED
  BY <1>1, PipelineInvariant, PTL

\* What the processes promise whatever the server answers, they promise with
\* this server.
THEOREM PipelineKeepsClient == PipelineSpec => []ClientInv
<1>1. PipelineInv => ClientInv
  BY DEF PipelineInv
<1>2. QED
  BY <1>1, PipelineInvariant, PTL

-----------------------------------------------------------------------------
(***************************************************************************)
(* The pipeline implements EditDelivery.                                   *)
(***************************************************************************)
LEMMA DeliveryInit == PipelineInit => Delivery!DeliveryInit
<1> SUFFICES ASSUME PipelineInit PROVE Delivery!DeliveryInit
  OBVIOUS
<1>1. DOMAIN store = {} /\ signed = {} /\ DOMAIN rows = {}
  <2>1. store = <<>> /\ signed = {} /\ rows = [i \in {} |-> None]
    BY DEF PipelineInit, ClientInit, Server!IngestInit, NoRows
  <2>2. DOMAIN <<>> = {} /\ DOMAIN [i \in {} |-> None] = {}
    OBVIOUS
  <2>3. QED
    BY <2>1, <2>2
<1>2. QED
  BY <1>1 DEF Delivery!DeliveryInit, stored_sigs, synced_sigs, synced_ids

\* A step of the server stores a known signature or nothing new.
LEMMA ServerDelivers ==
    ASSUME PipelineInv, NEW h \in Handler, HandlerStep(h)
    PROVE  [Delivery!DeliveryNext]_(Delivery!delivery_vars)
<1>1. ClientInv /\ IngestProofs!IngestInv /\ Uploaders /\ SignaturesKnown
  BY DEF PipelineInv
<1>2. synced_sigs' = synced_sigs /\ signed' = signed
  BY DEF HandlerStep, client_vars, synced_sigs, synced_ids
<1>3. [IngestProofs!OpenNext]_(IngestProofs!ingest_vars)
  BY <1>1, ServerMoves DEF PipelineNext
<1>4. CASE stored_sigs' = stored_sigs
  BY <1>2, <1>4 DEF Delivery!delivery_vars
<1>5. ASSUME NEW g \in Handler, NEW n \in DOMAIN edits[g],
             edits[g][n].sig \notin stored_sigs \cup {None},
             stored_sigs' = stored_sigs \cup {edits[g][n].sig}
      PROVE  Delivery!DeliveryNext
  <2>1. edits[g][n].sig \in signed \ stored_sigs
    BY <1>1, <1>5 DEF SignaturesKnown
  <2>2. Delivery!StoreRecord(edits[g][n].sig)
    BY <1>2, <1>5, <2>1 DEF Delivery!StoreRecord
  <2>3. QED
    BY <2>1, <2>2 DEF Delivery!DeliveryNext
<1>6. QED
  BY <1>1, <1>3, <1>4, <1>5, StoredSigsStep

\* Any other step leaves the server's signatures.
LEMMA OthersStoreNothing ==
    ASSUME PipelineInv, [PipelineNext]_pipeline_vars, \A h \in Handler : ~HandlerStep(h)
    PROVE  stored_sigs' = stored_sigs
<1>1. ASSUME NEW h \in Handler, Server!Reply(h) \/ Server!Abort(h) PROVE store' = store
  BY <1>1 DEF Server!Reply, Server!Abort
<1>2. ASSUME NEW p \in Proc, NEW n, NEW h, Upload(p, n, h) PROVE store' = store
  BY <1>2 DEF Upload, Server!Receive
<1>3. store' = store
  BY <1>1, <1>2 DEF PipelineNext, ClientStep, Killed, NoAnswer, LoseRequest, ServerStops,
     Answer, AnswerCutOff, Disconnect, ReplyToNobody, UserStep, pipeline_vars, server_vars
<1>4. QED
  BY <1>3 DEF stored_sigs

\* An INSERT captures a record, if it was signed.
LEMMA InsertDelivers ==
    ASSUME PipelineInv, stored_sigs' = stored_sigs, NEW p \in Proc, InsertRow(p),
           signed' = signed \cup ({rec[p].sig} \ {None})
    PROVE  [Delivery!DeliveryNext]_(Delivery!delivery_vars)
<1>1. ClientInv /\ Uploaders /\ rec[p].sig \in BoundedSignature \cup {None}
  BY DEF PipelineInv, InsertRow, Uploaders, UploaderOK
<1>2. synced_sigs' = synced_sigs
  BY <1>1, InsertSynced, KeptSynced DEF synced_sigs, synced_in
<1>3. CASE rec[p].sig = None
  BY <1>2, <1>3 DEF Delivery!delivery_vars
<1>4. CASE rec[p].sig # None
  <2>1. Delivery!CaptureRecord(rec[p].sig)
    BY <1>1, <1>2, <1>4 DEF Delivery!CaptureRecord
  <2>2. QED
    BY <1>1, <1>4, <2>1 DEF Delivery!DeliveryNext
<1>5. QED
  BY <1>3, <1>4

\* Any other step settles stored signatures, forgets settled ones, or neither.
LEMMA ClientDelivers ==
    ASSUME PipelineInv, Reliable, [PipelineNext]_pipeline_vars,
           stored_sigs' = stored_sigs, signed' = signed
    PROVE  [Delivery!DeliveryNext]_(Delivery!delivery_vars)
<1>1. ClientInv /\ Uploaders /\ ConnType /\ Delivered
  BY DEF PipelineInv, Connected
<1>2. synced_sigs \subseteq stored_sigs /\ synced_sigs' \subseteq stored_sigs
  BY <1>1, DeliveredStep DEF Delivered, SyncedIsStored
<1>3. synced_in(rows) = synced_sigs /\ synced_in(rows') = synced_sigs'
  BY DEF synced_in, synced_sigs
<1>4. CASE synced_sigs' = synced_sigs
  BY <1>4 DEF Delivery!delivery_vars
<1>5. CASE synced_sigs' \subseteq synced_sigs
  <2>1. Delivery!Forget(synced_sigs \ synced_sigs')
    BY <1>5 DEF Delivery!Forget
  <2>2. QED
    BY <2>1 DEF Delivery!DeliveryNext
<1>6. CASE synced_sigs \subseteq synced_sigs'
  <2>1. Delivery!Settle(synced_sigs')
    BY <1>2, <1>6 DEF Delivery!Settle
  <2>2. QED
    BY <1>2, <2>1 DEF Delivery!DeliveryNext
<1>7. synced_sigs' \subseteq synced_sigs \/ synced_sigs \subseteq synced_sigs'
  BY <1>1, <1>3, ClientMoves, SyncedStep
<1>8. QED
  BY <1>5, <1>6, <1>7

LEMMA DeliveryStep ==
    PipelineInv /\ Reliable /\ [PipelineNext]_pipeline_vars
      => [Delivery!DeliveryNext]_(Delivery!delivery_vars)
<1> SUFFICES ASSUME PipelineInv, Reliable, [PipelineNext]_pipeline_vars
             PROVE  [Delivery!DeliveryNext]_(Delivery!delivery_vars)
  OBVIOUS
<1>1. CASE \E h \in Handler : HandlerStep(h)
  BY <1>1, ServerDelivers
<1>2. CASE \A h \in Handler : ~HandlerStep(h)
  <2>1. stored_sigs' = stored_sigs
    BY <1>2, OthersStoreNothing
  <2>2. \/ signed' = signed
        \/ \E p \in Proc : InsertRow(p) /\ signed' = signed \cup ({rec[p].sig} \ {None})
    BY SignedGrows DEF PipelineInv, Connected
  <2>3. QED
    BY <2>1, <2>2, InsertDelivers, ClientDelivers
<1>3. QED
  BY <1>1, <1>2

\* With a reliable server the pipeline implements EditDelivery: every step is a
\* step of the abstract specification, or changes nothing there.
THEOREM PipelineImplementsDelivery ==
    ASSUME Reliable
    PROVE  PipelineSpec => ImplementsDelivery
<1>1. PipelineInv /\ [PipelineNext]_pipeline_vars
        => [Delivery!DeliveryNext]_(Delivery!delivery_vars)
  BY DeliveryStep
<1>2. QED
  BY <1>1, DeliveryInit, PipelineInvariant, PTL
     DEF PipelineSpec, ImplementsDelivery, Delivery!DeliverySpec
=============================================================================
