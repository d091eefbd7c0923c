---------------------------- MODULE EditIngestProofs ----------------------------
(***************************************************************************)
(* Proofs about EditIngest, for any number of handlers, edits, tokens and  *)
(* faults and any limits.  They are made for OpenNext, in which a request  *)
(* carries any edits whatever: EditPipelineProofs uses them for the edits  *)
(* its clients send.                                                       *)
(*                                                                         *)
(* The argument: the only statements that change the table append one row  *)
(* whose signature it does not have yet, or replace texts by markers       *)
(* (TableStep), so what holds of a stored row holds for good; and a        *)
(* handler's answer speaks of the edits before the one in turn, each of    *)
(* which it either rejected or saw in the table.                           *)
(***************************************************************************)
EXTENDS EditIngest, FiniteSetTheorems, TLAPS

\* A request with any edits.
AnyRequest(h) == \E k \in Key, es \in Seq(WireEdit) : Receive(h, k, es)

OpenNext ==
    \/ \E h \in Handler : AnyRequest(h) \/ Work(h) \/ Reply(h) \/ Abort(h)
    \/ TickNow

LEMMA NextIsOpen == IngestNext => OpenNext
<1>1. ASSUME NEW es \in Batches(MaxBatch) PROVE es \in Seq(WireEdit)
  <2>1. PICK m \in 1 .. MaxBatch : es \in [1 .. m -> Edit]
    BY DEF Batches
  <2>2. m \in Nat /\ Edit \subseteq WireEdit
    BY IngestAssumption
  <2>3. QED
    BY <2>1, <2>2
<1>2. QED
  BY <1>1 DEF IngestNext, OpenNext, AnyRequest

\* The edit in turn of a handler.
edit_of(h) == edits[h][at[h]]

-----------------------------------------------------------------------------
(***************************************************************************)
(* Types.                                                                  *)
(***************************************************************************)
StatusType ==
    /\ now \in Nat /\ faults \in Nat
    /\ saved \in [Handler -> BOOLEAN]
    /\ hpc \in [Handler -> HPC]
    /\ verdict \in [Handler -> Stored \cup {""}]
    /\ at \in [Handler -> Nat \ {0}]

RequestType ==
    /\ key \in [Handler -> Key \cup {None}]
    /\ edits \in [Handler -> Seq(WireEdit)]

ResponseType ==
    /\ accepted \in [Handler -> Nat]
    /\ rejected \in [Handler -> SUBSET (Nat \cup {RetentionIndex})]
    /\ flagged \in [Handler -> SUBSET Nat]

\* Where a handler is, and what it then has.
PlaceOK(h) ==
    /\ hpc[h] \in {"validate", "save"} => at[h] \in DOMAIN edits[h]
    /\ hpc[h] # "idle" => key[h] \in Key
    /\ hpc[h] = "save" <=> verdict[h] \in Stored

LEMMA TypeParts ==
    IngestTypeOK <=> /\ store \in Seq(StoredRow)
                     /\ StatusType /\ RequestType /\ ResponseType
                     /\ \A h \in Handler : PlaceOK(h)
BY DEF IngestTypeOK, StatusType, RequestType, ResponseType, PlaceOK

\* A fault is counted.
LEMMA FaultCounts ==
    ASSUME faults \in Nat, NEW kind, NEW occurs \in BOOLEAN, fault(kind, occurs)
    PROVE  faults' \in Nat /\ faults' = faults + IF occurs THEN 1 ELSE 0
BY DEF fault

\* Stripping replaces the two texts.
LEMMA StripKeeps ==
    ASSUME NEW r \in StoredRow
    PROVE  /\ strip(r) \in StoredRow
           /\ strip(r).key = r.key /\ strip(r).sig = r.sig /\ strip(r).repo = r.repo
           /\ strip(r).ts = r.ts /\ strip(r).received = r.received
           /\ strip(r).event.tool = r.event.tool /\ strip(r).event.path = r.event.path
           /\ strip(r).event.diff = prune_text(r.event.diff)
           /\ strip(r).event.meta = prune_text(r.event.meta)
<1>1. /\ prune_text(r.event.diff) \in Diff \cup {Marker}
      /\ prune_text(r.event.meta) \in Meta \cup {Marker}
  BY DEF prune_text, StoredRow
<1>2. strip(r) \in StoredRow
  BY <1>1 DEF strip, StoredRow
<1>3. QED
  BY <1>2 DEF strip, StoredRow

LEMMA RequestKept ==
    ASSUME RequestType, NEW h \in Handler, at[h] \in DOMAIN edits[h]
    PROVE  /\ edit_of(h) \in WireEdit
           /\ Len(edits[h]) \in Nat /\ DOMAIN edits[h] = 1 .. Len(edits[h])
           /\ at[h] \in 1 .. Len(edits[h])
<1>1. edits[h] \in Seq(WireEdit)
  BY DEF RequestType
<1>2. QED
  BY <1>1 DEF edit_of

\* What the loop over the edits does to one handler, and to no other.
LEMMA NextEditKeeps ==
    ASSUME StatusType, RequestType, \A h \in Handler : PlaceOK(h),
           NEW h \in Handler, hpc[h] \in {"validate", "save"}, next_edit(h),
           saved' \in [Handler -> BOOLEAN], now' = now, key' = key, edits' = edits
    PROVE  /\ at' \in [Handler -> Nat \ {0}]
           /\ verdict' \in [Handler -> Stored \cup {""}]
           /\ hpc' \in [Handler -> HPC]
           /\ \A g \in Handler : PlaceOK(g)'
<1>1. /\ at[h] \in DOMAIN edits[h] /\ DOMAIN edits[h] = 1 .. Len(edits[h])
      /\ at[h] \in Nat /\ Len(edits[h]) \in Nat
  <2>1. at[h] \in DOMAIN edits[h]
    BY DEF PlaceOK
  <2>2. QED
    BY <2>1, RequestKept DEF StatusType
<1> DEFINE place == IF at[h] < Len(edits[h]) THEN "validate"
                    ELSE IF saved'[h] THEN "strip_old" ELSE "reply"
<1>2. /\ place \in {"validate", "strip_old", "reply"}
      /\ place = "validate" => at[h] + 1 \in DOMAIN edits[h]
  BY <1>1
<1>3. /\ at' = [at EXCEPT ![h] = at[h] + 1]
      /\ verdict' = [verdict EXCEPT ![h] = ""]
      /\ hpc' = [hpc EXCEPT ![h] = place]
      /\ key' = key /\ edits' = edits
  BY DEF next_edit
<1> HIDE DEF place
<1>4. /\ at' \in [Handler -> Nat \ {0}] /\ at'[h] = at[h] + 1
  <2>1. at \in [Handler -> Nat \ {0}]
    BY DEF StatusType
  <2>2. at[h] \in Nat \ {0}
    BY <2>1
  <2>3. at[h] + 1 \in Nat \ {0}
    BY <2>2
  <2>4. QED
    BY <1>3, <2>1, <2>3
<1>5. verdict' \in [Handler -> Stored \cup {""}] /\ verdict'[h] = ""
  BY <1>3 DEF StatusType
<1>6. hpc' \in [Handler -> HPC] /\ hpc'[h] = place
  BY <1>2, <1>3 DEF StatusType, HPC
<1>7. PlaceOK(h)'
  BY <1>1, <1>2, <1>3, <1>4, <1>5, <1>6 DEF PlaceOK, Stored
<1>8. ASSUME NEW g \in Handler \ {h} PROVE PlaceOK(g)'
  BY <1>3 DEF StatusType, PlaceOK
<1>9. QED
  BY <1>4, <1>5, <1>6, <1>7, <1>8

\* What validation admits is signed.
LEMMA AdmittedIsSigned ==
    ASSUME NEW k \in Key, NEW e \in WireEdit, NEW n, Validate(k, e, n) \in Stored
    PROVE  sig_matches(k, e) /\ e.sig # None
BY DEF Validate, malformed, Stored

LEMMA SignedIsSignature ==
    ASSUME NEW k \in Key, NEW e \in WireEdit, sig_matches(k, e)
    PROVE  e.sig \in Signature
<1>1. /\ e.event.tool \in Tool /\ e.event.path \in Path /\ e.event.diff \in Diff
      /\ e.repo.url \in Url /\ e.repo.sha \in Sha /\ e.ts \in Nat
  BY DEF WireEdit, Url, Sha
<1>2. QED
  BY <1>1 DEF sig_matches, compute_record_sig, Signature

\* The row SaveEdit inserts.
LEMMA RowTyped ==
    ASSUME NEW e \in WireEdit, NEW k \in Key, NEW v \in {"ACCEPTED", "FLAGGED"}, NEW n \in Nat,
           e.sig \in Signature
    PROVE  [key |-> k, sig |-> e.sig, event |-> e.event, repo |-> e.repo, ts |-> e.ts,
            status |-> v, received |-> n] \in StoredRow
<1>1. e.event \in [tool : Tool, path : Path, diff : Diff \cup {Marker},
                  meta : Meta \cup {Marker}]
  <2>1. e.event \in [tool : Tool, path : Path, diff : Diff, meta : Meta]
    BY DEF WireEdit
  <2>2. QED
    BY <2>1
<1>2. e.repo \in Repo /\ e.ts \in Nat
  BY DEF WireEdit
<1>3. QED
  BY <1>1, <1>2 DEF StoredRow

\* An edit that is about to be saved has passed the signature check.
SavedIsVerified ==
    \A h \in Handler : hpc[h] = "save" => sig_matches(key[h], edit_of(h)) /\ edit_of(h).sig # None

LEMMA NewRowTyped ==
    ASSUME IngestTypeOK, SavedIsVerified, NEW h \in Handler, hpc[h] = "save"
    PROVE  /\ new_stored(h) \in StoredRow
           /\ new_stored(h) = [key |-> key[h], sig |-> edit_of(h).sig, event |-> edit_of(h).event,
                               repo |-> edit_of(h).repo, ts |-> edit_of(h).ts,
                               status |-> verdict[h], received |-> now]
<1>1. StatusType /\ RequestType /\ PlaceOK(h)
  BY TypeParts
<1>2. edit_of(h) \in WireEdit /\ key[h] \in Key /\ now \in Nat
  BY <1>1, RequestKept DEF PlaceOK, StatusType
<1>3. verdict[h] \in {"ACCEPTED", "FLAGGED"}
  BY <1>1 DEF PlaceOK, Stored
<1>4. new_stored(h) = [key |-> key[h], sig |-> edit_of(h).sig, event |-> edit_of(h).event,
                       repo |-> edit_of(h).repo, ts |-> edit_of(h).ts,
                       status |-> verdict[h], received |-> now]
  BY DEF new_stored, edit_of
<1>5. edit_of(h).sig \in Signature
  BY <1>2, SignedIsSignature DEF SavedIsVerified
<1>6. QED
  BY <1>2, <1>3, <1>4, <1>5, RowTyped

LEMMA SaveTyped ==
    ASSUME NEW s \in Seq(StoredRow), NEW r \in StoredRow
    PROVE  Save(s, r) \in Seq(StoredRow)
BY DEF Save

LEMMA StripWhereTyped ==
    ASSUME NEW s \in Seq(StoredRow), NEW ids
    PROVE  /\ strip_where(s, ids) \in Seq(StoredRow)
           /\ DOMAIN strip_where(s, ids) = DOMAIN s
           /\ \A i \in DOMAIN s : /\ s[i] \in StoredRow
                                  /\ i \in ids => strip_where(s, ids)[i] = strip(s[i])
                                  /\ i \notin ids => strip_where(s, ids)[i] = s[i]
<1>1. \A i \in DOMAIN s : s[i] \in StoredRow /\ strip(s[i]) \in StoredRow
  BY StripKeeps
<1>2. DOMAIN s = 1 .. Len(s) /\ Len(s) \in Nat
  OBVIOUS
<1>3. strip_where(s, ids) \in [1 .. Len(s) -> StoredRow]
  BY <1>1, <1>2 DEF strip_where
<1>4. QED
  BY <1>1, <1>2, <1>3 DEF strip_where

-----------------------------------------------------------------------------
(***************************************************************************)
(* Every step keeps the types, and only verified edits are about to be     *)
(* saved.                                                                  *)
(***************************************************************************)
HandlersOK == \A h \in Handler : PlaceOK(h)

BaseInv ==
    /\ store \in Seq(StoredRow)
    /\ StatusType /\ RequestType /\ ResponseType /\ HandlersOK
    /\ SavedIsVerified

LEMMA BaseTyped == BaseInv <=> IngestTypeOK /\ SavedIsVerified
BY TypeParts DEF BaseInv, HandlersOK

LEMMA ReceiveBase ==
    ASSUME BaseInv, NEW h \in Handler, NEW k \in Key, NEW es \in Seq(WireEdit), Receive(h, k, es)
    PROVE  BaseInv'
<1>1. /\ store \in Seq(StoredRow)
      /\ StatusType /\ RequestType /\ ResponseType /\ HandlersOK /\ SavedIsVerified
  BY DEF BaseInv
<1>2. /\ hpc[h] = "idle" /\ hpc' = [hpc EXCEPT ![h] = "validate"]
      /\ key' = [key EXCEPT ![h] = k] /\ edits' = [edits EXCEPT ![h] = es]
      /\ at' = [at EXCEPT ![h] = 1]
      /\ UNCHANGED <<store, now, verdict, accepted, rejected, flagged, saved, faults>>
      /\ Len(es) \in 1 .. MaxBatch
  BY DEF Receive, response_vars
<1>3. store' \in Seq(StoredRow) /\ RequestType' /\ ResponseType'
  BY <1>1, <1>2 DEF RequestType, ResponseType
<1>4. StatusType'
  <2>1. hpc \in [Handler -> HPC] /\ at \in [Handler -> Nat \ {0}]
    BY <1>1 DEF StatusType
  <2>2. hpc' \in [Handler -> HPC]
    BY <1>2, <2>1 DEF HPC
  <2>3. at' \in [Handler -> Nat \ {0}]
    BY <1>2, <2>1
  <2>4. QED
    BY <1>1, <1>2, <2>2, <2>3 DEF StatusType
<1>5. 1 \in DOMAIN es
  BY <1>2, IngestAssumption
<1>6. PlaceOK(h)'
  BY <1>1, <1>2, <1>5 DEF PlaceOK, HandlersOK, StatusType, RequestType
<1>7. ASSUME NEW g \in Handler \ {h} PROVE PlaceOK(g)'
  BY <1>1, <1>2 DEF PlaceOK, HandlersOK, StatusType, RequestType
<1>8. SavedIsVerified'
  BY <1>1, <1>2 DEF SavedIsVerified, edit_of, StatusType, RequestType, sig_matches
<1>9. HandlersOK'
  BY <1>6, <1>7 DEF HandlersOK
<1>10. QED
  BY <1>3, <1>4, <1>8, <1>9 DEF BaseInv

\* The loop goes on: what RejectEdit, SaveEdit and SaveFails have in common.
LEMMA LoopBase ==
    ASSUME BaseInv, NEW h \in Handler, hpc[h] \in {"validate", "save"}, next_edit(h),
           store' \in Seq(StoredRow), ResponseType', saved' \in [Handler -> BOOLEAN],
           faults' \in Nat, now' = now, key' = key, edits' = edits
    PROVE  BaseInv'
<1>1. StatusType /\ RequestType /\ HandlersOK /\ SavedIsVerified
  BY DEF BaseInv
<1>2. /\ at' \in [Handler -> Nat \ {0}] /\ verdict' \in [Handler -> Stored \cup {""}]
      /\ hpc' \in [Handler -> HPC] /\ \A g \in Handler : PlaceOK(g)'
  BY <1>1, NextEditKeeps DEF HandlersOK
<1>3. StatusType' /\ RequestType' /\ HandlersOK'
  BY <1>1, <1>2 DEF StatusType, RequestType, HandlersOK
<1>4. hpc'[h] # "save"
  BY <1>1 DEF next_edit, StatusType
<1>5. \A g \in Handler \ {h} : hpc'[g] = hpc[g] /\ at'[g] = at[g]
  BY <1>1 DEF next_edit, StatusType
<1>6. SavedIsVerified'
  BY <1>1, <1>4, <1>5 DEF SavedIsVerified, edit_of, sig_matches
<1>7. QED
  BY <1>3, <1>6 DEF BaseInv

\* The response of one handler grows.
LEMMA ResponseGrows ==
    ASSUME ResponseType, NEW h \in Handler, NEW i \in Nat \cup {RetentionIndex},
           \/ rejected' = [rejected EXCEPT ![h] = @ \cup {i}] /\ UNCHANGED <<accepted, flagged>>
           \/ accepted' = [accepted EXCEPT ![h] = @ + 1] /\ UNCHANGED <<rejected, flagged>>
           \/ /\ i \in Nat
              /\ flagged' = [flagged EXCEPT ![h] = @ \cup {i}] /\ UNCHANGED <<accepted, rejected>>
    PROVE  ResponseType'
<1>1. CASE rejected' = [rejected EXCEPT ![h] = @ \cup {i}] /\ UNCHANGED <<accepted, flagged>>
  BY <1>1 DEF ResponseType
<1>2. CASE accepted' = [accepted EXCEPT ![h] = @ + 1] /\ UNCHANGED <<rejected, flagged>>
  BY <1>2 DEF ResponseType
<1>3. CASE /\ i \in Nat
           /\ flagged' = [flagged EXCEPT ![h] = @ \cup {i}] /\ UNCHANGED <<accepted, rejected>>
  BY <1>3 DEF ResponseType
<1>4. QED
  BY <1>1, <1>2, <1>3

LEMMA LoopStepsBase ==
    ASSUME BaseInv, NEW h \in Handler, RejectEdit(h) \/ SaveEdit(h) \/ SaveFails(h)
    PROVE  BaseInv'
<1>1. /\ store \in Seq(StoredRow) /\ StatusType /\ ResponseType
      /\ at[h] \in Nat /\ faults \in Nat /\ saved \in [Handler -> BOOLEAN]
  BY DEF BaseInv, StatusType
<1>2. CASE RejectEdit(h)
  <2>1. ResponseType'
    BY <1>1, <1>2, ResponseGrows DEF RejectEdit
  <2>2. /\ hpc[h] = "validate" /\ next_edit(h)
        /\ UNCHANGED <<store, saved, now, key, edits, faults>>
    BY <1>2 DEF RejectEdit, request_vars
  <2>3. QED
    BY <1>1, <2>1, <2>2, LoopBase
<1>3. CASE SaveFails(h)
  <2>1. ResponseType'
    BY <1>1, <1>3, ResponseGrows DEF SaveFails
  <2>2. /\ hpc[h] = "save" /\ next_edit(h) /\ fault("save", TRUE)
        /\ UNCHANGED <<store, saved, now, key, edits>>
    BY <1>3 DEF SaveFails, request_vars
  <2>3. faults' \in Nat
    BY <1>1, <2>2, FaultCounts
  <2>4. QED
    BY <1>1, <2>1, <2>2, <2>3, LoopBase
<1>4. CASE SaveEdit(h)
  <2>1. ResponseType'
    BY <1>1, <1>4, ResponseGrows DEF SaveEdit
  <2>2. /\ hpc[h] = "save" /\ next_edit(h) /\ store' = Save(store, new_stored(h))
        /\ saved' = [saved EXCEPT ![h] = TRUE] /\ UNCHANGED <<now, key, edits, faults>>
    BY <1>4 DEF SaveEdit, request_vars
  <2>3. store' \in Seq(StoredRow)
    BY <1>1, <2>2, BaseTyped, NewRowTyped, SaveTyped
  <2>4. saved' \in [Handler -> BOOLEAN]
    BY <1>1, <2>2
  <2>5. QED
    BY <1>1, <2>1, <2>2, <2>3, <2>4, LoopBase
<1>5. QED
  BY <1>2, <1>3, <1>4

LEMMA AdmitBase ==
    ASSUME BaseInv, NEW h \in Handler, NEW b \in BOOLEAN, AdmitEdit(h, b)
    PROVE  BaseInv'
<1> DEFINE n == IF b THEN 0 ELSE count(h)
           v == Validate(key[h], edits[h][at[h]], n)
<1>1. /\ hpc[h] = "validate" /\ v \in Stored /\ fault("count", b)
      /\ verdict' = [verdict EXCEPT ![h] = v] /\ hpc' = [hpc EXCEPT ![h] = "save"]
      /\ UNCHANGED <<store, now, key, edits, at, accepted, rejected, flagged, saved>>
  BY DEF AdmitEdit, request_vars, response_vars
<1>2. StatusType /\ RequestType /\ ResponseType /\ HandlersOK /\ SavedIsVerified
  BY DEF BaseInv
<1>3. key[h] \in Key /\ edit_of(h) \in WireEdit /\ at[h] \in DOMAIN edits[h]
  BY <1>1, <1>2, RequestKept DEF HandlersOK, PlaceOK
<1>4. sig_matches(key[h], edit_of(h)) /\ edit_of(h).sig # None
  BY <1>1, <1>3, AdmittedIsSigned DEF edit_of
<1> HIDE DEF v, n
<1>5. faults' \in Nat
  BY <1>1, <1>2, FaultCounts DEF StatusType
<1>6. verdict' \in [Handler -> Stored \cup {""}] /\ verdict'[h] = v
  BY <1>1, <1>2 DEF StatusType
<1>7. hpc' \in [Handler -> HPC] /\ hpc'[h] = "save"
  BY <1>1, <1>2 DEF StatusType, HPC
<1>8. \A g \in Handler \ {h} : hpc'[g] = hpc[g] /\ verdict'[g] = verdict[g]
  BY <1>1, <1>2 DEF StatusType
<1>9. HandlersOK'
  BY <1>1, <1>2, <1>3, <1>6, <1>7, <1>8 DEF HandlersOK, PlaceOK
<1>10. SavedIsVerified'
  BY <1>1, <1>2, <1>4, <1>7, <1>8 DEF SavedIsVerified, edit_of, sig_matches
<1>11. StatusType' /\ RequestType' /\ ResponseType'
  BY <1>1, <1>2, <1>5, <1>6, <1>7 DEF StatusType, RequestType, ResponseType
<1>12. QED
  BY <1>1, <1>9, <1>10, <1>11 DEF BaseInv

\* Retention moves a handler that is past its last edit.
LEMMA RetentionBase ==
    ASSUME BaseInv, NEW h \in Handler, StripOld(h) \/ StripOverflow(h) \/ RetentionFails(h)
    PROVE  BaseInv'
<1>1. /\ store \in Seq(StoredRow)
      /\ StatusType /\ RequestType /\ ResponseType /\ HandlersOK /\ SavedIsVerified
  BY DEF BaseInv
<1>2. /\ hpc[h] \in {"strip_old", "strip_overflow"}
      /\ \E l \in {"strip_overflow", "reply"} : hpc' = [hpc EXCEPT ![h] = l]
      /\ UNCHANGED <<now, key, edits, at, verdict, saved>>
  BY DEF StripOld, StripOverflow, RetentionFails, request_vars
<1>3. store' \in Seq(StoredRow)
  <2>1. store' = store \/ \E ids : store' = strip_where(store, ids)
    BY DEF StripOld, StripOverflow, RetentionFails
  <2>2. QED
    BY <1>1, <2>1, StripWhereTyped
<1>4. faults' \in Nat
  <2>1. faults \in Nat
    BY <1>1 DEF StatusType
  <2>2. faults' = faults \/ fault("retain", TRUE)
    BY DEF StripOld, StripOverflow, RetentionFails
  <2>3. QED
    BY <2>1, <2>2, FaultCounts
<1>5. ResponseType'
  <2>1. \/ UNCHANGED <<accepted, rejected, flagged>>
        \/ /\ rejected' = [rejected EXCEPT ![h] = @ \cup {RetentionIndex}]
           /\ UNCHANGED <<accepted, flagged>>
    BY DEF StripOld, StripOverflow, RetentionFails, response_vars
  <2>2. CASE UNCHANGED <<accepted, rejected, flagged>>
    BY <1>1, <2>2 DEF ResponseType
  <2>3. CASE /\ rejected' = [rejected EXCEPT ![h] = @ \cup {RetentionIndex}]
             /\ UNCHANGED <<accepted, flagged>>
    BY <1>1, <2>3, ResponseGrows
  <2>4. QED
    BY <2>1, <2>2, <2>3
<1>6. /\ hpc' \in [Handler -> HPC] /\ hpc'[h] \in {"strip_overflow", "reply"}
      /\ \A g \in Handler \ {h} : hpc'[g] = hpc[g]
  BY <1>1, <1>2 DEF StatusType, HPC
<1>7. HandlersOK'
  BY <1>1, <1>2, <1>6 DEF HandlersOK, PlaceOK
<1>8. SavedIsVerified'
  BY <1>1, <1>2, <1>6 DEF SavedIsVerified, edit_of, sig_matches
<1>9. StatusType' /\ RequestType'
  BY <1>1, <1>2, <1>4, <1>6 DEF StatusType, RequestType
<1>10. QED
  BY <1>3, <1>5, <1>7, <1>8, <1>9 DEF BaseInv

LEMMA EndBase ==
    ASSUME BaseInv, NEW h \in Handler, Reply(h) \/ Abort(h)
    PROVE  BaseInv'
<1>1. /\ store \in Seq(StoredRow)
      /\ StatusType /\ RequestType /\ ResponseType /\ HandlersOK /\ SavedIsVerified
  BY DEF BaseInv
<1>2. end_request(h) /\ UNCHANGED <<store, now>>
  BY DEF Reply, Abort
<1>3. faults' \in Nat
  <2>1. faults \in Nat
    BY <1>1 DEF StatusType
  <2>2. faults' = faults \/ fault("abort", TRUE)
    BY DEF Reply, Abort
  <2>3. QED
    BY <2>1, <2>2, FaultCounts
<1>4. /\ hpc' \in [Handler -> HPC] /\ hpc'[h] = "idle"
      /\ \A g \in Handler \ {h} : hpc'[g] = hpc[g]
  BY <1>1, <1>2 DEF end_request, StatusType, HPC
<1>5. /\ verdict' \in [Handler -> Stored \cup {""}] /\ verdict'[h] = ""
      /\ \A g \in Handler \ {h} : verdict'[g] = verdict[g]
  BY <1>1, <1>2 DEF end_request, StatusType
<1>6. /\ at' \in [Handler -> Nat \ {0}] /\ saved' \in [Handler -> BOOLEAN]
      /\ \A g \in Handler \ {h} : at'[g] = at[g]
  <2>1. at \in [Handler -> Nat \ {0}] /\ saved \in [Handler -> BOOLEAN]
    BY <1>1 DEF StatusType
  <2>2. at' = [at EXCEPT ![h] = 1] /\ saved' = [saved EXCEPT ![h] = FALSE]
    BY <1>2 DEF end_request
  <2>3. QED
    BY <2>1, <2>2
<1>7. RequestType' /\ \A g \in Handler \ {h} : key'[g] = key[g] /\ edits'[g] = edits[g]
  <2>1. key \in [Handler -> Key \cup {None}] /\ edits \in [Handler -> Seq(WireEdit)]
    BY <1>1 DEF RequestType
  <2>2. key' = [key EXCEPT ![h] = None] /\ edits' = [edits EXCEPT ![h] = <<>>]
    BY <1>2 DEF end_request
  <2>3. key' \in [Handler -> Key \cup {None}] /\ edits' \in [Handler -> Seq(WireEdit)]
    BY <2>1, <2>2
  <2>4. QED
    BY <2>1, <2>2, <2>3 DEF RequestType
<1>8. ResponseType'
  BY <1>1, <1>2 DEF end_request, ResponseType
<1>9. HandlersOK'
  BY <1>1, <1>4, <1>5, <1>6, <1>7 DEF HandlersOK, PlaceOK, Stored
<1>10. SavedIsVerified'
  BY <1>1, <1>4, <1>6, <1>7 DEF SavedIsVerified, edit_of, sig_matches
<1>11. StatusType'
  BY <1>1, <1>2, <1>3, <1>4, <1>5, <1>6 DEF StatusType
<1>12. QED
  BY <1>1, <1>2, <1>7, <1>8, <1>9, <1>10, <1>11 DEF BaseInv

LEMMA QuietBase ==
    ASSUME BaseInv, TickNow \/ UNCHANGED ingest_vars
    PROVE  BaseInv'
<1>1. /\ UNCHANGED <<store, hpc, key, edits, at, verdict, accepted, rejected, flagged, saved,
                     faults>>
      /\ now' \in {now, now + 1}
  BY DEF TickNow, ingest_vars, request_vars, response_vars
<1>2. now' \in Nat
  <2>1. now \in Nat
    BY DEF BaseInv, StatusType
  <2>2. QED
    BY <1>1, <2>1
<1>3. QED
  BY <1>1, <1>2 DEF BaseInv, StatusType, RequestType, ResponseType, HandlersOK, PlaceOK,
              SavedIsVerified, edit_of, sig_matches

LEMMA InitBase == IngestInit => BaseInv
<1> SUFFICES ASSUME IngestInit PROVE BaseInv
  OBVIOUS
<1>1. store \in Seq(StoredRow)
  <2>1. store = <<>>
    BY DEF IngestInit
  <2>2. QED
    BY <2>1
<1>2. RequestType /\ ResponseType
  <2>1. /\ key = [h \in Handler |-> None] /\ edits = [h \in Handler |-> <<>>]
        /\ accepted = [h \in Handler |-> 0] /\ rejected = [h \in Handler |-> {}]
        /\ flagged = [h \in Handler |-> {}]
    BY DEF IngestInit
  <2>2. QED
    BY <2>1 DEF RequestType, ResponseType
<1>3. StatusType
  <2>1. /\ now = 0 /\ faults = 0 /\ at = [h \in Handler |-> 1]
    BY DEF IngestInit
  <2>2. /\ hpc = [h \in Handler |-> "idle"] /\ verdict = [h \in Handler |-> ""]
        /\ saved = [h \in Handler |-> FALSE]
    BY DEF IngestInit
  <2>3. /\ now \in Nat /\ faults \in Nat /\ at \in [Handler -> Nat \ {0}]
    BY <2>1
  <2>4. hpc \in [Handler -> HPC] /\ verdict \in [Handler -> Stored \cup {""}]
        /\ saved \in [Handler -> BOOLEAN]
    BY <2>2 DEF HPC
  <2>5. QED
    BY <2>3, <2>4 DEF StatusType
<1>4. HandlersOK /\ SavedIsVerified
  BY DEF IngestInit, HandlersOK, PlaceOK, SavedIsVerified, Stored
<1>5. QED
  BY <1>1, <1>2, <1>3, <1>4 DEF BaseInv

LEMMA NextBase == BaseInv /\ [OpenNext]_ingest_vars => BaseInv'
<1> SUFFICES ASSUME BaseInv, [OpenNext]_ingest_vars PROVE BaseInv'
  OBVIOUS
<1>1. ASSUME NEW h \in Handler, AnyRequest(h) PROVE BaseInv'
  BY <1>1, ReceiveBase DEF AnyRequest
<1>2. ASSUME NEW h \in Handler, Work(h) PROVE BaseInv'
  BY <1>2, LoopStepsBase, AdmitBase, RetentionBase DEF Work
<1>3. ASSUME NEW h \in Handler, Reply(h) \/ Abort(h) PROVE BaseInv'
  BY <1>3, EndBase
<1>4. CASE TickNow \/ UNCHANGED ingest_vars
  BY <1>4, QuietBase
<1>5. QED
  BY <1>1, <1>2, <1>3, <1>4 DEF OpenNext

-----------------------------------------------------------------------------
(***************************************************************************)
(* The table: a row is appended, or texts are stripped.                    *)
(***************************************************************************)
sigs(s) == {s[i].sig : i \in DOMAIN s}

LEMMA SaveAppends ==
    ASSUME NEW s \in Seq(StoredRow), NEW r \in StoredRow
    PROVE  \/ Save(s, r) = s /\ r.sig \in sigs(s)
           \/ /\ r.sig \notin sigs(s)
              /\ DOMAIN Save(s, r) = DOMAIN s \cup {Len(s) + 1}
              /\ Len(s) + 1 \notin DOMAIN s
              /\ \A i \in DOMAIN s : Save(s, r)[i] = s[i]
              /\ Save(s, r)[Len(s) + 1] = r
<1>1. CASE \E i \in DOMAIN s : s[i].sig = r.sig
  BY <1>1 DEF Save, sigs
<1>2. CASE ~\E i \in DOMAIN s : s[i].sig = r.sig
  <2>1. Save(s, r) = Append(s, r) /\ r.sig \notin sigs(s)
    BY <1>2 DEF Save, sigs
  <2>2. QED
    BY <2>1
<1>3. QED
  BY <1>1, <1>2

LEMMA TableStep ==
    ASSUME [OpenNext]_ingest_vars
    PROVE  \/ store' = store
           \/ \E ids : store' = strip_where(store, ids)
           \/ \E h \in Handler : SaveEdit(h)
<1>1. ASSUME NEW h \in Handler, AnyRequest(h) \/ Work(h) \/ Reply(h) \/ Abort(h)
      PROVE  store' = store \/ (\E ids : store' = strip_where(store, ids)) \/ SaveEdit(h)
  BY <1>1 DEF AnyRequest, Receive, Work, RejectEdit, AdmitEdit, SaveFails, StripOld,
     StripOverflow, RetentionFails, Reply, Abort
<1>2. CASE TickNow \/ UNCHANGED ingest_vars
  BY <1>2 DEF TickNow, ingest_vars
<1>3. QED
  BY <1>1, <1>2 DEF OpenNext

\* What SaveEdit does to the table.
LEMMA SaveEditStores ==
    ASSUME BaseInv, NEW h \in Handler, SaveEdit(h)
    PROVE  /\ new_stored(h) \in StoredRow /\ new_stored(h).sig = edit_of(h).sig
           /\ \/ store' = store /\ edit_of(h).sig \in sigs(store)
              \/ /\ edit_of(h).sig \notin sigs(store)
                 /\ DOMAIN store' = DOMAIN store \cup {Len(store) + 1}
                 /\ Len(store) + 1 \notin DOMAIN store
                 /\ \A i \in DOMAIN store : store'[i] = store[i]
                 /\ store'[Len(store) + 1] = new_stored(h)
<1>1. /\ hpc[h] = "save" /\ store' = Save(store, new_stored(h))
      /\ store \in Seq(StoredRow) /\ IngestTypeOK /\ SavedIsVerified
  BY BaseTyped DEF SaveEdit, BaseInv
<1>2. new_stored(h) \in StoredRow /\ new_stored(h).sig = edit_of(h).sig
  BY <1>1, NewRowTyped
<1>3. \/ store' = store /\ new_stored(h).sig \in sigs(store)
      \/ /\ new_stored(h).sig \notin sigs(store)
         /\ DOMAIN store' = DOMAIN store \cup {Len(store) + 1}
         /\ Len(store) + 1 \notin DOMAIN store
         /\ \A i \in DOMAIN store : store'[i] = store[i]
         /\ store'[Len(store) + 1] = new_stored(h)
  <2>1. PICK r : r = new_stored(h)
    OBVIOUS
  <2>2. store \in Seq(StoredRow) /\ r \in StoredRow /\ store' = Save(store, r)
    BY <1>1, <1>2, <2>1
  <2>3. \/ Save(store, r) = store /\ r.sig \in sigs(store)
        \/ /\ r.sig \notin sigs(store)
           /\ DOMAIN Save(store, r) = DOMAIN store \cup {Len(store) + 1}
           /\ Len(store) + 1 \notin DOMAIN store
           /\ \A i \in DOMAIN store : Save(store, r)[i] = store[i]
           /\ Save(store, r)[Len(store) + 1] = r
    BY ONLY <2>2, SaveAppends
  <2>4. QED
    BY <2>1, <2>2, <2>3
<1>4. QED
  BY <1>2, <1>3

\* No row disappears, and no signature.
LEMMA RowsStay ==
    ASSUME BaseInv, [OpenNext]_ingest_vars
    PROVE  /\ \A i \in DOMAIN store :
                i \in DOMAIN store' /\ store'[i] \in {store[i], strip(store[i])}
           /\ sigs(store) \subseteq sigs(store')
<1>1. store \in Seq(StoredRow)
  BY DEF BaseInv
<1>2. \A i \in DOMAIN store :
        i \in DOMAIN store' /\ store'[i] \in {store[i], strip(store[i])}
  <2>1. CASE store' = store
    BY <2>1
  <2>2. ASSUME NEW ids, store' = strip_where(store, ids)
        PROVE  \A i \in DOMAIN store :
                 i \in DOMAIN store' /\ store'[i] \in {store[i], strip(store[i])}
    BY <1>1, <2>2, StripWhereTyped
  <2>3. ASSUME NEW h \in Handler, SaveEdit(h)
        PROVE  \A i \in DOMAIN store :
                 i \in DOMAIN store' /\ store'[i] \in {store[i], strip(store[i])}
    BY <2>3, SaveEditStores
  <2>4. QED
    BY <2>1, <2>2, <2>3, TableStep
<1>3. \A i \in DOMAIN store : store'[i].sig = store[i].sig
  BY <1>1, <1>2, StripKeeps
<1>4. QED
  BY <1>2, <1>3 DEF sigs

LEMMA OnceStep ==
    ASSUME BaseInv, StoredOnce, [OpenNext]_ingest_vars
    PROVE  StoredOnce'
<1>1. store \in Seq(StoredRow)
  BY DEF BaseInv
<1>2. CASE store' = store
  BY <1>2 DEF StoredOnce
<1>3. ASSUME NEW ids, store' = strip_where(store, ids) PROVE StoredOnce'
  <2>1. DOMAIN store' = DOMAIN store /\ \A i \in DOMAIN store : store'[i].sig = store[i].sig
    BY <1>1, <1>3, StripWhereTyped, StripKeeps
  <2>2. QED
    BY <2>1 DEF StoredOnce
<1>4. ASSUME NEW h \in Handler, SaveEdit(h) PROVE StoredOnce'
  BY <1>4, SaveEditStores DEF StoredOnce, sigs
<1>5. QED
  BY <1>2, <1>3, <1>4, TableStep

\* A row's signature covers it, except for a stripped text.
Covers(r) ==
    /\ compute_record_sig(r.key, r.ts, r.event, r.repo) = [r.sig EXCEPT !.diff = r.event.diff]
    /\ r.event.diff \in {r.sig.diff, prune_text(r.sig.diff)}

LEMMA StripCovered ==
    ASSUME NEW r \in StoredRow, Covers(r)
    PROVE  Covers(strip(r))
<1>1. prune_text(prune_text(r.sig.diff)) = prune_text(r.sig.diff)
  BY DEF prune_text
<1>2. strip(r).event.diff = prune_text(r.sig.diff)
  BY <1>1, StripKeeps DEF Covers
<1>3. compute_record_sig(strip(r).key, strip(r).ts, strip(r).event, strip(r).repo)
        = [compute_record_sig(r.key, r.ts, r.event, r.repo) EXCEPT !.diff = strip(r).event.diff]
  BY StripKeeps DEF compute_record_sig
<1>4. r.sig \in Signature
  BY DEF StoredRow
<1>5. compute_record_sig(strip(r).key, strip(r).ts, strip(r).event, strip(r).repo)
        = [r.sig EXCEPT !.diff = strip(r).event.diff]
  BY <1>3, <1>4 DEF Covers, Signature
<1>6. QED
  BY <1>2, <1>5, StripKeeps DEF Covers

LEMMA NewRowCovered ==
    ASSUME BaseInv, NEW h \in Handler, SaveEdit(h)
    PROVE  Covers(new_stored(h))
<1>1. /\ new_stored(h) = [key |-> key[h], sig |-> edit_of(h).sig, event |-> edit_of(h).event,
                          repo |-> edit_of(h).repo, ts |-> edit_of(h).ts,
                          status |-> verdict[h], received |-> now]
      /\ new_stored(h) \in StoredRow
  BY BaseTyped, NewRowTyped DEF SaveEdit
<1>2. edit_of(h).sig = compute_record_sig(key[h], edit_of(h).ts, edit_of(h).event, edit_of(h).repo)
  BY DEF SaveEdit, BaseInv, SavedIsVerified, sig_matches
<1>3. /\ new_stored(h).sig.diff = new_stored(h).event.diff
      /\ new_stored(h).sig = compute_record_sig(new_stored(h).key, new_stored(h).ts,
                                                new_stored(h).event, new_stored(h).repo)
  BY <1>1, <1>2 DEF compute_record_sig
<1>4. new_stored(h).sig \in Signature
  BY <1>1 DEF StoredRow
<1>5. [new_stored(h).sig EXCEPT !.diff = new_stored(h).event.diff] = new_stored(h).sig
  BY <1>3, <1>4 DEF Signature
<1>6. QED
  BY <1>3, <1>5 DEF Covers

LEMMA SignedIsCovered == StoredIsSigned <=> \A i \in DOMAIN store : Covers(store[i])
BY DEF StoredIsSigned, Covers

LEMMA SignedStep ==
    ASSUME BaseInv, StoredIsSigned, [OpenNext]_ingest_vars
    PROVE  StoredIsSigned'
<1>1. store \in Seq(StoredRow) /\ \A i \in DOMAIN store : Covers(store[i])
  BY SignedIsCovered DEF BaseInv
<1>2. \A i \in DOMAIN store' : Covers(store'[i])
  <2>1. CASE store' = store
    BY <1>1, <2>1
  <2>2. ASSUME NEW ids, store' = strip_where(store, ids)
        PROVE  \A i \in DOMAIN store' : Covers(store'[i])
    BY <1>1, <2>2, StripWhereTyped, StripCovered
  <2>3. ASSUME NEW h \in Handler, SaveEdit(h)
        PROVE  \A i \in DOMAIN store' : Covers(store'[i])
    BY <1>1, <2>3, SaveEditStores, NewRowCovered
  <2>4. QED
    BY <2>1, <2>2, <2>3, TableStep
<1>3. QED
  BY <1>2 DEF StoredIsSigned, Covers

-----------------------------------------------------------------------------
(***************************************************************************)
(* What a step is to one handler.                                          *)
(***************************************************************************)
verdicts(h) == rejected[h] \ {RetentionIndex}

\* No edit of the handler gets a verdict.
Rests(h) ==
    /\ at'[h] = at[h] /\ edits'[h] = edits[h]
    /\ accepted'[h] = accepted[h] /\ flagged'[h] = flagged[h]
    /\ verdicts(h)' = verdicts(h)
    /\ hpc'[h] = "idle" => hpc[h] = "idle"

Begins(h) ==
    /\ hpc[h] = "idle" /\ hpc'[h] # "idle" /\ at'[h] = 1
    /\ accepted'[h] = accepted[h] /\ flagged'[h] = flagged[h] /\ rejected'[h] = rejected[h]

Ends(h) == at'[h] = 1 /\ accepted'[h] = 0 /\ flagged'[h] = {} /\ rejected'[h] = {}

\* The edit in turn gets its verdict: rejected, or in the table.
Turns(h) ==
    /\ at'[h] = at[h] + 1 /\ edits'[h] = edits[h] /\ hpc'[h] # "idle"
    /\ \/ /\ rejected'[h] = rejected[h] \cup {at[h]}
          /\ accepted'[h] = accepted[h] /\ flagged'[h] = flagged[h]
       \/ /\ edit_of(h).sig \in sigs(store')
          /\ rejected'[h] = rejected[h]
          /\ \/ accepted'[h] = accepted[h] + 1 /\ flagged'[h] = flagged[h]
             \/ accepted'[h] = accepted[h] /\ flagged'[h] = flagged[h] \cup {at[h]}

LEMMA TurnStep ==
    ASSUME BaseInv, NEW h \in Handler, RejectEdit(h) \/ SaveEdit(h) \/ SaveFails(h)
    PROVE  Turns(h) /\ \A g \in Handler \ {h} : Rests(g)
<1>1. StatusType /\ RequestType /\ ResponseType
  BY DEF BaseInv
<1>2. next_edit(h) /\ edits' = edits
  BY DEF RejectEdit, SaveEdit, SaveFails, request_vars
<1>3. /\ at'[h] = at[h] + 1 /\ hpc'[h] # "idle"
      /\ \A g \in Handler \ {h} : at'[g] = at[g] /\ hpc'[g] = hpc[g]
  BY <1>1, <1>2 DEF next_edit, StatusType
<1>4. CASE RejectEdit(h) \/ SaveFails(h)
  <2>1. rejected' = [rejected EXCEPT ![h] = @ \cup {at[h]}] /\ UNCHANGED <<accepted, flagged>>
    BY <1>4 DEF RejectEdit, SaveFails
  <2>2. /\ rejected'[h] = rejected[h] \cup {at[h]}
        /\ \A g \in Handler \ {h} : rejected'[g] = rejected[g]
    BY <1>1, <2>1 DEF ResponseType
  <2>3. QED
    BY <1>2, <1>3, <2>1, <2>2 DEF Turns, Rests, verdicts
<1>5. CASE SaveEdit(h)
  <2>1. edit_of(h).sig \in sigs(store')
    <3>1. CASE store' = store /\ edit_of(h).sig \in sigs(store)
      BY <3>1
    <3>2. CASE /\ DOMAIN store' = DOMAIN store \cup {Len(store) + 1}
               /\ store'[Len(store) + 1] = new_stored(h)
      BY <1>5, <3>2, SaveEditStores DEF sigs
    <3>3. QED
      BY <1>5, <3>1, <3>2, SaveEditStores
  <2>2. /\ rejected' = rejected
        /\ \/ accepted' = [accepted EXCEPT ![h] = @ + 1] /\ flagged' = flagged
           \/ flagged' = [flagged EXCEPT ![h] = @ \cup {at[h]}] /\ accepted' = accepted
    BY <1>5 DEF SaveEdit
  <2>3. /\ \/ accepted'[h] = accepted[h] + 1 /\ flagged'[h] = flagged[h]
           \/ accepted'[h] = accepted[h] /\ flagged'[h] = flagged[h] \cup {at[h]}
        /\ \A g \in Handler \ {h} : accepted'[g] = accepted[g] /\ flagged'[g] = flagged[g]
    BY <1>1, <2>2 DEF ResponseType
  <2>4. QED
    BY <1>2, <1>3, <2>1, <2>2, <2>3 DEF Turns, Rests, verdicts
<1>6. QED
  BY <1>4, <1>5

LEMMA HandlerStep ==
    ASSUME BaseInv, [OpenNext]_ingest_vars, NEW g \in Handler
    PROVE  Rests(g) \/ Begins(g) \/ Ends(g) \/ Turns(g)
<1>1. StatusType /\ RequestType /\ ResponseType
  BY DEF BaseInv
<1>2. ASSUME NEW h \in Handler, AnyRequest(h) PROVE Rests(g) \/ Begins(g)
  <2>1. PICK k \in Key, es \in Seq(WireEdit) : Receive(h, k, es)
    BY <1>2 DEF AnyRequest
  <2>2. /\ hpc[h] = "idle" /\ hpc' = [hpc EXCEPT ![h] = "validate"]
        /\ edits' = [edits EXCEPT ![h] = es] /\ at' = [at EXCEPT ![h] = 1]
        /\ UNCHANGED <<accepted, rejected, flagged>>
    BY <2>1 DEF Receive, response_vars
  <2>3. CASE g = h
    BY <1>1, <2>2, <2>3 DEF Begins, StatusType
  <2>4. CASE g # h
    BY <1>1, <2>2, <2>4 DEF Rests, verdicts, StatusType, RequestType
  <2>5. QED
    BY <2>3, <2>4
<1>3. ASSUME NEW h \in Handler, NEW b \in BOOLEAN, AdmitEdit(h, b) PROVE Rests(g)
  <2>1. /\ hpc' = [hpc EXCEPT ![h] = "save"]
        /\ UNCHANGED <<edits, at, accepted, rejected, flagged>>
    BY <1>3 DEF AdmitEdit, request_vars, response_vars
  <2>2. QED
    BY <1>1, <2>1 DEF Rests, verdicts, StatusType
<1>4. ASSUME NEW h \in Handler, StripOld(h) \/ StripOverflow(h) \/ RetentionFails(h)
      PROVE  Rests(g)
  <2>1. /\ \E l \in {"strip_overflow", "reply"} : hpc' = [hpc EXCEPT ![h] = l]
        /\ UNCHANGED <<edits, at, accepted, flagged>>
        /\ \/ rejected' = rejected
           \/ rejected' = [rejected EXCEPT ![h] = @ \cup {RetentionIndex}]
    BY <1>4 DEF StripOld, StripOverflow, RetentionFails, request_vars, response_vars
  <2>2. verdicts(g)' = verdicts(g)
    BY <1>1, <2>1 DEF verdicts, ResponseType
  <2>3. QED
    BY <1>1, <2>1, <2>2 DEF Rests, StatusType
<1>5. ASSUME NEW h \in Handler, Reply(h) \/ Abort(h) PROVE Rests(g) \/ Ends(g)
  <2>1. end_request(h)
    BY <1>5 DEF Reply, Abort
  <2>2. CASE g = h
    BY <1>1, <2>1, <2>2 DEF end_request, Ends, StatusType, ResponseType
  <2>3. CASE g # h
    BY <1>1, <2>1, <2>3 DEF end_request, Rests, verdicts, StatusType, RequestType, ResponseType
  <2>4. QED
    BY <2>2, <2>3
<1>6. CASE TickNow \/ UNCHANGED ingest_vars
  BY <1>6 DEF TickNow, ingest_vars, request_vars, response_vars, Rests, verdicts
<1>7. QED
  BY <1>2, <1>3, <1>4, <1>5, <1>6, TurnStep DEF OpenNext, Work

-----------------------------------------------------------------------------
(***************************************************************************)
(* The response.                                                           *)
(***************************************************************************)
LEMMA AcknowledgedStep ==
    ASSUME BaseInv, AcknowledgedIsStored, [OpenNext]_ingest_vars
    PROVE  AcknowledgedIsStored'
<1> SUFFICES ASSUME NEW g \in Handler, NEW i \in (1 .. at[g] - 1)', (i \notin rejected[g])'
             PROVE  edits'[g][i].sig \in sigs(store')
  BY DEF AcknowledgedIsStored, sigs
<1>1. at[g] \in Nat /\ i \in Nat /\ i # RetentionIndex
  <2>1. BaseInv'
    BY NextBase
  <2>2. at[g] \in Nat /\ at'[g] \in Nat
    BY <2>1 DEF BaseInv, StatusType
  <2>3. QED
    BY <2>2 DEF RetentionIndex
<1>2. sigs(store) \subseteq sigs(store')
  BY RowsStay
<1>3. \A j \in 1 .. at[g] - 1 : j \notin rejected[g] => edits[g][j].sig \in sigs(store)
  BY DEF AcknowledgedIsStored, sigs
<1>4. CASE Rests(g)
  BY <1>1, <1>2, <1>3, <1>4 DEF Rests, verdicts
<1>5. CASE Turns(g)
  <2>1. at'[g] = at[g] + 1 /\ edits'[g] = edits[g] /\ i \in 1 .. at[g]
    BY <1>1, <1>5 DEF Turns
  <2>2. CASE i = at[g]
    BY <1>5, <2>1, <2>2 DEF Turns, edit_of
  <2>3. CASE i # at[g]
    <3>1. i \in 1 .. at[g] - 1
      BY <1>1, <2>1, <2>3
    <3>2. i \notin rejected[g]
      BY <1>5 DEF Turns
    <3>3. QED
      BY <1>2, <1>3, <2>1, <3>1, <3>2
  <2>4. QED
    BY <2>2, <2>3
<1>6. CASE at'[g] = 1
  BY <1>6
<1>7. QED
  BY <1>4, <1>5, <1>6, HandlerStep DEF Begins, Ends

\* OneVerdictEach is inductive with this: the verdicts are about edits before
\* the one in turn, and an idle handler gave none.
VerdictsBefore ==
    \A h \in Handler :
        /\ flagged[h] \subseteq 1 .. at[h] - 1
        /\ verdicts(h) \subseteq 1 .. at[h] - 1
        /\ hpc[h] = "idle" => at[h] = 1

VerdictOK(h) ==
    /\ flagged[h] \subseteq 1 .. at[h] - 1
    /\ verdicts(h) \subseteq 1 .. at[h] - 1
    /\ hpc[h] = "idle" => at[h] = 1
    /\ rejected[h] \cap flagged[h] = {}
    /\ accepted[h] + Cardinality(flagged[h]) + Cardinality(verdicts(h)) = at[h] - 1

LEMMA VerdictParts ==
    VerdictsBefore /\ OneVerdictEach <=> \A h \in Handler : VerdictOK(h)
BY DEF VerdictsBefore, OneVerdictEach, VerdictOK, verdicts

\* A verdict more.
LEMMA OneMore ==
    ASSUME NEW n \in Nat \ {0}, NEW S, S \subseteq 1 .. n - 1
    PROVE  /\ S \cup {n} \subseteq 1 .. n /\ n \notin S
           /\ Cardinality(S) \in Nat
           /\ Cardinality(S \cup {n}) = Cardinality(S) + 1
<1>1. IsFiniteSet(1 .. n - 1)
  BY FS_Interval
<1>2. IsFiniteSet(S)
  BY <1>1, FS_Subset
<1>3. Cardinality(S) \in Nat
  BY <1>2, FS_CardinalityType
<1>4. n \notin S
  OBVIOUS
<1>5. Cardinality(S \cup {n}) = Cardinality(S) + 1
  BY <1>2, <1>4, FS_AddElement
<1>6. QED
  BY <1>3, <1>4, <1>5

LEMMA VerdictStep ==
    ASSUME BaseInv, NEW g \in Handler, VerdictOK(g), [OpenNext]_ingest_vars
    PROVE  VerdictOK(g)'
<1>1. /\ at[g] \in Nat \ {0} /\ accepted[g] \in Nat
      /\ rejected[g] \subseteq Nat \cup {RetentionIndex} /\ flagged[g] \subseteq Nat
  BY DEF BaseInv, StatusType, ResponseType
<1>2. CASE Rests(g)
  <2>1. rejected'[g] \cap flagged'[g] = {}
    BY <1>1, <1>2 DEF VerdictOK, Rests, verdicts, RetentionIndex
  <2>2. QED
    BY <1>2, <2>1 DEF VerdictOK, Rests
<1>3. CASE Begins(g)
  BY <1>3 DEF VerdictOK, Begins, verdicts
<1>4. CASE Ends(g)
  <2>1. Cardinality({}) = 0
    BY FS_EmptySet
  <2>2. verdicts(g)' = {} /\ rejected'[g] = {} /\ flagged'[g] = {}
    BY <1>4 DEF Ends, verdicts
  <2>3. at'[g] = 1 /\ accepted'[g] = 0
    BY <1>4 DEF Ends
  <2>4. accepted'[g] + Cardinality(flagged'[g]) + Cardinality(verdicts(g)') = at'[g] - 1
    BY <2>1, <2>2, <2>3
  <2>5. flagged'[g] \subseteq 1 .. at'[g] - 1 /\ verdicts(g)' \subseteq 1 .. at'[g] - 1
    BY <2>2
  <2>6. rejected'[g] \cap flagged'[g] = {}
    BY <2>2
  <2>7. QED
    BY <2>3, <2>4, <2>5, <2>6 DEF VerdictOK
<1>5. CASE Turns(g)
  <2>1. /\ at'[g] = at[g] + 1 /\ hpc'[g] # "idle"
        /\ at[g] \notin flagged[g] /\ at[g] \notin verdicts(g) /\ at[g] # RetentionIndex
    BY <1>1, <1>5 DEF Turns, VerdictOK, RetentionIndex
  <2>2. /\ Cardinality(flagged[g]) \in Nat /\ Cardinality(verdicts(g)) \in Nat
        /\ Cardinality(flagged[g] \cup {at[g]}) = Cardinality(flagged[g]) + 1
        /\ Cardinality(verdicts(g) \cup {at[g]}) = Cardinality(verdicts(g)) + 1
    <3>1. flagged[g] \subseteq 1 .. at[g] - 1 /\ verdicts(g) \subseteq 1 .. at[g] - 1
      BY DEF VerdictOK
    <3>2. PICK n \in Nat \ {0} : n = at[g]
      BY <1>1
    <3>3. \A S : S \subseteq 1 .. n - 1 => /\ Cardinality(S) \in Nat
                                           /\ Cardinality(S \cup {n}) = Cardinality(S) + 1
      BY OneMore
    <3>4. flagged[g] \subseteq 1 .. n - 1 /\ verdicts(g) \subseteq 1 .. n - 1
      BY <3>1, <3>2
    <3>5. QED
      BY <3>2, <3>3, <3>4
  <2>3. CASE rejected'[g] = rejected[g] \cup {at[g]} /\ accepted'[g] = accepted[g]
             /\ flagged'[g] = flagged[g]
    <3>1. verdicts(g)' = verdicts(g) \cup {at[g]}
      BY <2>1, <2>3 DEF verdicts
    <3>2. flagged'[g] \subseteq 1 .. at[g] /\ verdicts(g)' \subseteq 1 .. at[g]
      BY <1>1, <2>3, <3>1 DEF VerdictOK
    <3>3. rejected'[g] \cap flagged'[g] = {}
      BY <2>1, <2>3 DEF VerdictOK
    <3>4. accepted'[g] + Cardinality(flagged'[g]) + Cardinality(verdicts(g)') = at[g]
      BY <1>1, <2>2, <2>3, <3>1 DEF VerdictOK
    <3>5. QED
      BY <1>1, <2>1, <3>2, <3>3, <3>4 DEF VerdictOK
  <2>4. CASE rejected'[g] = rejected[g] /\ accepted'[g] = accepted[g] + 1
             /\ flagged'[g] = flagged[g]
    <3>1. verdicts(g)' = verdicts(g)
      BY <2>4 DEF verdicts
    <3>2. flagged'[g] \subseteq 1 .. at[g] /\ verdicts(g)' \subseteq 1 .. at[g]
      BY <1>1, <2>4, <3>1 DEF VerdictOK
    <3>3. accepted'[g] + Cardinality(flagged'[g]) + Cardinality(verdicts(g)') = at[g]
      BY <1>1, <2>2, <2>4, <3>1 DEF VerdictOK
    <3>4. QED
      BY <1>1, <2>1, <2>4, <3>2, <3>3 DEF VerdictOK
  <2>5. CASE rejected'[g] = rejected[g] /\ accepted'[g] = accepted[g]
             /\ flagged'[g] = flagged[g] \cup {at[g]}
    <3>1. verdicts(g)' = verdicts(g)
      BY <2>5 DEF verdicts
    <3>2. flagged'[g] \subseteq 1 .. at[g] /\ verdicts(g)' \subseteq 1 .. at[g]
      BY <1>1, <2>5, <3>1 DEF VerdictOK
    <3>3. rejected'[g] \cap flagged'[g] = {}
      BY <2>1, <2>5 DEF VerdictOK, verdicts
    <3>4. accepted'[g] + Cardinality(flagged'[g]) + Cardinality(verdicts(g)') = at[g]
      BY <1>1, <2>2, <2>5, <3>1 DEF VerdictOK
    <3>5. QED
      BY <1>1, <2>1, <3>2, <3>3, <3>4 DEF VerdictOK
  <2>6. QED
    BY <1>5, <2>3, <2>4, <2>5 DEF Turns
<1>6. QED
  BY <1>2, <1>3, <1>4, <1>5, HandlerStep

-----------------------------------------------------------------------------
(***************************************************************************)
(* The rate limit.  A handler between its COUNT and its INSERT may add a   *)
(* row the limit did not see: it is counted with the rows it competes      *)
(* with.                                                                   *)
(***************************************************************************)
pending(k, f) ==
    {h \in Handler : hpc[h] = "save" /\ key[h] = k /\ edit_of(h).event.path = f}

RateInv ==
    \A k \in Key, f \in Path :
        Cardinality(recent(k, f)) + Cardinality(pending(k, f))
            <= RateLimit - 1 + Cardinality(Handler) + faults
\* A step of one handler is no step of another.
LEMMA OthersStay ==
    ASSUME BaseInv, NEW h \in Handler, AnyRequest(h) \/ Work(h) \/ Reply(h) \/ Abort(h),
           NEW g \in Handler \ {h}
    PROVE  /\ hpc'[g] = hpc[g] /\ saved'[g] = saved[g]
           /\ key'[g] = key[g] /\ edits'[g] = edits[g] /\ at'[g] = at[g]
<1>1. StatusType /\ RequestType
  BY DEF BaseInv
<1>2. CASE AnyRequest(h)
  BY <1>1, <1>2 DEF AnyRequest, Receive, StatusType, RequestType
<1>3. CASE \E b \in BOOLEAN : AdmitEdit(h, b)
  BY <1>1, <1>3 DEF AdmitEdit, request_vars, StatusType, RequestType
<1>4. CASE RejectEdit(h) \/ SaveEdit(h) \/ SaveFails(h)
  <2>1. /\ next_edit(h) /\ UNCHANGED <<key, edits>>
        /\ saved' = saved \/ saved' = [saved EXCEPT ![h] = TRUE]
    BY <1>4 DEF RejectEdit, SaveEdit, SaveFails, request_vars
  <2>2. QED
    BY <1>1, <2>1 DEF next_edit, StatusType
<1>5. CASE StripOld(h) \/ StripOverflow(h) \/ RetentionFails(h)
  <2>1. /\ \E l \in {"strip_overflow", "reply"} : hpc' = [hpc EXCEPT ![h] = l]
        /\ UNCHANGED <<key, edits, at, saved>>
    BY <1>5 DEF StripOld, StripOverflow, RetentionFails, request_vars
  <2>2. QED
    BY <1>1, <2>1 DEF StatusType
<1>6. CASE Reply(h) \/ Abort(h)
  <2>1. end_request(h)
    BY <1>6 DEF Reply, Abort
  <2>2. QED
    BY <1>1, <2>1 DEF end_request, StatusType, RequestType
<1>7. QED
  BY <1>2, <1>3, <1>4, <1>5, <1>6 DEF Work

LEMMA SaveEntered ==
    ASSUME BaseInv, [OpenNext]_ingest_vars, NEW g \in Handler, hpc'[g] = "save"
    PROVE  /\ key'[g] = key[g] /\ edit_of(g)' = edit_of(g)
           /\ \/ hpc[g] = "save" /\ ~SaveEdit(g)
              \/ \E b \in BOOLEAN : AdmitEdit(g, b)
<1>1. StatusType
  BY DEF BaseInv
<1>2. ~(RejectEdit(g) \/ SaveEdit(g) \/ SaveFails(g))
  <2>1. ~next_edit(g)
    BY <1>1 DEF next_edit, StatusType
  <2>2. QED
    BY <2>1 DEF RejectEdit, SaveEdit, SaveFails
<1>3. ~(StripOld(g) \/ StripOverflow(g) \/ RetentionFails(g))
  BY <1>1 DEF StripOld, StripOverflow, RetentionFails, StatusType
<1>4. ~(AnyRequest(g) \/ Reply(g) \/ Abort(g))
  BY <1>1 DEF AnyRequest, Receive, Reply, Abort, end_request, StatusType
<1>5. ASSUME NEW b \in BOOLEAN, AdmitEdit(g, b)
      PROVE  key'[g] = key[g] /\ edit_of(g)' = edit_of(g)
  BY <1>5 DEF AdmitEdit, request_vars, edit_of
<1>6. ASSUME NEW h \in Handler \ {g}, AnyRequest(h) \/ Work(h) \/ Reply(h) \/ Abort(h)
      PROVE  hpc[g] = "save" /\ key'[g] = key[g] /\ edit_of(g)' = edit_of(g)
  BY <1>6, OthersStay DEF edit_of
<1>7. CASE TickNow \/ UNCHANGED ingest_vars
  <2>1. UNCHANGED <<hpc, key, edits, at>>
    BY <1>7 DEF TickNow, ingest_vars, request_vars
  <2>2. QED
    BY <1>2, <2>1 DEF edit_of
<1>8. CASE \E b \in BOOLEAN : AdmitEdit(g, b)
  BY <1>5, <1>8
<1>9. CASE ~\E b \in BOOLEAN : AdmitEdit(g, b)
  <2>1. ~(AnyRequest(g) \/ Work(g) \/ Reply(g) \/ Abort(g))
    BY <1>2, <1>3, <1>4, <1>9 DEF Work
  <2>2. \/ TickNow \/ UNCHANGED ingest_vars
        \/ \E h \in Handler \ {g} : AnyRequest(h) \/ Work(h) \/ Reply(h) \/ Abort(h)
    BY <2>1 DEF OpenNext
  <2>3. ~SaveEdit(g)
    BY <1>2
  <2>4. QED
    BY <1>6, <1>7, <2>2, <2>3
<1>10. QED
  BY <1>8, <1>9

\* Rows enter the window of the rate limit by SaveEdit only.
LEMMA RecentStep ==
    ASSUME BaseInv, [OpenNext]_ingest_vars, NEW k, NEW f
    PROVE  \/ recent(k, f)' \subseteq recent(k, f)
           \/ \E h \in Handler : /\ SaveEdit(h) /\ h \in pending(k, f)
                                 /\ recent(k, f)' \subseteq recent(k, f) \cup {Len(store) + 1}
<1>1. store \in Seq(StoredRow) /\ now \in Nat /\ Hour \in Nat
  BY IngestAssumption DEF BaseInv, StatusType
<1>2. \A i \in DOMAIN store : store[i] \in StoredRow /\ store[i].received \in Nat
  <2>1. \A r \in StoredRow : r.received \in Nat
    BY DEF StoredRow
  <2>2. \A i \in DOMAIN store : store[i] \in StoredRow
    BY <1>1
  <2>3. QED
    BY <2>1, <2>2
<1>3. \A r \in Nat : r >= now' - Hour => r >= now - Hour
  <2>1. now' = now \/ now' = now + 1
    BY DEF OpenNext, TickNow, AnyRequest, Receive, Work, RejectEdit, AdmitEdit, SaveEdit,
       SaveFails, StripOld, StripOverflow, RetentionFails, Reply, Abort, ingest_vars
  <2>2. \A n, m, r, d \in Nat : (m = n \/ m = n + 1) /\ r >= m - d => r >= n - d
    OBVIOUS
  <2>3. now' \in Nat
    BY <1>1, <2>1
  <2>4. QED
    BY <1>1, <2>1, <2>2, <2>3
<1>4. CASE store' = store
  BY <1>2, <1>4, <1>3 DEF recent
<1>5. ASSUME NEW ids, store' = strip_where(store, ids) PROVE recent(k, f)' \subseteq recent(k, f)
  <2>1. /\ DOMAIN store' = DOMAIN store
        /\ \A i \in DOMAIN store : /\ store'[i].key = store[i].key
                                   /\ store'[i].event.path = store[i].event.path
                                   /\ store'[i].received = store[i].received
    BY <1>1, <1>2, <1>5, StripWhereTyped, StripKeeps
  <2>2. QED
    BY <1>2, <1>3, <2>1 DEF recent
<1>6. ASSUME NEW h \in Handler, SaveEdit(h), store' # store
      PROVE  \/ recent(k, f)' \subseteq recent(k, f)
             \/ /\ h \in pending(k, f)
                /\ recent(k, f)' \subseteq recent(k, f) \cup {Len(store) + 1}
  <2>1. now' = now /\ hpc[h] = "save"
    BY <1>6 DEF SaveEdit
  <2>2. /\ DOMAIN store' = DOMAIN store \cup {Len(store) + 1}
        /\ \A i \in DOMAIN store : store'[i] = store[i]
        /\ store'[Len(store) + 1] = new_stored(h)
    BY <1>6, SaveEditStores
  <2>3. new_stored(h).key = key[h] /\ new_stored(h).event = edit_of(h).event
    BY DEF new_stored, edit_of
  <2>4. recent(k, f)' \subseteq recent(k, f) \cup {Len(store) + 1}
    BY <2>1, <2>2 DEF recent
  <2>5. CASE Len(store) + 1 \notin recent(k, f)'
    BY <2>4, <2>5
  <2>6. CASE Len(store) + 1 \in recent(k, f)'
    BY <2>1, <2>2, <2>3, <2>4, <2>6 DEF recent, pending
  <2>7. QED
    BY <2>5, <2>6
<1>7. QED
  BY <1>4, <1>5, <1>6, TableStep

\* Sets that grow or shrink by an element.
LEMMA CardGrows ==
    ASSUME NEW S, IsFiniteSet(S), NEW x, NEW T, T \subseteq S \cup {x}
    PROVE  /\ IsFiniteSet(T) /\ Cardinality(S) \in Nat /\ Cardinality(T) \in Nat
           /\ Cardinality(T) <= Cardinality(S) + 1
           /\ x \notin T => Cardinality(T) <= Cardinality(S)
           /\ T \subseteq S => Cardinality(T) <= Cardinality(S)
<1>1. IsFiniteSet(S \cup {x}) /\ Cardinality(S \cup {x}) <= Cardinality(S) + 1
  <2>1. Cardinality(S) \in Nat
    BY FS_CardinalityType
  <2>2. /\ IsFiniteSet(S \cup {x})
        /\ Cardinality(S \cup {x})
             = IF x \in S THEN Cardinality(S) ELSE Cardinality(S) + 1
    BY FS_AddElement
  <2>3. QED
    BY <2>1, <2>2
<1>2. IsFiniteSet(T) /\ Cardinality(T) <= Cardinality(S \cup {x})
  BY <1>1, FS_Subset
<1>3. /\ Cardinality(S) \in Nat /\ Cardinality(T) \in Nat
      /\ Cardinality(S \cup {x}) \in Nat
  BY <1>1, <1>2, FS_CardinalityType
<1>4. T \subseteq S => Cardinality(T) <= Cardinality(S)
  BY FS_Subset
<1>5. x \notin T => T \subseteq S
  OBVIOUS
<1>6. QED
  BY <1>1, <1>2, <1>3, <1>4, <1>5

LEMMA CardShrinks ==
    ASSUME NEW S, IsFiniteSet(S), NEW x \in S, NEW T, T \subseteq S \ {x}
    PROVE  Cardinality(T) <= Cardinality(S) - 1
<1>1. IsFiniteSet(S \ {x}) /\ Cardinality(S \ {x}) = Cardinality(S) - 1
  BY FS_RemoveElement
<1>2. QED
  BY <1>1, FS_Subset

LEMMA RatesFinite ==
    ASSUME BaseInv, NEW k, NEW f
    PROVE  /\ IsFiniteSet(recent(k, f)) /\ Len(store) + 1 \notin recent(k, f)
           /\ IsFiniteSet(pending(k, f)) /\ pending(k, f) \subseteq Handler
<1>1. DOMAIN store = 1 .. Len(store) /\ Len(store) \in Nat
  BY DEF BaseInv
<1>2. IsFiniteSet(1 .. Len(store))
  BY <1>1, FS_Interval
<1>3. IsFiniteSet(recent(k, f)) /\ Len(store) + 1 \notin recent(k, f)
  BY <1>1, <1>2, FS_Subset DEF recent
<1>4. IsFiniteSet(pending(k, f)) /\ pending(k, f) \subseteq Handler
  BY IngestAssumption, FS_Subset DEF pending
<1>5. QED
  BY <1>3, <1>4

LEMMA FaultsGrow ==
    ASSUME BaseInv, [OpenNext]_ingest_vars
    PROVE  faults \in Nat /\ faults' \in Nat /\ faults' >= faults
<1>1. faults \in Nat
  BY DEF BaseInv, StatusType
<1>2. faults' = faults \/ faults' = faults + 1
  BY DEF OpenNext, TickNow, AnyRequest, Receive, Work, RejectEdit, AdmitEdit, SaveEdit,
     SaveFails, StripOld, StripOverflow, RetentionFails, Reply, Abort, ingest_vars, fault
<1>3. QED
  BY <1>1, <1>2

\* What AdmitEdit saw.
LEMMA AdmittedBelowLimit ==
    ASSUME NEW h \in Handler, AdmitEdit(h, FALSE)
    PROVE  ~(count(h) >= RateLimit)
BY DEF AdmitEdit, Validate, Stored

LEMMA RateStep ==
    ASSUME BaseInv, RateInv, [OpenNext]_ingest_vars, NEW k \in Key, NEW f \in Path
    PROVE  Cardinality(recent(k, f)') + Cardinality(pending(k, f)')
             <= RateLimit - 1 + Cardinality(Handler) + faults'
<1> DEFINE R == recent(k, f)
           P == pending(k, f)
           H == Cardinality(Handler)
<1>1. /\ IsFiniteSet(R) /\ Len(store) + 1 \notin R /\ IsFiniteSet(P) /\ P \subseteq Handler
      /\ IsFiniteSet(Handler) /\ P' \subseteq Handler
  BY RatesFinite, IngestAssumption DEF pending
<1>2. /\ Cardinality(R) \in Nat /\ Cardinality(P) \in Nat /\ H \in Nat
      /\ IsFiniteSet(P') /\ Cardinality(P') \in Nat /\ Cardinality(P') <= H
  BY <1>1, FS_CardinalityType, FS_Subset
<1>3. faults \in Nat /\ faults' \in Nat /\ faults' >= faults /\ RateLimit \in Nat \ {0}
  BY FaultsGrow, IngestAssumption
<1>4. Cardinality(R) + Cardinality(P) <= RateLimit - 1 + H + faults
  BY DEF RateInv
<1>5. ASSUME NEW h \in Handler, NEW b \in BOOLEAN, AdmitEdit(h, b)
      PROVE  Cardinality(R') + Cardinality(P') <= RateLimit - 1 + H + faults'
  <2>1. /\ hpc' = [hpc EXCEPT ![h] = "save"] /\ UNCHANGED <<store, now, key, edits, at>>
        /\ fault("count", b)
    BY <1>5 DEF AdmitEdit, request_vars
  <2>2. R' = R
    BY <2>1 DEF recent
  <2>3. P' \subseteq P \cup {h}
    <3>1. hpc \in [Handler -> HPC]
      BY DEF BaseInv, StatusType
    <3>2. QED
      BY <2>1, <3>1 DEF pending, edit_of
  <2> HIDE DEF R, P, H
  <2>4. /\ Cardinality(P') <= Cardinality(P) + 1
        /\ h \notin P' => Cardinality(P') <= Cardinality(P)
    BY <1>1, <2>3, CardGrows
  <2>5. CASE b = TRUE
    <3>1. faults' = faults + 1
      BY <1>3, <2>1, <2>5, FaultCounts
    <3>2. QED
      BY <1>2, <1>3, <1>4, <2>2, <2>4, <3>1
  <2>6. CASE b = FALSE /\ h \notin P'
    <3>1. Cardinality(P') <= Cardinality(P)
      BY <2>4, <2>6
    <3>2. QED
      BY <1>2, <1>3, <1>4, <2>2, <3>1
  <2>7. CASE b = FALSE /\ h \in P'
    <3>1. count(h) = Cardinality(R)
      BY <2>1, <2>7 DEF P, R, pending, edit_of, count
    <3>2. ~(Cardinality(R) >= RateLimit)
      BY <1>5, <2>7, <3>1, AdmittedBelowLimit
    <3>3. QED
      BY <1>2, <1>3, <2>2, <3>2
  <2>8. QED
    BY <2>5, <2>6, <2>7
<1>6. CASE ~\E h \in Handler, b \in BOOLEAN : AdmitEdit(h, b)
  <2>1. P' \subseteq P
    BY <1>6, SaveEntered DEF pending
  <2>2. CASE R' \subseteq R
    <3> HIDE DEF R, P, H
    <3>1. Cardinality(R') <= Cardinality(R) /\ Cardinality(P') <= Cardinality(P)
          /\ Cardinality(R') \in Nat
      BY <1>1, <2>1, <2>2, FS_Subset, FS_CardinalityType
    <3>2. QED
      BY <1>2, <1>3, <1>4, <3>1 DEF R, P, H
  <2>3. ASSUME NEW h \in Handler, SaveEdit(h), h \in P, R' \subseteq R \cup {Len(store) + 1}
        PROVE  Cardinality(R') + Cardinality(P') <= RateLimit - 1 + H + faults'
    <3>1. h \notin P'
      <4>1. hpc'[h] # "save"
        BY <2>3 DEF SaveEdit, next_edit, BaseInv, StatusType
      <4>2. QED
        BY <4>1 DEF pending
    <3> HIDE DEF R, P, H
    <3>2. Cardinality(P') <= Cardinality(P) - 1
      BY <1>1, <2>1, <2>3, <3>1, CardShrinks
    <3>3. Cardinality(R') <= Cardinality(R) + 1 /\ Cardinality(R') \in Nat
      BY <1>1, <2>3, CardGrows
    <3>4. QED
      BY <1>2, <1>3, <1>4, <3>2, <3>3
  <2>4. QED
    BY <2>2, <2>3, RecentStep
<1>7. QED
  BY <1>5, <1>6

-----------------------------------------------------------------------------
(***************************************************************************)
(* The retention policy.                                                   *)
(***************************************************************************)
\* The rows newer than a row.
ahead(s, i) == {j \in DOMAIN s : newer(s, j, i)}

LEMMA NewerOrders ==
    ASSUME NEW s \in Seq(StoredRow)
    PROVE  \A i, j \in DOMAIN s :
             i # j => \/ ahead(s, i) \subseteq ahead(s, j) /\ i \in ahead(s, j) \ ahead(s, i)
                      \/ ahead(s, j) \subseteq ahead(s, i) /\ j \in ahead(s, i) \ ahead(s, j)
<1>1. DOMAIN s \subseteq Nat
  <2>1. DOMAIN s = 1 .. Len(s) /\ Len(s) \in Nat
    OBVIOUS
  <2>2. QED
    BY <2>1
<1>2. \A i \in DOMAIN s : s[i].received \in Nat
  <2>1. \A r \in StoredRow : r.received \in Nat
    BY DEF StoredRow
  <2>2. \A i \in DOMAIN s : s[i] \in StoredRow
    OBVIOUS
  <2>3. QED
    BY <2>1, <2>2
<1>3. \A i, j \in DOMAIN s : newer(s, i, j) => ~newer(s, j, i)
  BY <1>1, <1>2 DEF newer
<1>4. \A i, j, m \in DOMAIN s : newer(s, i, j) /\ newer(s, j, m) => newer(s, i, m)
  BY <1>1, <1>2 DEF newer
<1>5. \A i, j \in DOMAIN s : i # j => newer(s, i, j) \/ newer(s, j, i)
  BY <1>1, <1>2 DEF newer
<1>6. QED
  BY <1>3, <1>4, <1>5 DEF ahead

\* All but MaxRawRows rows overflow: the rows that do not have different
\* numbers of newer rows, below MaxRawRows.
LEMMA OverflowLeavesFew ==
    ASSUME NEW s \in Seq(StoredRow)
    PROVE  Cardinality(DOMAIN s \ overflow_ids(s)) <= MaxRawRows
<1> DEFINE D == DOMAIN s \ overflow_ids(s)
           f == [i \in D |-> Cardinality(ahead(s, i))]
<1>1. IsFiniteSet(DOMAIN s)
  BY FS_Interval
<1>2. \A i \in DOMAIN s : IsFiniteSet(ahead(s, i)) /\ Cardinality(ahead(s, i)) \in Nat
  BY <1>1, FS_Subset, FS_CardinalityType DEF ahead
<1>3. MaxRawRows \in Nat \ {0}
  BY IngestAssumption
<1>4. \A i \in D : i \in DOMAIN s /\ ~(Cardinality(ahead(s, i)) >= MaxRawRows)
  BY DEF overflow_ids, ahead
<1>5. f \in [D -> 0 .. MaxRawRows - 1]
  BY <1>2, <1>3, <1>4
<1>6. ASSUME NEW i \in D, NEW j \in D, i # j PROVE f[i] # f[j]
  <2>1. ASSUME NEW a \in D, NEW b \in D, ahead(s, a) \subseteq ahead(s, b),
               a \in ahead(s, b) \ ahead(s, a)
        PROVE  Cardinality(ahead(s, a)) # Cardinality(ahead(s, b))
    BY <1>2, <1>4, <2>1, FS_Subset
  <2>2. Cardinality(ahead(s, i)) # Cardinality(ahead(s, j))
    BY <1>4, <1>6, <2>1, NewerOrders
  <2>3. QED
    BY <2>2
<1>7. f \in Injection(D, 0 .. MaxRawRows - 1)
  BY <1>5, <1>6 DEF Injection, IsInjective
<1>8. IsFiniteSet(0 .. MaxRawRows - 1) /\ Cardinality(0 .. MaxRawRows - 1) = MaxRawRows
  BY <1>3, FS_Interval
<1>9. QED
  BY <1>7, <1>8, FS_Injection

LEMMA StrippedHasNoText ==
    ASSUME NEW r \in StoredRow
    PROVE  ~has_text(strip(r))
BY StripKeeps DEF has_text, prune_text

\* RawTextIsBounded is inductive with this: a request is in the retention steps
\* only if it saved something, and an idle handler saved nothing.
SavedPlace ==
    \A h \in Handler : /\ hpc[h] \in {"strip_old", "strip_overflow"} => saved[h]
                       /\ hpc[h] = "idle" => ~saved[h]

LEMMA SavedPlaceStep ==
    ASSUME BaseInv, SavedPlace, [OpenNext]_ingest_vars
    PROVE  SavedPlace'
<1>1. StatusType
  BY DEF BaseInv
<1> DEFINE ok(g) == /\ hpc'[g] \in {"strip_old", "strip_overflow"} => saved'[g]
                    /\ hpc'[g] = "idle" => ~saved'[g]
<1>2. ASSUME NEW h \in Handler, AnyRequest(h) PROVE ok(h)
  BY <1>1, <1>2 DEF AnyRequest, Receive, StatusType
<1>3. ASSUME NEW h \in Handler, NEW b \in BOOLEAN, AdmitEdit(h, b) PROVE ok(h)
  BY <1>1, <1>3 DEF AdmitEdit, StatusType
<1>4. ASSUME NEW h \in Handler, RejectEdit(h) \/ SaveEdit(h) \/ SaveFails(h) PROVE ok(h)
  <2>1. next_edit(h)
    BY <1>4 DEF RejectEdit, SaveEdit, SaveFails
  <2>2. QED
    BY <1>1, <2>1 DEF next_edit, StatusType
<1>5. ASSUME NEW h \in Handler, StripOld(h) \/ StripOverflow(h) \/ RetentionFails(h) PROVE ok(h)
  <2>1. /\ hpc[h] \in {"strip_old", "strip_overflow"} /\ saved' = saved
        /\ \E l \in {"strip_overflow", "reply"} : hpc' = [hpc EXCEPT ![h] = l]
    BY <1>5 DEF StripOld, StripOverflow, RetentionFails
  <2>2. QED
    BY <1>1, <2>1 DEF SavedPlace, StatusType
<1>6. ASSUME NEW h \in Handler, Reply(h) \/ Abort(h) PROVE ok(h)
  <2>1. end_request(h)
    BY <1>6 DEF Reply, Abort
  <2>2. QED
    BY <1>1, <2>1 DEF end_request, StatusType
<1>7. ASSUME NEW h \in Handler, AnyRequest(h) \/ Work(h) \/ Reply(h) \/ Abort(h),
             NEW g \in Handler
      PROVE  ok(g)
  <2>1. CASE g = h
    BY <1>2, <1>3, <1>4, <1>5, <1>6, <1>7, <2>1 DEF Work
  <2>2. CASE g # h
    <3>1. hpc'[g] = hpc[g] /\ saved'[g] = saved[g]
      BY <1>7, <2>2, OthersStay
    <3>2. QED
      BY <3>1 DEF SavedPlace
  <2>3. QED
    BY <2>1, <2>2
<1>8. CASE TickNow \/ UNCHANGED ingest_vars
  BY <1>8 DEF TickNow, ingest_vars, SavedPlace
<1>9. QED
  BY <1>7, <1>8 DEF OpenNext, SavedPlace

with_text(s) == {i \in DOMAIN s : has_text(s[i])}

\* A request that stored something and has not finished its retention.
Unfinished(h) == saved[h] /\ hpc[h] # "reply"

\* Once no such request is left, the step did not save, or ended a retention.
LEMMA RawCases ==
    ASSUME BaseInv, SavedPlace, [OpenNext]_ingest_vars,
           faults' = 0, \A h \in Handler : ~Unfinished(h)'
    PROVE  \/ \E h \in Handler : StripOverflow(h)
           \/ store' = store /\ faults = 0 /\ \A h \in Handler : ~Unfinished(h)
<1>1. StatusType
  BY DEF BaseInv
<1>2. faults = 0 /\ \A kind : ~fault(kind, TRUE)
  <2>1. faults \in Nat /\ faults' >= faults
    BY FaultsGrow
  <2>2. QED
    BY <2>1 DEF fault
<1>3. ASSUME NEW h \in Handler, AnyRequest(h) \/ Work(h) \/ Reply(h) \/ Abort(h),
             ~StripOverflow(h)
      PROVE  store' = store /\ ~Unfinished(h)
  <2>1. ~(SaveFails(h) \/ RetentionFails(h) \/ Abort(h) \/ AdmitEdit(h, TRUE))
    BY <1>2 DEF SaveFails, RetentionFails, Abort, AdmitEdit
  <2>2. CASE AnyRequest(h)
    BY <2>2 DEF AnyRequest, Receive, SavedPlace, Unfinished
  <2>3. CASE AdmitEdit(h, FALSE)
    BY <1>1, <2>3 DEF AdmitEdit, Unfinished, StatusType
  <2>4. CASE RejectEdit(h)
    <3>1. next_edit(h) /\ saved' = saved /\ store' = store
      BY <2>4 DEF RejectEdit
    <3>2. saved[h] => hpc'[h] # "reply"
      BY <1>1, <3>1 DEF next_edit, StatusType
    <3>3. QED
      BY <3>1, <3>2 DEF Unfinished
  <2>5. ~SaveEdit(h)
    <3>1. SUFFICES ASSUME SaveEdit(h) PROVE Unfinished(h)'
      OBVIOUS
    <3>2. next_edit(h) /\ saved'[h] = TRUE
      BY <1>1, <3>1 DEF SaveEdit, StatusType
    <3>3. hpc'[h] # "reply"
      BY <1>1, <3>2 DEF next_edit, StatusType
    <3>4. QED
      BY <3>2, <3>3 DEF Unfinished
  <2>6. ~StripOld(h)
    BY <1>1 DEF StripOld, SavedPlace, Unfinished, StatusType
  <2>7. CASE Reply(h)
    BY <2>7 DEF Reply, Unfinished
  <2>8. QED
    BY <1>3, <2>1, <2>2, <2>3, <2>4, <2>5, <2>6, <2>7 DEF Work
<1>4. ASSUME NEW h \in Handler, AnyRequest(h) \/ Work(h) \/ Reply(h) \/ Abort(h),
             NEW g \in Handler \ {h}
      PROVE  ~Unfinished(g)
  BY <1>4, OthersStay DEF Unfinished
<1>5. CASE TickNow \/ UNCHANGED ingest_vars
  BY <1>2, <1>5 DEF TickNow, ingest_vars, Unfinished
<1>6. QED
  BY <1>2, <1>3, <1>4, <1>5 DEF OpenNext

LEMMA RawTextStep ==
    ASSUME BaseInv, SavedPlace, RawTextIsBounded, [OpenNext]_ingest_vars
    PROVE  RawTextIsBounded'
<1> SUFFICES ASSUME faults' = 0, \A h \in Handler : saved'[h] => hpc'[h] = "reply"
             PROVE  Cardinality(with_text(store')) <= MaxRawRows
  BY DEF RawTextIsBounded, with_text
<1>1. store \in Seq(StoredRow)
  BY DEF BaseInv
<1>2. CASE store' = store /\ faults = 0 /\ \A h \in Handler : ~Unfinished(h)
  BY <1>2 DEF RawTextIsBounded, Unfinished, with_text
<1>3. ASSUME NEW h \in Handler, StripOverflow(h)
      PROVE  Cardinality(with_text(store')) <= MaxRawRows
  <2>1. store' = strip_where(store, overflow_ids(store))
    BY <1>3 DEF StripOverflow
  <2>2. with_text(store') \subseteq DOMAIN store \ overflow_ids(store)
    BY <1>1, <2>1, StripWhereTyped, StrippedHasNoText DEF with_text
  <2>3. /\ Cardinality(DOMAIN store \ overflow_ids(store)) <= MaxRawRows
        /\ IsFiniteSet(DOMAIN store \ overflow_ids(store))
    <3>1. IsFiniteSet(DOMAIN store)
      BY <1>1, FS_Interval
    <3>2. QED
      BY <1>1, <3>1, OverflowLeavesFew, FS_Subset
  <2>4. /\ Cardinality(with_text(store')) <= Cardinality(DOMAIN store \ overflow_ids(store))
        /\ Cardinality(with_text(store')) \in Nat
        /\ Cardinality(DOMAIN store \ overflow_ids(store)) \in Nat /\ MaxRawRows \in Nat
    BY <2>2, <2>3, FS_Subset, FS_CardinalityType, IngestAssumption
  <2>5. QED
    BY <2>3, <2>4
<1>4. QED
  BY <1>2, <1>3, RawCases DEF Unfinished

-----------------------------------------------------------------------------
(***************************************************************************)
(* The whole batch is answered, and the retention step reports an error    *)
(* only when a statement of it failed.                                     *)
(***************************************************************************)
RepliesToAll ==
    \A h \in Handler :
        hpc[h] \in {"strip_old", "strip_overflow", "reply"} => at[h] = Len(edits[h]) + 1

RetentionErrorsOnly ==
    "retain" \notin Fault => \A h \in Handler : RetentionIndex \notin rejected[h]

LEMMA RepliesStep ==
    ASSUME BaseInv, RepliesToAll, [OpenNext]_ingest_vars
    PROVE  RepliesToAll'
<1>1. StatusType /\ RequestType /\ HandlersOK
  BY DEF BaseInv
<1> DEFINE ok(g) == hpc'[g] \in {"strip_old", "strip_overflow", "reply"}
                      => at'[g] = Len(edits'[g]) + 1
<1>2. ASSUME NEW h \in Handler, AnyRequest(h) PROVE ok(h)
  BY <1>1, <1>2 DEF AnyRequest, Receive, StatusType
<1>3. ASSUME NEW h \in Handler, NEW b \in BOOLEAN, AdmitEdit(h, b) PROVE ok(h)
  BY <1>1, <1>3 DEF AdmitEdit, StatusType
<1>4. ASSUME NEW h \in Handler, RejectEdit(h) \/ SaveEdit(h) \/ SaveFails(h) PROVE ok(h)
  <2>1. next_edit(h) /\ edits' = edits /\ hpc[h] \in {"validate", "save"}
    BY <1>4 DEF RejectEdit, SaveEdit, SaveFails, request_vars
  <2>2. at[h] \in 1 .. Len(edits[h]) /\ Len(edits[h]) \in Nat
    BY <1>1, <2>1, RequestKept DEF HandlersOK, PlaceOK
  <2>3. at'[h] = at[h] + 1 /\ (hpc'[h] # "validate" => ~(at[h] < Len(edits[h])))
    BY <1>1, <2>1 DEF next_edit, StatusType
  <2>4. QED
    BY <2>1, <2>2, <2>3
<1>5. ASSUME NEW h \in Handler, StripOld(h) \/ StripOverflow(h) \/ RetentionFails(h) PROVE ok(h)
  BY <1>5 DEF StripOld, StripOverflow, RetentionFails, request_vars, RepliesToAll
<1>6. ASSUME NEW h \in Handler, Reply(h) \/ Abort(h) PROVE ok(h)
  BY <1>1, <1>6 DEF Reply, Abort, end_request, StatusType
<1>7. ASSUME NEW h \in Handler, AnyRequest(h) \/ Work(h) \/ Reply(h) \/ Abort(h),
             NEW g \in Handler
      PROVE  ok(g)
  <2>1. CASE g = h
    BY <1>2, <1>3, <1>4, <1>5, <1>6, <1>7, <2>1 DEF Work
  <2>2. CASE g # h
    <3>1. hpc'[g] = hpc[g] /\ edits'[g] = edits[g] /\ at'[g] = at[g]
      BY <1>7, <2>2, OthersStay
    <3>2. QED
      BY <3>1 DEF RepliesToAll
  <2>3. QED
    BY <2>1, <2>2
<1>8. CASE TickNow \/ UNCHANGED ingest_vars
  BY <1>8 DEF TickNow, ingest_vars, request_vars, RepliesToAll
<1>9. QED
  BY <1>7, <1>8 DEF OpenNext, RepliesToAll

LEMMA RetentionErrorStep ==
    ASSUME BaseInv, RetentionErrorsOnly, [OpenNext]_ingest_vars
    PROVE  RetentionErrorsOnly'
<1> SUFFICES ASSUME "retain" \notin Fault, NEW g \in Handler
             PROVE  RetentionIndex \notin rejected'[g]
  BY DEF RetentionErrorsOnly
<1>1. /\ ResponseType /\ at \in [Handler -> Nat \ {0}]
      /\ RetentionIndex \notin Nat /\ RetentionIndex \notin rejected[g]
  <2>1. ResponseType /\ at \in [Handler -> Nat \ {0}]
    BY DEF BaseInv, StatusType
  <2>2. RetentionIndex \notin Nat
    BY DEF RetentionIndex
  <2>3. RetentionIndex \notin rejected[g]
    BY DEF RetentionErrorsOnly
  <2>4. QED
    BY <2>1, <2>2, <2>3
<1>2. ASSUME NEW h \in Handler, RejectEdit(h) \/ SaveFails(h)
      PROVE  RetentionIndex \notin rejected'[g]
  <2>1. rejected' = [rejected EXCEPT ![h] = @ \cup {at[h]}] /\ at[h] \in Nat
    BY <1>1, <1>2 DEF RejectEdit, SaveFails
  <2>2. QED
    BY <1>1, <2>1 DEF ResponseType
<1>3. ASSUME NEW h \in Handler, Reply(h) \/ Abort(h)
      PROVE  RetentionIndex \notin rejected'[g]
  BY <1>1, <1>3 DEF Reply, Abort, end_request, ResponseType
<1>4. ASSUME NEW h \in Handler, AnyRequest(h) \/ Work(h), ~(RejectEdit(h) \/ SaveFails(h))
      PROVE  rejected' = rejected
  BY <1>4 DEF AnyRequest, Receive, Work, AdmitEdit, SaveEdit, StripOld, StripOverflow,
              RetentionFails, fault, response_vars
<1>5. CASE TickNow \/ UNCHANGED ingest_vars
  BY <1>1, <1>5 DEF TickNow, ingest_vars, response_vars
<1>6. QED
  BY <1>1, <1>2, <1>3, <1>4, <1>5 DEF OpenNext

-----------------------------------------------------------------------------
(***************************************************************************)
(* The theorems of the specification.                                      *)
(***************************************************************************)
\* The whole inductive invariant.
IngestInv ==
    /\ BaseInv
    /\ StoredOnce /\ StoredIsSigned /\ AcknowledgedIsStored
    /\ VerdictsBefore /\ OneVerdictEach
    /\ RateInv
    /\ SavedPlace /\ RawTextIsBounded
    /\ RepliesToAll /\ RetentionErrorsOnly

LEMMA IngestInvInit == IngestInit => IngestInv
<1> SUFFICES ASSUME IngestInit PROVE IngestInv
  OBVIOUS
<1>1. BaseInv
  BY InitBase
<1>2. /\ store = <<>> /\ Len(store) = 0 /\ DOMAIN store = {} /\ faults = 0
      /\ \A h \in Handler : /\ hpc[h] = "idle" /\ at[h] = 1 /\ accepted[h] = 0 /\ ~saved[h]
                            /\ rejected[h] = {} /\ flagged[h] = {}
  <2>1. store = <<>> /\ faults = 0
    BY DEF IngestInit
  <2>2. Len(store) = 0 /\ DOMAIN store = {}
    BY <2>1
  <2>3. \A h \in Handler : /\ hpc[h] = "idle" /\ at[h] = 1 /\ accepted[h] = 0 /\ ~saved[h]
                           /\ rejected[h] = {} /\ flagged[h] = {}
    BY DEF IngestInit
  <2>4. QED
    BY <2>1, <2>2, <2>3
<1>3. StoredOnce /\ StoredIsSigned
  BY <1>2 DEF StoredOnce, StoredIsSigned
<1>4. AcknowledgedIsStored
  BY <1>2 DEF AcknowledgedIsStored
<1>5. Cardinality({}) = 0
  BY FS_EmptySet
<1>6. VerdictsBefore /\ OneVerdictEach
  <2>1. \A h \in Handler : {} \ {RetentionIndex} = {} /\ rejected[h] \ {RetentionIndex} = {}
    BY <1>2
  <2>2. \A h \in Handler : rejected[h] \cap flagged[h] = {}
    BY <1>2
  <2>3. \A h \in Handler : accepted[h] + Cardinality(flagged[h])
                             + Cardinality(rejected[h] \ {RetentionIndex}) = at[h] - 1
    <3> TAKE h \in Handler
    <3>1. /\ accepted[h] = 0 /\ Cardinality(flagged[h]) = 0 /\ at[h] = 1
          /\ Cardinality(rejected[h] \ {RetentionIndex}) = 0
      BY <1>2, <1>5, <2>1
    <3>2. QED
      BY <3>1
  <2>4. VerdictsBefore
    BY <1>2, <2>1 DEF VerdictsBefore, verdicts
  <2>5. QED
    BY <2>2, <2>3, <2>4 DEF OneVerdictEach
<1>7. RateInv
  <2>1. \A k \in Key, f \in Path : recent(k, f) = {} /\ pending(k, f) = {}
    BY <1>2 DEF recent, pending
  <2>2. RateLimit \in Nat \ {0} /\ Cardinality(Handler) \in Nat
    BY IngestAssumption, FS_CardinalityType
  <2>3. QED
    <3>1. RateLimit \in Nat /\ RateLimit >= 1 /\ faults = 0
      BY <1>2, <2>2
    <3>2. 0 + 0 <= RateLimit - 1 + Cardinality(Handler) + 0
      BY <2>2, <3>1
    <3>3. QED
      BY <1>5, <2>1, <3>1, <3>2 DEF RateInv
<1>8. SavedPlace
  BY <1>2 DEF SavedPlace
<1>9. RawTextIsBounded
  <2>1. {i \in DOMAIN store : has_text(store[i])} = {} /\ MaxRawRows \in Nat
    BY <1>2, IngestAssumption
  <2>2. QED
    BY <1>5, <2>1 DEF RawTextIsBounded
<1>10. RepliesToAll /\ RetentionErrorsOnly
  BY <1>2 DEF RepliesToAll, RetentionErrorsOnly
<1>11. QED
  BY <1>1, <1>3, <1>4, <1>6, <1>7, <1>8, <1>9, <1>10 DEF IngestInv

LEMMA IngestInvStep == IngestInv /\ [OpenNext]_ingest_vars => IngestInv'
<1> SUFFICES ASSUME IngestInv, [OpenNext]_ingest_vars PROVE IngestInv'
  OBVIOUS
<1>1. BaseInv /\ BaseInv'
  BY NextBase DEF IngestInv
<1>2. StoredOnce' /\ StoredIsSigned' /\ AcknowledgedIsStored'
  BY <1>1, OnceStep, SignedStep, AcknowledgedStep DEF IngestInv
<1>3. VerdictsBefore' /\ OneVerdictEach'
  <2>1. \A g \in Handler : VerdictOK(g)
    BY VerdictParts DEF IngestInv
  <2>2. \A g \in Handler : VerdictOK(g)'
    BY <1>1, <2>1, VerdictStep
  <2>3. QED
    BY <2>2 DEF VerdictsBefore, OneVerdictEach, VerdictOK, verdicts
<1>4. RateInv'
  <2>1. \A k \in Key, f \in Path :
          Cardinality(recent(k, f)') + Cardinality(pending(k, f)')
            <= RateLimit - 1 + Cardinality(Handler) + faults'
    BY <1>1, RateStep DEF IngestInv
  <2>2. QED
    BY <2>1 DEF RateInv
<1>5. SavedPlace' /\ RawTextIsBounded'
  BY <1>1, SavedPlaceStep, RawTextStep DEF IngestInv
<1>6. RepliesToAll' /\ RetentionErrorsOnly'
  BY <1>1, RepliesStep, RetentionErrorStep DEF IngestInv
<1>7. QED
  BY <1>1, <1>2, <1>3, <1>4, <1>5, <1>6 DEF IngestInv

THEOREM IngestInvariant == IngestSpec => []IngestInv
<1>1. IngestInit => IngestInv
  BY IngestInvInit
<1>2. IngestInv /\ [IngestNext]_ingest_vars => IngestInv'
  BY NextIsOpen, IngestInvStep
<1>3. QED
  BY <1>1, <1>2, PTL DEF IngestSpec

\* The state of the table and of every handler has the declared types, and a
\* handler that validates or saves has an edit in turn and a token.
THEOREM IngestTypeCorrect == IngestSpec => []IngestTypeOK
<1>1. IngestInv => IngestTypeOK
  BY BaseTyped DEF IngestInv
<1>2. QED
  BY <1>1, IngestInvariant, PTL

\* Idempotent uploads: whatever is sent again, in one batch or by concurrent
\* requests, the table has one row per record_sig.
THEOREM IngestStoresOnce == IngestSpec => []StoredOnce
<1>1. IngestInv => StoredOnce
  BY DEF IngestInv
<1>2. QED
  BY <1>1, IngestInvariant, PTL

\* A stored row is what was signed with the key of the token it is stored under,
\* up to the texts the retention policy replaced.
THEOREM IngestStoresSigned == IngestSpec => []StoredIsSigned
<1>1. IngestInv => StoredIsSigned
  BY DEF IngestInv
<1>2. QED
  BY <1>1, IngestInvariant, PTL

\* An edit that the response does not reject is in the table, whatever other
\* requests do meanwhile and wherever statements fail.
THEOREM IngestAcknowledgesStored == IngestSpec => []AcknowledgedIsStored
<1>1. IngestInv => AcknowledgedIsStored
  BY DEF IngestInv
<1>2. QED
  BY <1>1, IngestInvariant, PTL

\* The response gives every edit before the one in turn exactly one verdict.
THEOREM IngestAnswersEach == IngestSpec => []OneVerdictEach
<1>1. IngestInv => OneVerdictEach
  BY DEF IngestInv
<1>2. QED
  BY <1>1, IngestInvariant, PTL

\* The separate COUNT and INSERT let at most one row more per concurrent handler
\* through, and one per COUNT that failed.
THEOREM IngestBoundsRates == IngestSpec => []RateBound
<1>1. IngestInv => RateBound
  <2> SUFFICES ASSUME IngestInv, NEW k \in Key, NEW f \in Path
               PROVE  Cardinality(recent(k, f)) <= RateLimit - 1 + Cardinality(Handler) + faults
    BY DEF RateBound
  <2>1. IsFiniteSet(recent(k, f)) /\ IsFiniteSet(pending(k, f)) /\ IsFiniteSet(Handler)
    BY RatesFinite, IngestAssumption DEF IngestInv
  <2>2. /\ Cardinality(recent(k, f)) \in Nat /\ Cardinality(pending(k, f)) \in Nat
        /\ Cardinality(Handler) \in Nat /\ faults \in Nat /\ RateLimit \in Nat
    BY <2>1, FS_CardinalityType, IngestAssumption DEF IngestInv, BaseInv, StatusType
  <2>3. Cardinality(recent(k, f)) + Cardinality(pending(k, f))
          <= RateLimit - 1 + Cardinality(Handler) + faults
    BY DEF IngestInv, RateInv
  <2>4. QED
    BY <2>2, <2>3
<1>2. QED
  BY <1>1, IngestInvariant, PTL

\* When every request that stored something has run its retention, at most
\* MaxRawRows rows have text: requests that store concurrently cover each other.
THEOREM IngestBoundsText == IngestSpec => []RawTextIsBounded
<1>1. IngestInv => RawTextIsBounded
  BY DEF IngestInv
<1>2. QED
  BY <1>1, IngestInvariant, PTL

\* No statement of any handler removes a stored row, gives it to another token,
\* changes its verdict or restores a stripped text.
THEOREM IngestKeepsRows == IngestSpec => StoredIsFinal
<1>1. IngestInv /\ [IngestNext]_ingest_vars =>
        [\A i \in DOMAIN store :
           i \in DOMAIN store' /\ store'[i] \in {store[i], strip(store[i])}]_ingest_vars
  BY NextIsOpen, RowsStay DEF IngestInv
<1>2. QED
  BY <1>1, IngestInvariant, PTL DEF IngestSpec, StoredIsFinal
=============================================================================
