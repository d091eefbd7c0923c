--------------------------- MODULE UsageOutboxProofs ---------------------------
(***************************************************************************)
(* Proofs about UsageOutbox: type correctness and the bound of the retries,*)
(* the caps of the table, that a rollup which is not dirty is what the     *)
(* server has, that the outbox implements UsageDelivery, and that a        *)
(* snapshot waits in the outbox until the server has it, for any number of *)
(* processes, rows and caps.                                               *)
(***************************************************************************)
EXTENDS UsageOutbox, FiniteSetTheorems, TLAPS

-----------------------------------------------------------------------------
(* The inductive invariant.                                                *)

distinct_ids(q) == \A e, f \in q : e.id = f.id => e = f

\* The processes that still have a row of the outbox to send.
holders(id) == {p \in Proc : \E f \in queue[p] : f.id = id}

(* A row is marked failed by those who hold it only, and was fetched with  *)
(* retries left.                                                           *)
RetriesLeft ==
    \A e \in outbox : e.retry + Cardinality(holders(e.id)) < MaxRetry + Cardinality(Proc)

(* The table and the memories are finite, and their rows have ids of their *)
(* own.                                                                    *)
RowsDistinct ==
    /\ IsFiniteSet(outbox) /\ distinct_ids(outbox)
    /\ \A p \in Proc : IsFiniteSet(queue[p]) /\ distinct_ids(queue[p])

\* Who answers for a request still has its row.
AnswersHeld == \A p \in Proc : pc[p] \in {"mark", "retry"} => queue[p] # {}

\* A snapshot is dirty as long as it has a stamp.
SnapshotsSound == \A s \in Sub : row[s].dirty => row[s].at # 0 /\ row[s].val \in Version

TableInv == TypeOK /\ RowsDistinct /\ AnswersHeld /\ RetriesLeft /\ SnapshotsSound

\* The payloads that are still to be put, waiting, held by a process or on their way.
planned == UNION {todo[p] : p \in Proc}
waiting == outbox \cup UNION {queue[p] : p \in Proc}
payloads == planned \cup orphans \cup {e.items : e \in waiting}

\* The copies of rollups that may still reach the server, or be made into a payload.
copies == {i \in UNION payloads : i.row \in Rollup} \cup {item(r) : r \in dirty_rows(Rollup)}

(* A payload has one item for a row.                                       *)
PayloadsSound ==
    \A items \in payloads :
        /\ IsFiniteSet(items)
        /\ \A i, j \in items : i.row = j.row => i = j

(* A rollup is dirty as long as it has a stamp, ...                        *)
RowsSound ==
    \A r \in Rollup :
        /\ row[r].dirty <=> row[r].at # 0
        /\ row[r].val \in Value \cup {None}
        /\ row[r].dirty => row[r].val \in Value
        /\ row[r].at <= changes /\ high[r] <= changes
        /\ row[r].dirty => high[r] <= row[r].at

(* ... which is its newest one, and a stamp tells the total.               *)
CopiesSound ==
    /\ \A i \in copies :
        /\ i.val \in Value /\ i.at <= changes
        /\ row[i.row].dirty => i.at <= row[i.row].at
    /\ \A i, j \in copies : i.row = j.row /\ i.at = j.at => i.val = j.val

(* The server has the newest total it was sent, unless an older one came   *)
(* after it.                                                               *)
ServerHasNewest ==
    \A i \in copies : i.row \notin overtaken /\ i.at = high[i.row] => server[i.row] = i.val

(* Of a rollup that is not dirty no newer copy than what the server was    *)
(* sent is left, ...                                                       *)
CleanIsNewest ==
    \A i \in copies : i.row \in present_clean =>
        /\ i.at <= high[i.row]
        /\ i.at = high[i.row] => i.val = row[i.row].val

(* ... and what a process is about to acknowledge the server was sent.     *)
MarkedIsSent ==
    \A p \in Proc : pc[p] = "mark" =>
        \A i \in head(p).items : i.row \in Rollup =>
            i.val \in known[i.row] /\ i.at <= high[i.row]

SyncInv ==
    /\ PayloadsSound /\ RowsSound /\ CopiesSound
    /\ ServerHasNewest /\ CleanIsNewest /\ MarkedIsSent /\ CleanIsCurrent

-----------------------------------------------------------------------------
(* Sets of numbers.                                                        *)

\* A set of numbers has a least one,
LEMMA Least ==
    ASSUME NEW S, S \subseteq Nat, S # {}
    PROVE  \E n \in S : \A m \in S : n <= m
<1>1. IsWellFoundedOn(OpToRel(<, Nat), Nat)
    BY NatLessThanWellFounded
<1>2. PICK n \in S : \A m \in S : ~(<<m, n>> \in OpToRel(<, Nat))
    BY <1>1, WFMin
<1>3. \A m \in S : ~(m < n)
    BY <1>2 DEF OpToRel
<1>4. \A m \in S : m \in Nat /\ n \in Nat
    OBVIOUS
<1>5. \A m \in S : n <= m
    BY <1>3, <1>4
<1> QED
    BY <1>5

\* a finite one has a bound
LEMMA Bounded ==
    ASSUME NEW S, S \subseteq Nat, IsFiniteSet(S)
    PROVE  \E n \in Nat : \A x \in S : x <= n
<1> DEFINE bounded(F) == \E n \in Nat : \A x \in F : x <= n
           Bad == {k \in Nat : \E F \in SUBSET S : Cardinality(F) = k /\ ~bounded(F)}
<1>1. Cardinality(S) \in Nat
    BY FS_CardinalityType
<1>2. Bad = {} => bounded(S)
    BY <1>1
<1>3. ASSUME Bad # {}
      PROVE  FALSE
  <2>1. Bad \subseteq Nat
      OBVIOUS
  <2>2. PICK k \in Bad : \A m \in Bad : k <= m
      BY <2>1, <1>3, Least
  <2>3. PICK F \in SUBSET S : Cardinality(F) = k /\ ~bounded(F)
      OBVIOUS
  <2>4. F # {}
    <3>1. F = {} => bounded(F)
        OBVIOUS
    <3> QED
        BY <3>1, <2>3
  <2>5. PICK x \in F : TRUE
      BY <2>4
  <2>6. IsFiniteSet(F)
      BY FS_Subset
  <2>7. Cardinality(F \ {x}) = k - 1
      BY <2>6, <2>3, FS_RemoveElement
  <2>8. F \ {x} \in SUBSET S
      OBVIOUS
  <2>9. k \in Nat /\ k - 1 < k
      OBVIOUS
  <2>10. k - 1 \in Nat
    <3>1. IsFiniteSet(F \ {x})
        BY <2>6, FS_RemoveElement
    <3> QED
        BY <3>1, <2>7, FS_CardinalityType
  <2>11. k - 1 \notin Bad
    <3>1. k - 1 \in Bad => k <= k - 1
        BY <2>2
    <3> QED
        BY <3>1, <2>9, <2>10
  <2>12. bounded(F \ {x})
      BY <2>7, <2>8, <2>10, <2>11
  <2>13. PICK n \in Nat : \A y \in F \ {x} : y <= n
      BY <2>12
  <2>14. x \in Nat
      OBVIOUS
  <2>15. PICK t \in Nat : n <= t /\ x <= t
      BY <2>14
  <2>16. \A y \in F : y <= t
    <3>1. ASSUME NEW y \in F
          PROVE  y <= t
      <4>1. y \in Nat
          OBVIOUS
      <4>2. y = x \/ y <= n
          BY <2>13
      <4> QED
          BY <4>1, <4>2, <2>14, <2>15
    <3> QED
        BY <3>1
  <2> QED
      BY <2>3, <2>16
<1> QED
    BY <1>2, <1>3

\* and a greatest one.
LEMMA Greatest ==
    ASSUME NEW S, S \subseteq Nat, S # {}, IsFiniteSet(S)
    PROVE  Max(S) \in S /\ \A x \in S : x <= Max(S)
<1> DEFINE U == {n \in Nat : \A x \in S : x <= n}
<1>1. U # {}
    BY Bounded
<1>2. PICK n \in U : \A m \in U : n <= m
  <2>1. U \subseteq Nat
      OBVIOUS
  <2> QED
      BY <2>1, <1>1, Least
<1>3. n \in Nat /\ \A x \in S : x <= n /\ x \in Nat
    OBVIOUS
<1>4. n \in S
  <2>1. SUFFICES ASSUME n \notin S
                 PROVE  FALSE
      OBVIOUS
  <2>2. \A x \in S : x <= n - 1
    <3>1. ASSUME NEW x \in S
          PROVE  x <= n - 1
      <4>1. x # n
          BY <2>1
      <4> QED
          BY <4>1, <1>3
    <3> QED
        BY <3>1
  <2>3. PICK x \in S : TRUE
      OBVIOUS
  <2>4. n - 1 \in Nat
      BY <2>2, <2>3, <1>3
  <2>5. n - 1 \in U
      BY <2>2, <2>4
  <2>6. n <= n - 1
      BY <2>5, <1>2
  <2> QED
      BY <2>6, <1>3
<1>5. \E x \in S : \A y \in S : x >= y
  <2>1. \A y \in S : n >= y
      BY <1>3
  <2> QED
      BY <1>4, <2>1
<1>6. Max(S) \in S /\ \A y \in S : Max(S) >= y
    BY <1>5 DEF Max
<1>7. \A y \in S : y <= Max(S)
  <2>1. Max(S) \in Nat
      BY <1>6
  <2> QED
      BY <2>1, <1>6, <1>3
<1> QED
    BY <1>6, <1>7
LEMMA MaxOfTwo ==
    ASSUME NEW a \in Nat, NEW b \in Nat
    PROVE  Max({a, b}) = IF a >= b THEN a ELSE b
<1> DEFINE m == IF a >= b THEN a ELSE b
<1>1. m \in {a, b} /\ \A y \in {a, b} : m >= y
    OBVIOUS
<1>2. Max({a, b}) \in {a, b} /\ \A y \in {a, b} : Max({a, b}) >= y
    BY <1>1 DEF Max
<1>3. Max({a, b}) >= a /\ Max({a, b}) >= b
    BY <1>2
<1> QED
    BY <1>2, <1>3

\* What a function makes of a finite set is finite, and not more.
LEMMA Image ==
    ASSUME NEW S, IsFiniteSet(S), NEW f
    PROVE  /\ IsFiniteSet({f[x] : x \in S})
           /\ Cardinality({f[x] : x \in S}) <= Cardinality(S)
<1> DEFINE T == {f[x] : x \in S}
           g == [x \in S |-> f[x]]
<1>1. g \in Surjection(S, T)
    BY DEF Surjection
<1> HIDE DEF g
<1> QED
    BY <1>1, FS_Surjection

-----------------------------------------------------------------------------
(* The table and the processes' memories.                                  *)

\* A cleanup deletes rows and leaves none whose retries are used up.
LEMMA CleanupKeeps ==
    ASSUME NEW q
    PROVE  /\ cleanup_usage_outbox(q) \subseteq q
           /\ \A e \in cleanup_usage_outbox(q) : e.retry < MaxRetry
<1> DEFINE kept == {e \in q : e.retry < MaxRetry /\ e.created >= now - Ttl}
<1>1. cleanup_usage_outbox(q) \subseteq newest(kept, MaxRows)
    BY DEF cleanup_usage_outbox, within_weight
<1>2. newest(kept, MaxRows) \subseteq kept
    BY DEF newest
<1> HIDE DEF kept
<1>3. kept \subseteq q /\ \A e \in kept : e.retry < MaxRetry
    BY DEF kept
<1> QED
    BY <1>1, <1>2, <1>3

LEMMA PayloadFields ==
    ASSUME NEW e \in Payload
    PROVE  /\ e.id \in Nat /\ e.items \in SUBSET Item /\ e.created \in 0..MaxTime
           /\ e.retry \in 0..(MaxRetry + Cardinality(Proc) - 1)
<1> QED
    BY DEF Payload

\* A process with rows to send has a first one.
LEMMA HasHead ==
    ASSUME TypeOK, NEW p \in Proc, queue[p] # {}
    PROVE  head(p) \in queue[p]
<1> DEFINE ids == {e.id : e \in queue[p]}
<1>1. queue[p] \subseteq Payload
    BY DEF TypeOK
<1>2. ids \subseteq Nat
    BY <1>1, PayloadFields
<1>3. ids # {}
    OBVIOUS
<1>4. PICK n \in ids : \A m \in ids : n <= m
    BY <1>2, <1>3, Least
<1>5. PICK e \in queue[p] : e.id = n
    BY <1>4
<1>6. \A x \in queue[p] : e.id <= x.id
    BY <1>4, <1>5
<1> QED
    BY <1>5, <1>6 DEF head

LEMMA FreshId ==
    ASSUME TableInv
    PROVE  /\ fresh_id \in Nat
           /\ \A e \in outbox : e.id < fresh_id
           /\ \A p \in Proc : \A e \in queue[p] : e.id < fresh_id
<1> DEFINE held == UNION {queue[p] : p \in Proc}
           rows == outbox \cup held
           ids == {0} \cup used_ids
<1>1. rows \subseteq Payload
    BY DEF TableInv, TypeOK
<1>2. IsFiniteSet(rows)
  <2>1. IsFiniteSet({queue[p] : p \in Proc})
      BY OutboxAssumption, Image
  <2>2. \A T \in {queue[p] : p \in Proc} : IsFiniteSet(T)
      BY DEF TableInv, RowsDistinct
  <2>3. IsFiniteSet(held)
      BY <2>1, <2>2, FS_UNION
  <2> QED
      BY <2>3, FS_Union DEF TableInv, RowsDistinct
<1>3. used_ids = {e.id : e \in rows}
    BY DEF used_ids
<1> HIDE DEF rows
<1>4. IsFiniteSet(used_ids)
  <2> DEFINE f == [e \in rows |-> e.id]
  <2>1. {f[e] : e \in rows} = {e.id : e \in rows}
      OBVIOUS
  <2> HIDE DEF f
  <2> QED
      BY <2>1, <1>2, <1>3, Image
<1>5. used_ids \subseteq Nat
    BY <1>1, <1>3, PayloadFields
<1>6. IsFiniteSet(ids)
    BY <1>4, FS_Singleton, FS_Union
<1>7. ids \subseteq Nat /\ ids # {}
    BY <1>5
<1> HIDE DEF ids
<1>8. Max(ids) \in ids /\ \A x \in ids : x <= Max(ids)
    BY <1>6, <1>7, Greatest
<1>9. Max(ids) \in Nat
    BY <1>7, <1>8
<1>10. fresh_id = 1 + Max(ids)
    BY DEF fresh_id, ids
<1>11. \A e \in rows : e.id \in Nat /\ e.id < fresh_id
  <2>1. \A e \in rows : e.id \in ids
      BY <1>3 DEF ids
  <2>2. \A x \in ids : x \in Nat /\ x <= Max(ids)
      BY <1>7, <1>8
  <2>3. \A x \in ids : x \in Nat /\ x < fresh_id
      BY <2>2, <1>9, <1>10
  <2> QED
      BY <2>1, <2>3
<1>12. fresh_id \in Nat
    BY <1>9, <1>10
<1> QED
    BY <1>11, <1>12 DEF rows
LEMMA HoldersCount ==
    ASSUME NEW id
    PROVE  /\ IsFiniteSet(holders(id)) /\ Cardinality(holders(id)) \in Nat
           /\ IsFiniteSet(Proc) /\ Cardinality(Proc) \in Nat
           /\ Cardinality(holders(id)) <= Cardinality(Proc)
<1>1. holders(id) \in SUBSET Proc
    BY DEF holders
<1>2. IsFiniteSet(Proc)
    BY OutboxAssumption
<1> QED
    BY <1>1, <1>2, FS_Subset, FS_CardinalityType

LEMMA HoldersCountNext ==
    ASSUME NEW id
    PROVE  /\ IsFiniteSet(holders(id)') /\ Cardinality(holders(id)') \in Nat
           /\ Cardinality(holders(id)') <= Cardinality(Proc)
<1>1. holders(id)' \in SUBSET Proc
    BY DEF holders
<1>2. IsFiniteSet(Proc)
    BY OutboxAssumption
<1> QED
    BY <1>1, <1>2, FS_Subset, FS_CardinalityType

\* With fewer rows and fewer held rows nobody has fewer retries left.
LEMMA FewerRows ==
    ASSUME TableInv, outbox' \subseteq outbox, \A p \in Proc : queue'[p] \subseteq queue[p]
    PROVE  RowsDistinct' /\ RetriesLeft'
<1>1. IsFiniteSet(outbox')
    BY FS_Subset DEF TableInv, RowsDistinct
<1>2. \A p \in Proc : IsFiniteSet(queue'[p])
    BY FS_Subset DEF TableInv, RowsDistinct
<1>3. RowsDistinct'
    BY <1>1, <1>2 DEF TableInv, RowsDistinct, distinct_ids
<1>4. ASSUME NEW e \in outbox'
      PROVE  e.retry + Cardinality(holders(e.id)') < MaxRetry + Cardinality(Proc)
  <2>1. holders(e.id)' \in SUBSET holders(e.id)
      BY DEF holders
  <2>2. Cardinality(holders(e.id)') <= Cardinality(holders(e.id))
      BY <2>1, HoldersCount, FS_Subset
  <2>3. e \in outbox /\ e \in Payload
      BY DEF TableInv, TypeOK
  <2>4. e.retry + Cardinality(holders(e.id)) < MaxRetry + Cardinality(Proc)
      BY <2>3 DEF TableInv, RetriesLeft
  <2>5. e.retry \in Int
      BY <2>3, PayloadFields, HoldersCount, OutboxAssumption
  <2>6. MaxRetry \in Nat
      BY OutboxAssumption
  <2> QED
      BY <2>2, <2>4, <2>5, <2>6, HoldersCount, HoldersCountNext
<1> QED
    BY <1>3, <1>4 DEF RetriesLeft

\* A new row is nobody's yet.
LEMMA InsertTables ==
    ASSUME TableInv, Proc # {}, NEW items \in SUBSET Item, insert_or_ignore(items), queue' = queue
    PROVE  /\ \A e \in outbox' : e \in outbox \/ (e \in Payload /\ e.items = items)
           /\ RowsDistinct' /\ RetriesLeft'
<1> PICK e : e = [id |-> fresh_id, items |-> items, retry |-> 0, created |-> now]
    OBVIOUS
<1>1. outbox' \subseteq outbox \cup {e}
    BY DEF insert_or_ignore
<1>2. /\ e.id = fresh_id /\ e.items = items /\ e.retry = 0
      /\ fresh_id \in Nat /\ now \in 0..MaxTime
    BY FreshId DEF TableInv, TypeOK
<1>3. MaxRetry \in Nat /\ Cardinality(Proc) \in Nat /\ Cardinality(Proc) # 0
    BY OutboxAssumption, FS_CardinalityType, FS_EmptySet
<1>4. e \in Payload
  <2>1. 0 \in 0..(MaxRetry + Cardinality(Proc) - 1)
      BY <1>3
  <2> QED
      BY <2>1, <1>2 DEF Payload
<1>5. \A x \in outbox : x.id # e.id
  <2>1. \A x \in outbox : x.id \in Nat /\ x.id < fresh_id
      BY FreshId, PayloadFields DEF TableInv, TypeOK
  <2> QED
      BY <2>1, <1>2
<1>6. holders(e.id)' = {}
  <2>1. \A p \in Proc : \A f \in queue[p] : f.id \in Nat /\ f.id < fresh_id
      BY FreshId, PayloadFields DEF TableInv, TypeOK
  <2>2. \A p \in Proc : \A f \in queue[p] : f.id # fresh_id
      BY <2>1, <1>2
  <2> QED
      BY <2>2, <1>2 DEF holders
<1>7. IsFiniteSet(outbox')
  <2>1. IsFiniteSet(outbox \cup {e})
      BY FS_AddElement DEF TableInv, RowsDistinct
  <2> QED
      BY <2>1, <1>1, FS_Subset
<1>8. distinct_ids(outbox')
    BY <1>1, <1>5 DEF TableInv, RowsDistinct, distinct_ids
<1>9. RowsDistinct'
    BY <1>7, <1>8 DEF TableInv, RowsDistinct, distinct_ids
<1>10. ASSUME NEW x \in outbox'
       PROVE  x.retry + Cardinality(holders(x.id)') < MaxRetry + Cardinality(Proc)
  <2>1. CASE x = e
    <3>1. Cardinality(holders(x.id)') = 0
        BY <2>1, <1>6, FS_EmptySet
    <3>2. x.retry = 0
        BY <2>1, <1>2
    <3> QED
        BY <3>1, <3>2, <1>3
  <2>2. CASE x \in outbox
    <3>1. holders(x.id)' = holders(x.id)
        BY DEF holders
    <3>2. x.retry + Cardinality(holders(x.id)) < MaxRetry + Cardinality(Proc)
        BY <2>2 DEF TableInv, RetriesLeft
    <3> QED
        BY <3>1, <3>2
  <2> QED
      BY <1>1, <2>1, <2>2
<1>11. RetriesLeft'
    BY <1>10 DEF RetriesLeft
<1>12. \A x \in outbox' : x \in outbox \/ (x \in Payload /\ x.items = items)
    BY <1>1, <1>2, <1>4
<1> QED
    BY <1>9, <1>11, <1>12

\* A row is fetched with retries left, however many hold it.
LEMMA FetchTables ==
    ASSUME TableInv, NEW p \in Proc, FetchPending(p)
    PROVE  /\ outbox' = outbox /\ queue'[p] \subseteq outbox
           /\ queue' \in [Proc -> SUBSET Payload]
           /\ RowsDistinct' /\ RetriesLeft'
<1> PICK q : q = fetch_pending_outbox(outbox)
    OBVIOUS
<1>1. q \subseteq outbox /\ \A e \in q : e.retry < MaxRetry
    BY DEF fetch_pending_outbox
<1>2. outbox' = outbox /\ queue' = [queue EXCEPT ![p] = q]
    BY DEF FetchPending
<1>3. outbox \subseteq Payload /\ queue \in [Proc -> SUBSET Payload]
    BY DEF TableInv, TypeOK
<1>4. queue' \in [Proc -> SUBSET Payload] /\ queue'[p] = q
    BY <1>1, <1>2, <1>3
<1>5. \A x \in Proc \ {p} : queue'[x] = queue[x]
    BY <1>2, <1>3
<1>6. IsFiniteSet(q) /\ distinct_ids(q)
    BY <1>1, FS_Subset DEF TableInv, RowsDistinct, distinct_ids
<1>7. RowsDistinct'
    BY <1>2, <1>4, <1>5, <1>6 DEF TableInv, RowsDistinct, distinct_ids
<1>8. ASSUME NEW e \in outbox
      PROVE  e.retry + Cardinality(holders(e.id)') < MaxRetry + Cardinality(Proc)
  <2>1. e.retry \in Int /\ MaxRetry \in Nat
      BY <1>3, PayloadFields, HoldersCount, OutboxAssumption
  <2>2. CASE e \in q
    <3>1. e.retry < MaxRetry
        BY <2>2, <1>1
    <3>2. Cardinality(holders(e.id)') \in Nat /\ Cardinality(Proc) \in Nat
        BY HoldersCount, HoldersCountNext
    <3>3. Cardinality(holders(e.id)') <= Cardinality(Proc)
        BY HoldersCountNext
    <3> QED
        BY <2>1, <3>1, <3>2, <3>3
  <2>3. CASE e \notin q
    <3>1. \A f \in q : f.id # e.id
        BY <2>3, <1>1 DEF TableInv, RowsDistinct, distinct_ids
    <3>2. holders(e.id)' \in SUBSET holders(e.id)
        BY <3>1, <1>4, <1>5 DEF holders
    <3>3. Cardinality(holders(e.id)') <= Cardinality(holders(e.id))
        BY <3>2, HoldersCount, FS_Subset
    <3>4. e.retry + Cardinality(holders(e.id)) < MaxRetry + Cardinality(Proc)
        BY DEF TableInv, RetriesLeft
    <3> QED
        BY <2>1, <3>3, <3>4, HoldersCount, HoldersCountNext
  <2> QED
      BY <2>2, <2>3
<1>9. RetriesLeft'
    BY <1>2, <1>8 DEF RetriesLeft
<1> QED
    BY <1>1, <1>2, <1>4, <1>7, <1>9

\* Whoever marks a row failed gives it away with that.
LEMMA IncrementTables ==
    ASSUME TableInv, NEW p \in Proc, IncrementOutboxRetry(p)
    PROVE  /\ outbox' \subseteq Payload
           /\ \A e \in outbox' : \E x \in outbox : e.items = x.items
           /\ RowsDistinct' /\ RetriesLeft'
<1> DEFINE h == head(p)
           failed(e) == IF e.id = h.id THEN [e EXCEPT !.retry = @ + 1] ELSE e
<1>1. h \in queue[p]
    BY HasHead DEF TableInv, AnswersHeld, IncrementOutboxRetry
<1>2. outbox' = {failed(e) : e \in outbox} /\ queue' = [queue EXCEPT ![p] = @ \ {h}]
    BY DEF IncrementOutboxRetry, next_item
<1>3. outbox \subseteq Payload /\ queue \in [Proc -> SUBSET Payload]
    BY DEF TableInv, TypeOK
<1> HIDE DEF h
<1>4. MaxRetry \in Nat /\ Cardinality(Proc) \in Nat
    BY OutboxAssumption, FS_CardinalityType
<1>5. ASSUME NEW e \in outbox
      PROVE  /\ failed(e).id = e.id /\ failed(e).items = e.items
             /\ failed(e).created = e.created
             /\ failed(e).retry = IF e.id = h.id THEN e.retry + 1 ELSE e.retry
             /\ failed(e) = [id |-> failed(e).id, items |-> failed(e).items,
                             retry |-> failed(e).retry, created |-> failed(e).created]
    BY <1>3 DEF Payload
<1>6. ASSUME NEW e \in outbox
      PROVE  failed(e).retry + Cardinality(holders(e.id)') < MaxRetry + Cardinality(Proc)
  <2>1. e.retry + Cardinality(holders(e.id)) < MaxRetry + Cardinality(Proc)
      BY DEF TableInv, RetriesLeft
  <2>2. e.retry \in Nat
    <3>1. e.retry \in 0..(MaxRetry + Cardinality(Proc) - 1)
        BY <1>3, PayloadFields
    <3> QED
        BY <3>1, <1>4
  <2>3. CASE e.id = h.id
    <3>1. p \in holders(e.id)
        BY <1>1, <2>3 DEF holders
    <3>2. \A f \in queue[p] \ {h} : f.id # e.id
        BY <1>1, <2>3 DEF TableInv, RowsDistinct, distinct_ids
    <3>3. holders(e.id)' \in SUBSET (holders(e.id) \ {p})
        BY <3>2, <1>2, <1>3 DEF holders
    <3>4. /\ IsFiniteSet(holders(e.id) \ {p})
          /\ Cardinality(holders(e.id) \ {p}) = Cardinality(holders(e.id)) - 1
        BY <3>1, HoldersCount, FS_RemoveElement
    <3>5. Cardinality(holders(e.id)') <= Cardinality(holders(e.id)) - 1
        BY <3>3, <3>4, FS_Subset
    <3>6. failed(e).retry = e.retry + 1
        BY <1>5, <2>3
    <3> HIDE DEF failed
    <3> QED
        BY <3>5, <3>6, <2>1, <2>2, <1>4, HoldersCount, HoldersCountNext
  <2>4. CASE e.id # h.id
    <3>1. holders(e.id)' \in SUBSET holders(e.id)
        BY <1>2, <1>3 DEF holders
    <3>2. Cardinality(holders(e.id)') <= Cardinality(holders(e.id))
        BY <3>1, HoldersCount, FS_Subset
    <3>3. failed(e).retry = e.retry
        BY <1>5, <2>4
    <3> HIDE DEF failed
    <3> QED
        BY <3>2, <3>3, <2>1, <2>2, <1>4, HoldersCount, HoldersCountNext
  <2> QED
      BY <2>3, <2>4
<1>7. ASSUME NEW e \in outbox
      PROVE  failed(e) \in Payload
  <2>1. failed(e).retry \in Nat
    <3>1. e.retry \in 0..(MaxRetry + Cardinality(Proc) - 1)
        BY <1>3, PayloadFields
    <3>2. e.retry \in Nat
        BY <3>1, <1>4
    <3> QED
        BY <3>2, <1>5
  <2> HIDE DEF failed
  <2>2. failed(e).retry < MaxRetry + Cardinality(Proc)
      BY <1>6, <2>1, <1>4, HoldersCountNext
  <2>3. failed(e).retry \in 0..(MaxRetry + Cardinality(Proc) - 1)
      BY <2>1, <2>2, <1>4
  <2>4. /\ failed(e).id \in Nat /\ failed(e).items \in SUBSET Item
        /\ failed(e).created \in 0..MaxTime
      BY <1>3, <1>5, PayloadFields
  <2> QED
      BY <2>3, <2>4, <1>5 DEF Payload
<1> HIDE DEF failed
<1>8. \A e \in outbox' : \E x \in outbox : e = failed(x)
    BY <1>2
<1>9. IsFiniteSet(outbox')
  <2> DEFINE f == [e \in outbox |-> failed(e)]
  <2>1. {f[e] : e \in outbox} = outbox'
      BY <1>2
  <2>2. IsFiniteSet(outbox)
      BY DEF TableInv, RowsDistinct
  <2> HIDE DEF f
  <2>3. IsFiniteSet({f[e] : e \in outbox})
      BY <2>2, Image
  <2> QED
      BY <2>1, <2>3
<1>10. distinct_ids(outbox')
  <2>1. \A e, f \in outbox : e.id = f.id => e = f
      BY DEF TableInv, RowsDistinct, distinct_ids
  <2>2. \A e \in outbox : failed(e).id = e.id
      BY <1>5
  <2>3. \A e, f \in outbox : failed(e).id = failed(f).id => failed(e) = failed(f)
      BY <2>1, <2>2
  <2> QED
      BY <2>3, <1>8 DEF distinct_ids
<1>11. \A x \in Proc : queue'[x] \subseteq queue[x]
    BY <1>2, <1>3
<1>12. \A x \in Proc : IsFiniteSet(queue'[x])
    BY <1>11, FS_Subset DEF TableInv, RowsDistinct
<1>13. RowsDistinct'
    BY <1>9, <1>10, <1>11, <1>12 DEF TableInv, RowsDistinct, distinct_ids
<1>14. RetriesLeft'
  <2>1. ASSUME NEW y \in outbox'
        PROVE  y.retry + Cardinality(holders(y.id)') < MaxRetry + Cardinality(Proc)
    <3>1. PICK e \in outbox : y = failed(e)
        BY <1>8
    <3>2. y.id = e.id
        BY <3>1, <1>5
    <3> QED
        BY <3>1, <3>2, <1>6
  <2> QED
      BY <2>1 DEF RetriesLeft
<1>15. \A e \in outbox' : \E x \in outbox : e.items = x.items
    BY <1>8, <1>5
<1>16. outbox' \subseteq Payload
    BY <1>7, <1>8
<1> QED
    BY <1>13, <1>14, <1>15, <1>16
-----------------------------------------------------------------------------
(* The copies of rollups.                                                  *)

OutboxInv == TableInv /\ SyncInv

LEMMA ItemFields ==
    ASSUME NEW i \in Item
    PROVE  /\ i.row \in Row /\ i.val \in Version /\ i.at \in 1..MaxChanges
           /\ i.at \in Nat /\ i.at # 0
<1>1. i.row \in Row /\ i.val \in Version /\ i.at \in 1..MaxChanges
    BY DEF Item
<1>2. MaxChanges \in Nat
    BY OutboxAssumption
<1> QED
    BY <1>1, <1>2

LEMMA RowFields ==
    ASSUME TypeOK, NEW r \in Row
    PROVE  /\ row[r].val \in Version \cup {None} /\ row[r].dirty \in BOOLEAN
           /\ row[r].at \in 0..MaxChanges /\ row[r].at \in Nat
           /\ high[r] \in 0..MaxChanges /\ high[r] \in Nat
           /\ changes \in 0..MaxChanges /\ changes \in Nat
<1>1. MaxChanges \in Nat
    BY OutboxAssumption
<1>2. row[r] \in [val : Version \cup {None}, at : 0..MaxChanges, dirty : BOOLEAN]
    BY DEF TypeOK
<1>3. high[r] \in 0..MaxChanges /\ changes \in 0..MaxChanges
    BY DEF TypeOK
<1> QED
    BY <1>1, <1>2, <1>3

LEMMA InUnion ==
    ASSUME NEW S, NEW f, NEW x
    PROVE  x \in UNION {f[p] : p \in S} <=> \E p \in S : x \in f[p]
<1> QED
    OBVIOUS

LEMMA PayloadIs ==
    ASSUME NEW items
    PROVE  items \in payloads <=>
               \/ \E p \in Proc : items \in todo[p]
               \/ \E e \in outbox : items = e.items
               \/ \E p \in Proc : \E e \in queue[p] : items = e.items
               \/ items \in orphans
<1>1. \A e : e \in waiting <=> e \in outbox \/ \E p \in Proc : e \in queue[p]
  <2>1. \A e : e \in UNION {queue[p] : p \in Proc} <=> \E p \in Proc : e \in queue[p]
      BY InUnion
  <2> QED
      BY <2>1 DEF waiting
<1>2. items \in planned <=> \E p \in Proc : items \in todo[p]
    BY InUnion DEF planned
<1>3. items \in payloads <=>
          items \in planned \/ items \in orphans \/ \E e \in waiting : items = e.items
    BY DEF payloads
<1> QED
    BY <1>1, <1>2, <1>3

LEMMA PayloadIsNext ==
    ASSUME NEW items
    PROVE  items \in payloads' <=>
               \/ \E p \in Proc : items \in todo'[p]
               \/ \E e \in outbox' : items = e.items
               \/ \E p \in Proc : \E e \in queue'[p] : items = e.items
               \/ items \in orphans'
<1>1. \A e : e \in waiting' <=> e \in outbox' \/ \E p \in Proc : e \in queue'[p]
  <2>1. \A e : e \in UNION {queue'[p] : p \in Proc} <=> \E p \in Proc : e \in queue'[p]
      BY InUnion
  <2> QED
      BY <2>1 DEF waiting
<1>2. items \in planned' <=> \E p \in Proc : items \in todo'[p]
    BY InUnion DEF planned
<1>3. items \in payloads' <=>
          items \in planned' \/ items \in orphans' \/ \E e \in waiting' : items = e.items
    BY DEF payloads
<1> QED
    BY <1>1, <1>2, <1>3

LEMMA PayloadOf ==
    /\ \A p \in Proc : \A items \in todo[p] : items \in payloads
    /\ \A e \in outbox : e.items \in payloads
    /\ \A p \in Proc : \A e \in queue[p] : e.items \in payloads
    /\ \A items \in orphans : items \in payloads
<1> QED
    BY PayloadIs

LEMMA PayloadTyped ==
    ASSUME TypeOK, NEW items \in payloads
    PROVE  items \in SUBSET Item
<1>1. CASE \E p \in Proc : items \in todo[p]
    BY <1>1 DEF TypeOK
<1>2. CASE \E e \in outbox : items = e.items
    BY <1>2, PayloadFields DEF TypeOK
<1>3. CASE \E p \in Proc : \E e \in queue[p] : items = e.items
    BY <1>3, PayloadFields DEF TypeOK
<1>4. CASE items \in orphans
    BY <1>4 DEF TypeOK
<1> QED
    BY <1>1, <1>2, <1>3, <1>4, PayloadIs

\* A copy is in a payload, or the rollup itself.
LEMMA CopyIs ==
    ASSUME NEW i
    PROVE  /\ i \in copies <=>
                \/ i.row \in Rollup /\ \E items \in payloads : i \in items
                \/ \E r \in Rollup : row[r].dirty /\ i = item(r)
           /\ i \in copies' <=>
                \/ i.row \in Rollup /\ \E items \in payloads' : i \in items
                \/ \E r \in Rollup : row'[r].dirty
                                     /\ i = [row |-> r, val |-> row'[r].val, at |-> row'[r].at]
<1> QED
    BY DEF copies, dirty_rows, item

LEMMA CopyTyped ==
    ASSUME TypeOK, RowsSound, NEW i \in copies
    PROVE  i \in Item /\ i.row \in Rollup /\ i.row \in Row
<1>1. CASE i.row \in Rollup /\ \E items \in payloads : i \in items
    BY <1>1, PayloadTyped DEF Row
<1>2. CASE \E r \in Rollup : row[r].dirty /\ i = item(r)
  <2>1. PICK r \in Rollup : row[r].dirty /\ i = item(r)
      BY <1>2
  <2>2. r \in Row
      BY DEF Row
  <2>3. i = [row |-> r, val |-> row[r].val, at |-> row[r].at]
      BY <2>1 DEF item
  <2>4. row[r].at \in 1..MaxChanges
    <3>1. row[r].at # 0
        BY <2>1 DEF RowsSound
    <3>2. MaxChanges \in Nat
        BY OutboxAssumption
    <3> QED
        BY <3>1, <3>2, <2>2, RowFields
  <2>5. row[r].val \in Version
      BY <2>1 DEF RowsSound, Version
  <2> QED
      BY <2>1, <2>2, <2>3, <2>4, <2>5 DEF Item
<1> QED
    BY <1>1, <1>2, CopyIs

\* No copy comes into being by moving payloads, or by making new ones of dirty rollups.
LEMMA CopiesStay ==
    ASSUME \A items \in payloads' :
               items \in payloads \/ \A i \in items : i.row \in Rollup => i \in copies,
           \A r \in Rollup : row'[r].dirty => row'[r] = row[r]
    PROVE  copies' \subseteq copies
<1>1. SUFFICES ASSUME NEW i \in copies'
               PROVE  i \in copies
    OBVIOUS
<1>2. CASE i.row \in Rollup /\ \E items \in payloads' : i \in items
    BY <1>2, CopyIs
<1>3. CASE \E r \in Rollup : row'[r].dirty
                             /\ i = [row |-> r, val |-> row'[r].val, at |-> row'[r].at]
  <2>1. PICK r \in Rollup :
            row'[r].dirty /\ i = [row |-> r, val |-> row'[r].val, at |-> row'[r].at]
      BY <1>3
  <2>2. row'[r] = row[r]
      BY <2>1
  <2>3. row[r].dirty /\ i = item(r)
      BY <2>1, <2>2 DEF item
  <2> QED
      BY <2>3, CopyIs
<1> QED
    BY <1>1, <1>2, <1>3, CopyIs
-----------------------------------------------------------------------------
(* Steps.                                                                  *)

\* What a request does to the server, and to the histories.
LEMMA Upserted ==
    ASSUME TypeOK, NEW items \in SUBSET Item, \A i, j \in items : i.row = j.row => i = j,
           upsert(items)
    PROVE  /\ \A i \in items :
                 /\ server'[i.row] = i.val
                 /\ high'[i.row] = IF high[i.row] >= i.at THEN high[i.row] ELSE i.at
                 /\ i.row \in overtaken' <=> i.at < high[i.row]
                 /\ i.row \in Rollup => known'[i.row] = known[i.row] \cup {i.val}
           /\ \A r \in Row : (\A i \in items : i.row # r) =>
                 /\ server'[r] = server[r] /\ high'[r] = high[r]
                 /\ r \in overtaken' <=> r \in overtaken
                 /\ r \in Rollup => known'[r] = known[r]
           /\ server' \in [Row -> Version \cup {None}] /\ high' \in [Row -> 0..MaxChanges]
           /\ overtaken' \subseteq Row
           /\ (\A i \in items : i.row \in Rollup => i.val \in Value)
                  => known' \in [Rollup -> SUBSET Value]
<1> DEFINE of(r) == CHOOSE i \in items : i.row = r
           sent == {i.row : i \in items}
           older == {i.row : i \in {x \in items : x.at < high[x.row]}}
<1>1. /\ server' = [r \in Row |-> IF r \in sent THEN of(r).val ELSE server[r]]
      /\ known' = [r \in Rollup |-> IF r \in sent THEN known[r] \cup {of(r).val} ELSE known[r]]
      /\ high' = [r \in Row |-> IF r \in sent THEN Max({high[r], of(r).at}) ELSE high[r]]
      /\ overtaken' = (overtaken \ sent) \cup older
    BY DEF upsert
<1>2. \A r : r \in sent <=> \E i \in items : i.row = r
    OBVIOUS
<1>3. \A r : r \in older <=> \E i \in items : i.row = r /\ i.at < high[i.row]
    OBVIOUS
<1>4. \A i \in items : of(i.row) = i
    OBVIOUS
<1>5. \A i \in items : i.row \in Row /\ i.val \in Version /\ i.at \in 1..MaxChanges /\ i.at \in Nat
    BY ItemFields
<1> HIDE DEF of, sent, older
<1>6. ASSUME NEW i \in items
      PROVE  /\ server'[i.row] = i.val
             /\ high'[i.row] = IF high[i.row] >= i.at THEN high[i.row] ELSE i.at
             /\ i.row \in overtaken' <=> i.at < high[i.row]
             /\ i.row \in Rollup => known'[i.row] = known[i.row] \cup {i.val}
  <2>1. i.row \in sent /\ i.row \in Row /\ of(i.row) = i
      BY <1>2, <1>4, <1>5
  <2>2. high[i.row] \in Nat /\ i.at \in Nat
      BY <2>1, <1>5, RowFields
  <2>3. high'[i.row] = Max({high[i.row], i.at})
      BY <1>1, <2>1
  <2>4. high'[i.row] = IF high[i.row] >= i.at THEN high[i.row] ELSE i.at
      BY <2>2, <2>3, MaxOfTwo
  <2>5. i.row \in older <=> i.at < high[i.row]
      BY <1>3
  <2>6. i.row \in overtaken' <=> i.at < high[i.row]
      BY <1>1, <2>1, <2>5
  <2> QED
      BY <1>1, <2>1, <2>4, <2>6
<1>7. ASSUME NEW r \in Row, \A i \in items : i.row # r
      PROVE  /\ server'[r] = server[r] /\ high'[r] = high[r]
             /\ r \in overtaken' <=> r \in overtaken
             /\ r \in Rollup => known'[r] = known[r]
  <2>1. r \notin sent /\ r \notin older
      BY <1>2, <1>3, <1>7
  <2> QED
      BY <1>1, <2>1
<1>8. \A r \in Row : server'[r] \in Version \cup {None}
  <2>1. ASSUME NEW r \in Row
        PROVE  server'[r] \in Version \cup {None}
    <3>1. CASE \E i \in items : i.row = r
        BY <3>1, <1>5, <1>6
    <3>2. CASE \A i \in items : i.row # r
        BY <3>2, <1>7 DEF TypeOK
    <3> QED
        BY <3>1, <3>2
  <2> QED
      BY <2>1
<1>9. \A r \in Row : high'[r] \in 0..MaxChanges
  <2>1. ASSUME NEW r \in Row
        PROVE  high'[r] \in 0..MaxChanges
    <3>1. CASE \E i \in items : i.row = r
      <4>1. PICK i \in items : i.row = r
          BY <3>1
      <4>2. high'[r] = high[r] \/ high'[r] = i.at
          BY <4>1, <1>6
      <4>3. i.at \in 0..MaxChanges
          BY <1>5
      <4> QED
          BY <4>2, <4>3, RowFields
    <3>2. CASE \A i \in items : i.row # r
        BY <3>2, <1>7, RowFields
    <3> QED
        BY <3>1, <3>2
  <2> QED
      BY <2>1
<1>10. server' \in [Row -> Version \cup {None}] /\ high' \in [Row -> 0..MaxChanges]
    BY <1>1, <1>8, <1>9
<1>11. overtaken' \subseteq Row
  <2>1. overtaken \subseteq Row
      BY DEF TypeOK
  <2>2. older \subseteq Row
      BY <1>3, <1>5
  <2> QED
      BY <2>1, <2>2, <1>1
<1>12. (\A i \in items : i.row \in Rollup => i.val \in Value) => known' \in [Rollup -> SUBSET Value]
  <2>1. ASSUME \A i \in items : i.row \in Rollup => i.val \in Value, NEW r \in Rollup
        PROVE  known'[r] \in SUBSET Value
    <3>1. known[r] \in SUBSET Value /\ r \in Row
        BY DEF TypeOK, Row
    <3>2. CASE \E i \in items : i.row = r
        BY <3>1, <3>2, <2>1, <1>6
    <3>3. CASE \A i \in items : i.row # r
        BY <3>1, <3>3, <1>7
    <3> QED
        BY <3>2, <3>3
  <2> QED
      BY <2>1, <1>1
<1> QED
    BY <1>6, <1>7, <1>10, <1>11, <1>12

\* A step that changes neither a rollup nor the server, and makes no copy.
LEMMA QuietStep ==
    ASSUME TypeOK, SyncInv, copies' \subseteq copies, UNCHANGED server_vars,
           \A r \in Rollup : row'[r] = row[r], changes' \in Nat, changes <= changes',
           \A p \in Proc : pc'[p] = "mark" => pc[p] = "mark" /\ queue'[p] = queue[p]
    PROVE  /\ RowsSound' /\ CopiesSound' /\ ServerHasNewest' /\ CleanIsNewest'
           /\ MarkedIsSent' /\ CleanIsCurrent'
<1>1. \A i \in copies' : i \in copies /\ i.row \in Rollup /\ i.row \in Row /\ i.at \in Nat
    BY CopyTyped, ItemFields DEF SyncInv
<1>2. server' = server /\ known' = known /\ high' = high /\ overtaken' = overtaken
    BY DEF server_vars
<1>3. \A r \in Rollup : row[r].at \in Nat /\ high[r] \in Nat /\ changes \in Nat /\ r \in Row
    BY RowFields DEF Row
<1>4. RowsSound'
  <2>1. ASSUME NEW r \in Rollup
        PROVE  row'[r].at <= changes' /\ high'[r] <= changes'
    <3>1. row[r].at <= changes /\ high[r] <= changes
        BY DEF SyncInv, RowsSound
    <3> QED
        BY <3>1, <1>2, <1>3
  <2> QED
      BY <2>1, <1>2 DEF SyncInv, RowsSound
<1>5. CopiesSound'
  <2>1. \A i \in copies' : i.at <= changes'
    <3>1. \A i \in copies' : i.at <= changes
        BY <1>1 DEF SyncInv, CopiesSound
    <3> QED
        BY <3>1, <1>1, <1>3
  <2>2. \A i \in copies' : i.val \in Value /\ (row'[i.row].dirty => i.at <= row'[i.row].at)
      BY <1>1 DEF SyncInv, CopiesSound
  <2>3. \A i, j \in copies' : i.row = j.row /\ i.at = j.at => i.val = j.val
      BY <1>1 DEF SyncInv, CopiesSound
  <2> QED
      BY <2>1, <2>2, <2>3 DEF CopiesSound
<1>6. ServerHasNewest'
    BY <1>1, <1>2 DEF SyncInv, ServerHasNewest
<1>7. present_clean' = present_clean
    BY DEF present_clean
<1>8. present_clean \subseteq Rollup
    BY DEF present_clean
<1>9. CleanIsNewest'
    BY <1>1, <1>2, <1>7, <1>8 DEF SyncInv, CleanIsNewest
<1>10. CleanIsCurrent'
    BY <1>2, <1>7, <1>8 DEF SyncInv, CleanIsCurrent
<1>11. MarkedIsSent'
  <2>1. ASSUME NEW p \in Proc, pc'[p] = "mark"
        PROVE  pc[p] = "mark" /\ head(p)' = head(p)
      BY <2>1 DEF head
  <2> QED
      BY <2>1, <1>2 DEF SyncInv, MarkedIsSent
<1> QED
    BY <1>4, <1>5, <1>6, <1>9, <1>10, <1>11
\* A request arrives with a payload that was made before.
LEMMA RequestStep ==
    ASSUME TypeOK, SyncInv, NEW items \in payloads, upsert(items), copies' \subseteq copies,
           row' = row, changes' = changes
    PROVE  /\ RowsSound' /\ CopiesSound' /\ ServerHasNewest' /\ CleanIsNewest' /\ CleanIsCurrent'
           /\ \A r \in Rollup : known[r] \subseteq known'[r] /\ high[r] <= high'[r]
           /\ \A i \in items : i.row \in Rollup => i.val \in known'[i.row] /\ i.at <= high'[i.row]
           /\ server' \in [Row -> Version \cup {None}] /\ high' \in [Row -> 0..MaxChanges]
           /\ overtaken' \subseteq Row /\ known' \in [Rollup -> SUBSET Value]
<1>1. items \in SUBSET Item /\ \A i, j \in items : i.row = j.row => i = j
    BY PayloadTyped DEF SyncInv, PayloadsSound
<1>2. \A i \in items : i.row \in Rollup => i \in copies
    BY CopyIs
<1>3. \A i \in items : i.row \in Rollup => i.val \in Value
    BY <1>2 DEF SyncInv, CopiesSound
<1>4. /\ \A i \in items :
            /\ server'[i.row] = i.val
            /\ high'[i.row] = IF high[i.row] >= i.at THEN high[i.row] ELSE i.at
            /\ i.row \in overtaken' <=> i.at < high[i.row]
            /\ i.row \in Rollup => known'[i.row] = known[i.row] \cup {i.val}
      /\ \A r \in Row : (\A i \in items : i.row # r) =>
            /\ server'[r] = server[r] /\ high'[r] = high[r]
            /\ r \in overtaken' <=> r \in overtaken
            /\ r \in Rollup => known'[r] = known[r]
      /\ server' \in [Row -> Version \cup {None}] /\ high' \in [Row -> 0..MaxChanges]
      /\ overtaken' \subseteq Row /\ known' \in [Rollup -> SUBSET Value]
    BY <1>1, <1>3, Upserted
<1>5. \A i \in copies : i.row \in Rollup /\ i.row \in Row /\ i.at \in Nat
    BY CopyTyped, ItemFields DEF SyncInv
<1>6. \A r \in Rollup : r \in Row /\ high[r] \in Nat /\ row[r].at \in Nat /\ changes \in Nat
    BY RowFields DEF Row
<1>7. \A i \in copies' : i \in copies
    OBVIOUS
<1>8. ASSUME NEW r \in Rollup
      PROVE  /\ known[r] \subseteq known'[r] /\ high[r] <= high'[r] /\ high'[r] <= changes
             /\ row[r].dirty => high'[r] <= row[r].at
  <2>1. high[r] <= changes /\ (row[r].dirty => high[r] <= row[r].at)
      BY DEF SyncInv, RowsSound
  <2>2. CASE \E i \in items : i.row = r
    <3>1. PICK i \in items : i.row = r
        BY <2>2
    <3>2. i \in copies
        BY <3>1, <1>2
    <3>3. i.at <= changes /\ (row[r].dirty => i.at <= row[r].at)
        BY <3>1, <3>2 DEF SyncInv, CopiesSound
    <3>4. high'[r] = IF high[r] >= i.at THEN high[r] ELSE i.at
        BY <3>1, <1>4
    <3>5. known'[r] = known[r] \cup {i.val}
        BY <3>1, <1>4
    <3>6. high[r] \in Nat /\ i.at \in Nat
        BY <3>2, <1>5, <1>6
    <3>7. high[r] <= high'[r]
        BY <3>4, <3>6
    <3> QED
        BY <2>1, <3>3, <3>4, <3>5, <3>7
  <2>3. CASE \A i \in items : i.row # r
      BY <2>1, <2>3, <1>4, <1>6
  <2> QED
      BY <2>2, <2>3
<1>9. \A i \in items : i.row \in Rollup => i.val \in known'[i.row] /\ i.at <= high'[i.row]
  <2>1. ASSUME NEW i \in items, i.row \in Rollup
        PROVE  i.val \in known'[i.row] /\ i.at <= high'[i.row]
    <3>1. i \in copies
        BY <2>1, <1>2
    <3>2. high[i.row] \in Nat /\ i.at \in Nat
        BY <3>1, <1>5, <1>6
    <3>3. high'[i.row] = IF high[i.row] >= i.at THEN high[i.row] ELSE i.at
        BY <1>4
    <3>4. i.at <= high'[i.row]
        BY <3>2, <3>3
    <3>5. known'[i.row] = known[i.row] \cup {i.val}
        BY <2>1, <1>4
    <3> QED
        BY <3>4, <3>5
  <2> QED
      BY <2>1
<1>10. RowsSound'
    BY <1>8 DEF SyncInv, RowsSound
<1>11. CopiesSound'
    BY <1>7 DEF SyncInv, CopiesSound
<1>12. ASSUME NEW i \in copies', i.row \notin overtaken', i.at = high'[i.row]
       PROVE  server'[i.row] = i.val
  <2>1. i \in copies /\ i.row \in Rollup /\ i.row \in Row /\ i.at \in Nat /\ high[i.row] \in Nat
      BY <1>5, <1>6, <1>7
  <2>2. CASE \E x \in items : x.row = i.row
    <3>1. PICK x \in items : x.row = i.row
        BY <2>2
    <3>2. x \in copies /\ x.at \in Nat
        BY <2>1, <3>1, <1>2, <1>5
    <3>3. ~(x.at < high[i.row])
        BY <3>1, <1>4, <1>12
    <3>4. high'[i.row] = IF high[i.row] >= x.at THEN high[i.row] ELSE x.at
        BY <3>1, <1>4
    <3>5. i.at = x.at
        BY <2>1, <3>2, <3>3, <3>4, <1>12
    <3>6. i.val = x.val
        BY <2>1, <3>1, <3>2, <3>5 DEF SyncInv, CopiesSound
    <3> QED
        BY <3>1, <3>6, <1>4
  <2>3. CASE \A x \in items : x.row # i.row
    <3>1. /\ server'[i.row] = server[i.row] /\ high'[i.row] = high[i.row]
          /\ i.row \notin overtaken
        BY <2>1, <2>3, <1>4, <1>12
    <3> QED
        BY <2>1, <3>1, <1>12 DEF SyncInv, ServerHasNewest
  <2> QED
      BY <2>2, <2>3
<1>13. ServerHasNewest'
    BY <1>12 DEF ServerHasNewest
<1>14. present_clean' = present_clean /\ present_clean \subseteq Rollup
    BY DEF present_clean
<1>15. ASSUME NEW x \in items, x.row \in present_clean
       PROVE  high'[x.row] = high[x.row]
              /\ (x.row \notin overtaken' => x.val = row[x.row].val)
  <2>1. x.row \in Rollup /\ x \in copies
      BY <1>2, <1>14, <1>15
  <2>2. x.at \in Nat /\ high[x.row] \in Nat
      BY <2>1, <1>5, <1>6
  <2>3. x.at <= high[x.row] /\ (x.at = high[x.row] => x.val = row[x.row].val)
      BY <2>1, <1>15 DEF SyncInv, CleanIsNewest
  <2>4. high'[x.row] = IF high[x.row] >= x.at THEN high[x.row] ELSE x.at
      BY <1>4
  <2>5. x.row \in overtaken' <=> x.at < high[x.row]
      BY <1>4
  <2>6. high'[x.row] = high[x.row]
      BY <2>2, <2>3, <2>4
  <2>7. x.row \notin overtaken' => x.at = high[x.row]
      BY <2>2, <2>3, <2>5
  <2> QED
      BY <2>3, <2>6, <2>7
<1>16. \A r \in present_clean : high'[r] = high[r]
  <2>1. ASSUME NEW r \in present_clean
        PROVE  high'[r] = high[r]
    <3>1. CASE \E x \in items : x.row = r
        BY <3>1, <1>15
    <3>2. CASE \A x \in items : x.row # r
        BY <3>2, <1>4, <1>6, <1>14
    <3> QED
        BY <3>1, <3>2
  <2> QED
      BY <2>1
<1>17. CleanIsNewest'
    BY <1>7, <1>14, <1>16 DEF SyncInv, CleanIsNewest
<1>18. CleanIsCurrent'
  <2>1. ASSUME NEW r \in present_clean, r \notin overtaken'
        PROVE  server'[r] = row[r].val
    <3>1. r \in Row
        BY <1>6, <1>14
    <3>2. CASE \E x \in items : x.row = r
      <4>1. PICK x \in items : x.row = r
          BY <3>2
      <4> QED
          BY <4>1, <2>1, <1>4, <1>15
    <3>3. CASE \A x \in items : x.row # r
      <4>1. server'[r] = server[r] /\ r \notin overtaken
          BY <3>1, <3>3, <2>1, <1>4
      <4> QED
          BY <4>1 DEF SyncInv, CleanIsCurrent
    <3> QED
        BY <3>2, <3>3
  <2> QED
      BY <2>1, <1>14 DEF CleanIsCurrent
<1> QED
    BY <1>4, <1>8, <1>9, <1>10, <1>11, <1>13, <1>17, <1>18

\* A row of the outbox keeps its id while its items are marked, and stays the first.
LEMMA NextHead ==
    ASSUME TableInv, NEW p \in Proc, pc[p] = "mark", NEW h, h = head(p), NEW m,
           queue' = [queue EXCEPT ![p] = (@ \ {h}) \cup {[h EXCEPT !.items = @ \ {m}]}]
    PROVE  /\ h \in queue[p] /\ h \in Payload
           /\ [h EXCEPT !.items = @ \ {m}] \in Payload
           /\ head(p)' = [h EXCEPT !.items = @ \ {m}] /\ head(p)'.items \subseteq h.items
<1> PICK left : left = [h EXCEPT !.items = @ \ {m}]
    OBVIOUS
<1>1. queue \in [Proc -> SUBSET Payload]
    BY DEF TableInv, TypeOK
<1>2. h \in queue[p]
    BY HasHead DEF TableInv, AnswersHeld
<1>3. h \in Payload
    BY <1>1, <1>2
<1>4. left.id = h.id /\ left.items = h.items \ {m} /\ left \in Payload
    BY <1>3 DEF Payload
<1>5. queue'[p] = (queue[p] \ {h}) \cup {left}
    BY <1>1
<1>6. \A x \in queue[p] : h.id <= x.id /\ x.id \in Nat
  <2>1. \E e \in queue[p] : \A x \in queue[p] : e.id <= x.id
    <3> DEFINE ids == {e.id : e \in queue[p]}
    <3>1. ids \subseteq Nat /\ ids # {}
        BY <1>1, <1>2, PayloadFields
    <3>2. PICK n \in ids : \A k \in ids : n <= k
        BY <3>1, Least
    <3> QED
        BY <3>2
  <2>2. h = CHOOSE e \in queue[p] : \A x \in queue[p] : e.id <= x.id
      BY DEF head
  <2>3. \A x \in queue[p] : h.id <= x.id
      BY <2>1, <2>2
  <2> QED
      BY <2>3, <1>1, PayloadFields
<1>7. \A x \in queue'[p] : left.id <= x.id
    BY <1>2, <1>4, <1>5, <1>6
<1>8. ASSUME NEW e \in queue'[p], \A x \in queue'[p] : e.id <= x.id
      PROVE  e = left
  <2>1. e.id <= left.id /\ left.id <= e.id
      BY <1>5, <1>7, <1>8
  <2>2. e.id = h.id
    <3>1. e.id \in Nat /\ h.id \in Nat
        BY <1>2, <1>4, <1>5, <1>6
    <3> QED
        BY <2>1, <3>1, <1>4
  <2>3. e \in queue[p] => e = h
      BY <2>2, <1>2 DEF TableInv, RowsDistinct, distinct_ids
  <2> QED
      BY <2>3, <1>5
<1>9. left \in queue'[p]
    BY <1>5
<1>10. head(p)' = CHOOSE e \in queue'[p] : \A x \in queue'[p] : e.id <= x.id
    BY DEF head
<1>11. head(p)' = left
    BY <1>7, <1>8, <1>9, <1>10
<1> QED
    BY <1>2, <1>3, <1>4, <1>11

\* Marking an item leaves a part of a payload.
LEMMA MarkedPayloads ==
    ASSUME TableInv, NEW p \in Proc, pc[p] = "mark", NEW h, h = head(p), NEW m,
           queue' = [queue EXCEPT ![p] = (@ \ {h}) \cup {[h EXCEPT !.items = @ \ {m}]}],
           UNCHANGED <<todo, outbox, orphans>>
    PROVE  \A items \in payloads' : \E whole \in payloads : items \subseteq whole
<1> PICK left : left = [h EXCEPT !.items = @ \ {m}]
    OBVIOUS
<1>1. queue \in [Proc -> SUBSET Payload]
    BY DEF TableInv, TypeOK
<1>2. h \in queue[p] /\ left.items \subseteq h.items
    BY NextHead
<1>3. h.items \in payloads
    BY <1>2, PayloadOf
<1>4. \A q \in Proc : \A e \in queue'[q] : e \in queue[q] \/ e = left
    BY <1>1
<1>5. ASSUME NEW items \in payloads'
      PROVE  items \in payloads \/ items = left.items
  <2>1. CASE \E q \in Proc : items \in todo'[q]
      BY <2>1, PayloadOf
  <2>2. CASE \E e \in outbox' : items = e.items
      BY <2>2, PayloadOf
  <2>3. CASE \E q \in Proc : \E e \in queue'[q] : items = e.items
      BY <2>3, <1>4, PayloadOf
  <2>4. CASE items \in orphans'
      BY <2>4, PayloadOf
  <2> QED
      BY <2>1, <2>2, <2>3, <2>4, PayloadIsNext
<1> QED
    BY <1>2, <1>3, <1>5

\* A rollup gets another total, or goes.
LEMMA ScanStep ==
    ASSUME TypeOK, SyncInv, payloads' = payloads, UNCHANGED <<server_vars, pc, queue>>,
           NEW r \in Rollup, NEW v \in Value \cup {None}, changes' = changes + 1,
           row' = [row EXCEPT ![r] = IF v = None THEN absent
                                     ELSE [val |-> v, at |-> changes', dirty |-> TRUE]]
    PROVE  /\ RowsSound' /\ CopiesSound' /\ ServerHasNewest' /\ CleanIsNewest'
           /\ MarkedIsSent' /\ CleanIsCurrent'
<1>1. r \in Row /\ changes \in Nat /\ changes' \in Nat
    BY RowFields DEF Row
<1>2. \A x \in Row : x # r => row'[x] = row[x]
    BY DEF TypeOK
<1>3. row'[r] = IF v = None THEN absent ELSE [val |-> v, at |-> changes', dirty |-> TRUE]
    BY <1>1 DEF TypeOK
<1>4. /\ v = None => row'[r].val = None /\ row'[r].at = 0 /\ row'[r].dirty = FALSE
      /\ v # None => row'[r].val = v /\ row'[r].at = changes + 1 /\ row'[r].dirty = TRUE
    BY <1>3 DEF absent
<1>5. server' = server /\ known' = known /\ high' = high /\ overtaken' = overtaken
    BY DEF server_vars
<1>6. \A x \in Rollup : /\ x \in Row /\ high[x] \in Nat /\ row[x].at \in Nat
                        /\ high[x] <= changes /\ row[x].at <= changes
    BY RowFields DEF Row, SyncInv, RowsSound
<1>7. \A i \in copies : /\ i.row \in Rollup /\ i.row \in Row /\ i.at \in Nat
                        /\ i.at <= changes /\ i.val \in Value
    BY CopyTyped, ItemFields DEF SyncInv, CopiesSound
<1>8. \A i \in copies' : \/ i \in copies
                         \/ v # None /\ i.row = r /\ i.val = v /\ i.at = changes + 1
  <2>1. SUFFICES ASSUME NEW i \in copies'
                 PROVE  i \in copies \/ (v # None /\ i.row = r /\ i.val = v /\ i.at = changes + 1)
      OBVIOUS
  <2>2. CASE i.row \in Rollup /\ \E items \in payloads' : i \in items
      BY <2>2, CopyIs
  <2>3. CASE \E x \in Rollup : row'[x].dirty
                               /\ i = [row |-> x, val |-> row'[x].val, at |-> row'[x].at]
    <3>1. PICK x \in Rollup : row'[x].dirty
                              /\ i = [row |-> x, val |-> row'[x].val, at |-> row'[x].at]
        BY <2>3
    <3>2. CASE x = r
        BY <3>1, <3>2, <1>4
    <3>3. CASE x # r
      <4>1. row'[x] = row[x]
          BY <3>3, <1>2, <1>6
      <4>2. row[x].dirty /\ i = item(x)
          BY <3>1, <4>1 DEF item
      <4> QED
          BY <4>2, CopyIs
    <3> QED
        BY <3>2, <3>3
  <2> QED
      BY <2>2, <2>3, CopyIs
<1>9. RowsSound'
  <2>1. ASSUME NEW x \in Rollup
        PROVE  /\ row'[x].dirty <=> row'[x].at # 0
               /\ row'[x].val \in Value \cup {None}
               /\ row'[x].dirty => row'[x].val \in Value
               /\ row'[x].at <= changes' /\ high'[x] <= changes'
               /\ row'[x].dirty => high'[x] <= row'[x].at
    <3>1. CASE x = r
        BY <3>1, <1>1, <1>4, <1>5, <1>6
    <3>2. CASE x # r
      <4>1. row'[x] = row[x]
          BY <3>2, <1>2, <1>6
      <4>2. row[x].at <= changes' /\ high[x] <= changes'
          BY <1>1, <1>6
      <4> QED
          BY <4>1, <4>2, <1>5 DEF SyncInv, RowsSound
    <3> QED
        BY <3>1, <3>2
  <2> QED
      BY <2>1 DEF RowsSound
<1>10. CopiesSound'
  <2>1. ASSUME NEW i \in copies'
        PROVE  i.val \in Value /\ i.at <= changes' /\ (row'[i.row].dirty => i.at <= row'[i.row].at)
    <3>1. CASE i \in copies
      <4>1. i.val \in Value /\ i.at <= changes' /\ i.row \in Row
          BY <3>1, <1>1, <1>7
      <4>2. CASE i.row = r
          BY <4>1, <4>2, <1>4
      <4>3. CASE i.row # r
        <5>1. row'[i.row] = row[i.row]
            BY <4>1, <4>3, <1>2
        <5> QED
            BY <4>1, <5>1, <3>1 DEF SyncInv, CopiesSound
      <4> QED
          BY <4>2, <4>3
    <3>2. CASE v # None /\ i.row = r /\ i.val = v /\ i.at = changes + 1
        BY <3>2, <1>1, <1>4
    <3> QED
        BY <3>1, <3>2, <1>8
  <2>2. ASSUME NEW i \in copies', NEW j \in copies', i.row = j.row, i.at = j.at
        PROVE  i.val = j.val
    <3>1. CASE i \in copies /\ j \in copies
        BY <3>1, <2>2 DEF SyncInv, CopiesSound
    <3>2. CASE i \notin copies /\ j \notin copies
        BY <3>2, <1>8
    <3>3. CASE i \in copies /\ j \notin copies
        BY <3>3, <2>2, <1>1, <1>7, <1>8
    <3>4. CASE i \notin copies /\ j \in copies
        BY <3>4, <2>2, <1>1, <1>7, <1>8
    <3> QED
        BY <3>1, <3>2, <3>3, <3>4
  <2> QED
      BY <2>1, <2>2 DEF CopiesSound
<1>11. ServerHasNewest'
  <2>1. ASSUME NEW i \in copies', i.row \notin overtaken', i.at = high'[i.row]
        PROVE  server'[i.row] = i.val
    <3>1. CASE i \in copies
        BY <3>1, <2>1, <1>5 DEF SyncInv, ServerHasNewest
    <3>2. CASE v # None /\ i.row = r /\ i.val = v /\ i.at = changes + 1
      <4>1. high[r] = changes + 1
          BY <3>2, <2>1, <1>5
      <4> QED
          BY <4>1, <1>1, <1>6
    <3> QED
        BY <3>1, <3>2, <1>8
  <2> QED
      BY <2>1 DEF ServerHasNewest
<1>12. \A x \in present_clean' : x \in present_clean /\ x # r /\ x \in Rollup /\ row'[x] = row[x]
  <2>1. ASSUME NEW x \in Rollup, row'[x].val # None, ~row'[x].dirty
        PROVE  x # r /\ row'[x] = row[x]
    <3>1. x # r
        BY <2>1, <1>4
    <3> QED
        BY <3>1, <1>2, <1>6
  <2> QED
      BY <2>1 DEF present_clean
<1>13. CleanIsNewest'
  <2>1. ASSUME NEW i \in copies', i.row \in present_clean'
        PROVE  i.at <= high'[i.row] /\ (i.at = high'[i.row] => i.val = row'[i.row].val)
    <3>1. i \in copies
        BY <2>1, <1>8, <1>12
    <3> QED
        BY <3>1, <2>1, <1>5, <1>12 DEF SyncInv, CleanIsNewest
  <2> QED
      BY <2>1 DEF CleanIsNewest
<1>14. CleanIsCurrent'
    BY <1>5, <1>12 DEF SyncInv, CleanIsCurrent
<1>15. MarkedIsSent'
  <2>1. \A p \in Proc : head(p)' = head(p)
      BY DEF head
  <2> QED
      BY <2>1, <1>5 DEF SyncInv, MarkedIsSent
<1> QED
    BY <1>9, <1>10, <1>11, <1>13, <1>14, <1>15
\* A process acknowledges what the server was sent.
LEMMA MarkStep ==
    ASSUME TableInv, SyncInv, NEW p \in Proc, MarkPayloadUploaded(p)
    PROVE  /\ row' \in [Row -> [val : Version \cup {None}, at : 0..MaxChanges, dirty : BOOLEAN]]
           /\ PayloadsSound' /\ RowsSound' /\ CopiesSound' /\ ServerHasNewest' /\ CleanIsNewest'
           /\ MarkedIsSent' /\ CleanIsCurrent'
           /\ \A r \in Rollup :
                 \/ row'[r] = row[r]
                 \/ /\ row[r].dirty /\ row[r].val \in known[r]
                    /\ row'[r].val = row[r].val /\ ~row'[r].dirty
<1> PICK h : h = head(p)
    OBVIOUS
<1>1. PICK m \in h.items :
          /\ row' = [r \in Row |-> IF r = m.row /\ acked(m)
                                   THEN [row[r] EXCEPT !.dirty = FALSE, !.at = 0] ELSE row[r]]
          /\ queue' = [queue EXCEPT ![p] = (@ \ {h}) \cup {[h EXCEPT !.items = @ \ {m}]}]
          /\ pc[p] = "mark" /\ pc' = pc
          /\ changes' = changes /\ todo' = todo /\ outbox' = outbox /\ orphans' = orphans
          /\ server' = server /\ known' = known /\ high' = high /\ overtaken' = overtaken
    BY DEF MarkPayloadUploaded, server_vars
<1>2. h \in queue[p] /\ h.items \in payloads
    BY <1>1, HasHead, PayloadOf DEF TableInv, AnswersHeld
<1> DEFINE done == {r \in {m.row} : acked(m)}
<1>3. row' = [r \in Row |-> IF r \in done THEN [row[r] EXCEPT !.dirty = FALSE, !.at = 0]
                           ELSE row[r]]
    BY <1>1
<1>4. \A r : r \in done => m.row = r /\ acked(m)
    OBVIOUS
<1> HIDE DEF done
<1>5. \A r \in Row : row[r] \in [val : Version \cup {None}, at : 0..MaxChanges, dirty : BOOLEAN]
    BY DEF TableInv, TypeOK
<1>6. MaxChanges \in Nat
    BY OutboxAssumption
<1>7. ASSUME NEW r \in Row
      PROVE  /\ r \notin done => row'[r] = row[r]
             /\ r \in done => /\ row'[r].val = row[r].val /\ row'[r].at = 0
                              /\ row'[r].dirty = FALSE
             /\ row'[r] \in [val : Version \cup {None}, at : 0..MaxChanges, dirty : BOOLEAN]
  <2>1. row'[r] = IF r \in done THEN [row[r] EXCEPT !.dirty = FALSE, !.at = 0] ELSE row[r]
      BY <1>3
  <2>2. row[r] \in [val : Version \cup {None}, at : 0..MaxChanges, dirty : BOOLEAN]
      BY <1>5
  <2>3. 0 \in 0..MaxChanges
      BY <1>6
  <2> QED
      BY <2>1, <2>2, <2>3
<1>8. row' \in [Row -> [val : Version \cup {None}, at : 0..MaxChanges, dirty : BOOLEAN]]
    BY <1>3, <1>7
\* The payloads are the same, but for what is left to mark of the first one.
<1>9. \A items \in payloads' : \E whole \in payloads : items \subseteq whole
    BY <1>1, <1>2, MarkedPayloads
<1>10. \A x \in Rollup : /\ x \in Row /\ high[x] \in Nat /\ row[x].at \in Nat
                         /\ high[x] <= changes /\ row[x].at <= changes /\ changes \in Nat
    BY RowFields DEF Row, SyncInv, RowsSound, TableInv
<1>11. \A i \in copies : i.row \in Rollup /\ i.row \in Row /\ i.at \in Nat /\ i.at # 0
    BY CopyTyped, ItemFields DEF SyncInv, TableInv
\* Of a rollup that is acknowledged now:
<1>12. ASSUME NEW r \in Rollup, r \in done
       PROVE  /\ row[r].dirty /\ row[r].val \in known[r] /\ row[r].at = high[r]
              /\ \A j \in copies : j.row = r =>
                    j.at <= high[r] /\ (j.at = high[r] => j.val = row[r].val)
              /\ r \notin overtaken => server[r] = row[r].val
  <2>1. PICK i \in h.items : i.row = r /\ acked(i)
      BY <1>1, <1>4, <1>12
  <2>2. i \in copies
      BY <2>1, <1>2, CopyIs
  <2>3. row[r].val = i.val /\ row[r].at = i.at
      BY <2>1 DEF acked
  <2>4. i.val \in known[r] /\ i.at <= high[r]
      BY <2>1, <1>1 DEF SyncInv, MarkedIsSent
  <2>5. row[r].dirty
      BY <2>2, <2>3, <1>11 DEF SyncInv, RowsSound
  <2>6. high[r] <= row[r].at
      BY <2>5 DEF SyncInv, RowsSound
  <2>7. row[r].at = high[r]
      BY <2>3, <2>4, <2>6, <1>10
  <2>8. \A j \in copies : j.row = r => j.at <= high[r]
      BY <2>5, <2>7 DEF SyncInv, CopiesSound
  <2>9. \A j \in copies : j.row = r /\ j.at = high[r] => j.val = row[r].val
      BY <2>1, <2>2, <2>3, <2>7 DEF SyncInv, CopiesSound
  <2>10. r \notin overtaken => server[r] = row[r].val
      BY <2>1, <2>2, <2>3, <2>7 DEF SyncInv, ServerHasNewest
  <2> QED
      BY <2>3, <2>4, <2>5, <2>7, <2>8, <2>9, <2>10
<1>13. \A r \in Rollup : row'[r].dirty => row'[r] = row[r] /\ r \notin done
    BY <1>7, <1>10
<1>14. copies' \subseteq copies
  <2>1. \A items \in payloads' : \A i \in items : i.row \in Rollup => i \in copies
      BY <1>9, CopyIs
  <2> QED
      BY <2>1, <1>13, CopiesStay
<1>15. PayloadsSound'
  <2>1. \A items \in payloads' :
            IsFiniteSet(items) /\ \A i, j \in items : i.row = j.row => i = j
      BY <1>9, FS_Subset DEF SyncInv, PayloadsSound
  <2> QED
      BY <2>1 DEF PayloadsSound
<1>16. RowsSound'
  <2>1. ASSUME NEW r \in Rollup
        PROVE  /\ row'[r].dirty <=> row'[r].at # 0
               /\ row'[r].val \in Value \cup {None}
               /\ row'[r].dirty => row'[r].val \in Value
               /\ row'[r].at <= changes' /\ high'[r] <= changes'
               /\ row'[r].dirty => high'[r] <= row'[r].at
    <3>1. CASE r \in done
      <4>1. row'[r].val = row[r].val /\ row'[r].at = 0 /\ row'[r].dirty = FALSE
          BY <3>1, <1>7, <1>10
      <4>2. row[r].val \in Value \cup {None} /\ high[r] <= changes
          BY DEF SyncInv, RowsSound
      <4>3. 0 <= changes
          BY <1>10
      <4>4. changes' = changes /\ high'[r] = high[r]
          BY <1>1
      <4>5. row'[r].val \in Value \cup {None}
          BY <4>1, <4>2
      <4>6. row'[r].at <= changes' /\ high'[r] <= changes'
          BY <4>1, <4>2, <4>3, <4>4
      <4>7. ~row'[r].dirty /\ ~(row'[r].at # 0)
          BY <4>1
      <4> QED
          BY ONLY <4>5, <4>6, <4>7
    <3>2. CASE r \notin done
      <4>1. row'[r] = row[r]
          BY <3>2, <1>7 DEF Row
      <4>2. changes' = changes /\ high'[r] = high[r]
          BY <1>1
      <4>3. /\ row[r].dirty <=> row[r].at # 0
            /\ row[r].val \in Value \cup {None}
            /\ row[r].dirty => row[r].val \in Value
            /\ row[r].at <= changes /\ high[r] <= changes
            /\ row[r].dirty => high[r] <= row[r].at
          BY DEF SyncInv, RowsSound
      <4> QED
          BY <4>1, <4>2, <4>3
    <3> QED
        BY <3>1, <3>2
  <2> QED
      BY <2>1 DEF RowsSound
<1>17. CopiesSound'
  <2>1. \A i \in copies' : i \in copies /\ i.row \in Rollup
      BY <1>14, <1>11
  <2>2. \A i \in copies' : /\ i.val \in Value /\ i.at <= changes'
                           /\ row'[i.row].dirty => i.at <= row'[i.row].at
      BY <2>1, <1>1, <1>13 DEF SyncInv, CopiesSound
  <2>3. \A i, j \in copies' : i.row = j.row /\ i.at = j.at => i.val = j.val
      BY <2>1 DEF SyncInv, CopiesSound
  <2> QED
      BY <2>2, <2>3 DEF CopiesSound
<1>18. ServerHasNewest'
    BY <1>1, <1>14 DEF SyncInv, ServerHasNewest
<1>19. \A r \in present_clean' : /\ r \in Rollup /\ row'[r].val = row[r].val
                                 /\ r \in done \/ r \in present_clean
    BY <1>7, <1>10 DEF present_clean
<1>24. CleanIsNewest'
  <2>1. ASSUME NEW i \in copies', i.row \in present_clean'
        PROVE  i.at <= high'[i.row] /\ (i.at = high'[i.row] => i.val = row'[i.row].val)
    <3>1. i \in copies
        BY <1>14
    <3>2. CASE i.row \in done
        BY <3>1, <3>2, <2>1, <1>1, <1>12, <1>19
    <3>3. CASE i.row \in present_clean
        BY <3>1, <3>3, <2>1, <1>1, <1>19 DEF SyncInv, CleanIsNewest
    <3> QED
        BY <3>2, <3>3, <2>1, <1>19
  <2> QED
      BY <2>1 DEF CleanIsNewest
<1>21. CleanIsCurrent'
  <2>1. ASSUME NEW r \in present_clean', r \notin overtaken'
        PROVE  server'[r] = row'[r].val
    <3>1. CASE r \in done
        BY <3>1, <2>1, <1>1, <1>12, <1>19
    <3>2. CASE r \in present_clean
        BY <3>2, <2>1, <1>1, <1>19 DEF SyncInv, CleanIsCurrent
    <3> QED
        BY <3>1, <3>2, <1>19
  <2> QED
      BY <2>1 DEF CleanIsCurrent
<1>22. MarkedIsSent'
  <2>1. \A q \in Proc : q # p => head(q)' = head(q)
      BY <1>1 DEF head, TableInv, TypeOK
  <2>2. head(p)'.items \subseteq h.items
      BY <1>1, NextHead
  <2>3. \A q \in Proc : head(q)'.items \subseteq head(q).items
      BY <2>1, <2>2
  <2>4. \A q \in Proc : pc'[q] = "mark" => pc[q] = "mark"
      BY <1>1
  <2> QED
      BY <2>3, <2>4, <1>1 DEF SyncInv, MarkedIsSent
<1>23. ASSUME NEW r \in Rollup
       PROVE  \/ row'[r] = row[r]
              \/ /\ row[r].dirty /\ row[r].val \in known[r]
                 /\ row'[r].val = row[r].val /\ ~row'[r].dirty
    BY <1>7, <1>10, <1>12
<1> QED
    BY <1>8, <1>15, <1>16, <1>17, <1>18, <1>24, <1>21, <1>22, <1>23
\* Payloads that only move, and rows of rollups that stay.
LEMMA QuietSync ==
    ASSUME OutboxInv, payloads' \subseteq payloads, UNCHANGED server_vars,
           \A r \in Rollup : row'[r] = row[r], changes' \in Nat, changes <= changes',
           \A p \in Proc : pc'[p] = "mark" => pc[p] = "mark" /\ queue'[p] = queue[p]
    PROVE  SyncInv'
<1>1. copies' \subseteq copies
    BY CopiesStay
<1>2. TypeOK /\ SyncInv
    BY DEF OutboxInv, TableInv
<1>3. /\ RowsSound' /\ CopiesSound' /\ ServerHasNewest' /\ CleanIsNewest'
      /\ MarkedIsSent' /\ CleanIsCurrent'
    BY <1>1, <1>2, QuietStep
<1>4. PayloadsSound'
    BY <1>2 DEF SyncInv, PayloadsSound
<1> QED
    BY <1>3, <1>4 DEF SyncInv

\* The payloads that only move.
LEMMA PayloadsMove ==
    ASSUME \A p \in Proc : \A items \in todo'[p] : items \in payloads,
           \A e \in outbox' : e.items \in payloads,
           \A p \in Proc : \A e \in queue'[p] : e.items \in payloads,
           \A items \in orphans' : items \in payloads
    PROVE  payloads' \subseteq payloads
<1> QED
    BY PayloadIsNext

LEMMA PayloadsSame ==
    ASSUME UNCHANGED <<todo, outbox, queue, orphans>>
    PROVE  payloads' = payloads
<1> QED
    BY DEF payloads, planned, waiting

\* The tables stay as they are.
LEMMA SameTables ==
    ASSUME TableInv, UNCHANGED <<outbox, queue>>
    PROVE  RowsDistinct' /\ RetriesLeft'
<1> QED
    BY FewerRows

LEMMA Changes ==
    ASSUME TypeOK
    PROVE  changes \in Nat /\ changes <= changes
<1> QED
    BY OutboxAssumption DEF TypeOK

LEMMA StartStep ==
    ASSUME OutboxInv, NEW p \in Proc, Start(p)
    PROVE  OutboxInv'
<1>1. TableInv /\ SyncInv /\ TypeOK
    BY DEF OutboxInv, TableInv
<1>2. TypeOK'
    BY <1>1 DEF TypeOK, Place, Start, goto, local_vars, server_vars, bound_vars
<1>3. RowsDistinct' /\ RetriesLeft'
    BY <1>1, SameTables DEF Start
<1>4. AnswersHeld'
    BY <1>1 DEF TableInv, TypeOK, AnswersHeld, Start, goto
<1>5. payloads' = payloads
    BY PayloadsSame DEF Start
<1>6. SyncInv'
  <2>1. UNCHANGED server_vars /\ row' = row /\ changes' = changes
      BY DEF Start, local_vars
  <2>2. \A q \in Proc : pc'[q] = "mark" => pc[q] = "mark" /\ queue'[q] = queue[q]
      BY <1>1 DEF TypeOK, Start, goto
  <2> QED
      BY <1>1, <1>5, <2>1, <2>2, Changes, QuietSync
<1>7. SnapshotsSound'
    BY <1>1 DEF TableInv, SnapshotsSound, Start, local_vars
<1> QED
    BY <1>2, <1>3, <1>4, <1>6, <1>7 DEF OutboxInv, TableInv

LEMMA UpsertSubscriptionsStep ==
    ASSUME OutboxInv, NEW p \in Proc, NEW found \in SUBSET Sub, NEW place \in {"idle", "rollups"}, UpsertSubscriptions(p, found, place)
    PROVE  OutboxInv'
<1>1. TableInv /\ SyncInv /\ TypeOK
    BY DEF OutboxInv, TableInv
<1>2. changes' \in 0..MaxChanges /\ changes' \in Nat /\ changes <= changes'
      /\ (found # {} => changes' \in 1..MaxChanges)
  <2>1. changes \in 0..MaxChanges /\ MaxChanges \in Nat
      BY <1>1, OutboxAssumption DEF TypeOK
  <2>2. changes' = changes \/ (changes < MaxChanges /\ changes' = changes + 1)
      BY DEF UpsertSubscriptions, change
  <2>3. found # {} => changes < MaxChanges /\ changes' = changes + 1
      BY DEF UpsertSubscriptions, change
  <2> QED
      BY <2>1, <2>2, <2>3
<1>3. row' \in [Row -> [val : Version \cup {None}, at : 0..MaxChanges, dirty : BOOLEAN]]
  <2>1. row' = [r \in Row |-> IF r \in found
                              THEN [val |-> changes', at |-> changes', dirty |-> TRUE]
                              ELSE row[r]]
      BY DEF UpsertSubscriptions
  <2>2. ASSUME NEW r \in Row
        PROVE  row'[r] \in [val : Version \cup {None}, at : 0..MaxChanges, dirty : BOOLEAN]
    <3>1. CASE r \in found
      <4>1. changes' \in Version \cup {None} /\ changes' \in 0..MaxChanges
          BY <3>1, <1>2 DEF Version
      <4>2. row'[r] = [val |-> changes', at |-> changes', dirty |-> TRUE]
          BY <2>1, <3>1
      <4> QED
          BY <4>1, <4>2
    <3>2. CASE r \notin found
        BY <2>1, <3>2, <1>1 DEF TypeOK
    <3> QED
        BY <3>1, <3>2
  <2> QED
      BY <2>1, <2>2
<1>4. TypeOK'
  <2>1. pc' \in [Proc -> Place]
      BY <1>1 DEF Place, TypeOK, UpsertSubscriptions, goto
  <2> QED
      BY <1>1, <1>2, <1>3, <2>1 DEF TypeOK, UpsertSubscriptions, server_vars, bound_vars
<1>5. RowsDistinct' /\ RetriesLeft'
    BY <1>1, SameTables DEF UpsertSubscriptions
<1>6. AnswersHeld'
    BY <1>1 DEF TableInv, TypeOK, AnswersHeld, UpsertSubscriptions, goto
<1>7. payloads' = payloads
    BY PayloadsSame DEF UpsertSubscriptions
<1>8. SyncInv'
  <2>1. \A r \in Rollup : row'[r] = row[r]
      BY OutboxAssumption DEF UpsertSubscriptions, Row
  <2>2. \A q \in Proc : pc'[q] = "mark" => pc[q] = "mark" /\ queue'[q] = queue[q]
      BY <1>1 DEF TypeOK, UpsertSubscriptions, goto
  <2>3. UNCHANGED server_vars
      BY DEF UpsertSubscriptions
  <2> QED
      BY <1>2, <1>7, <2>1, <2>2, <2>3, QuietSync
<1>9. SnapshotsSound'
  <2>1. ASSUME NEW s \in Sub, row'[s].dirty
        PROVE  row'[s].at # 0 /\ row'[s].val \in Version
    <3>1. CASE s \in found
      <4>1. row'[s].val = changes' /\ row'[s].at = changes'
          BY <3>1 DEF UpsertSubscriptions, Row
      <4>2. changes' \in 1..MaxChanges /\ changes' # 0
          BY <3>1, <1>2
      <4> QED
          BY <4>1, <4>2 DEF Version
    <3>2. CASE s \notin found
      <4>1. row'[s] = row[s]
          BY <3>2 DEF UpsertSubscriptions, Row
      <4> QED
          BY <4>1, <2>1, <1>1 DEF TableInv, SnapshotsSound
    <3> QED
        BY <3>1, <3>2
  <2> QED
      BY <2>1 DEF SnapshotsSound
<1> QED
    BY <1>4, <1>5, <1>6, <1>8, <1>9 DEF OutboxInv, TableInv

LEMMA TickStep ==
    ASSUME OutboxInv, Tick
    PROVE  OutboxInv'
<1>1. TableInv /\ SyncInv /\ TypeOK
    BY DEF OutboxInv, TableInv
<1>2. now' \in 0..MaxTime
    BY <1>1, OutboxAssumption DEF TypeOK, Tick
<1>3. TypeOK'
    BY <1>1, <1>2 DEF TypeOK, Tick, proc_vars, server_vars, bound_vars
<1>4. RowsDistinct' /\ RetriesLeft'
    BY <1>1, SameTables DEF Tick, proc_vars
<1>5. AnswersHeld'
    BY <1>1 DEF TableInv, AnswersHeld, Tick, proc_vars
<1>6. payloads' = payloads
    BY PayloadsSame DEF Tick, proc_vars
<1>7. SyncInv'
  <2>1. UNCHANGED server_vars /\ row' = row /\ changes' = changes /\ pc' = pc /\ queue' = queue
      BY DEF Tick, proc_vars
  <2> QED
      BY <1>1, <1>6, <2>1, Changes, QuietSync
<1>8. SnapshotsSound'
    BY <1>1 DEF TableInv, SnapshotsSound, Tick
<1> QED
    BY <1>3, <1>4, <1>5, <1>7, <1>8 DEF OutboxInv, TableInv

\* The steps that do nothing but clean up.
LEMMA CleanupStep ==
    ASSUME OutboxInv, NEW p \in Proc,
           \/ Enqueue(p) \/ Trim(p) \/ StartDrain(p) \/ Offline(p) \/ EndDrain(p)
    PROVE  OutboxInv'
<1>1. TableInv /\ SyncInv /\ TypeOK
    BY DEF OutboxInv, TableInv
<1>2. /\ outbox' \subseteq outbox
      /\ UNCHANGED <<local_vars, todo, queue, server_vars, bound_vars, orphans>>
    BY CleanupKeeps DEF Enqueue, Trim, StartDrain, Offline, EndDrain
<1>3. PICK place \in Place \ {"mark", "retry"} : pc' = [pc EXCEPT ![p] = place]
  <2>1. CASE Enqueue(p)
    <3>1. enqueuing[pc[p]] \in {"insert_rollups", "insert_subscriptions"}
        BY <2>1 DEF Enqueue, enqueuing
    <3>2. pc' = [pc EXCEPT ![p] = enqueuing[pc[p]]]
        BY <2>1 DEF Enqueue, goto
    <3> QED
        BY <3>1, <3>2 DEF Place
  <2>2. CASE Trim(p)
    <3>1. trimming[pc[p]] \in {"put_rollups", "put_subscriptions"}
        BY <2>2 DEF Trim, trimming
    <3>2. pc' = [pc EXCEPT ![p] = trimming[pc[p]]]
        BY <2>2 DEF Trim, goto
    <3> QED
        BY <3>1, <3>2 DEF Place
  <2>3. CASE StartDrain(p) \/ Offline(p) \/ EndDrain(p)
      BY <2>3 DEF StartDrain, Offline, EndDrain, goto, Place
  <2> QED
      BY <2>1, <2>2, <2>3
<1>4. TypeOK'
    BY <1>1, <1>2, <1>3 DEF TypeOK, local_vars, server_vars, bound_vars
<1>5. RowsDistinct' /\ RetriesLeft'
    BY <1>1, <1>2, FewerRows
<1>6. \A q \in Proc : pc'[q] \in {"mark", "retry"} => pc'[q] = pc[q]
    BY <1>1, <1>3 DEF TypeOK
<1>7. AnswersHeld'
    BY <1>1, <1>2, <1>6 DEF TableInv, AnswersHeld
<1>8. payloads' \subseteq payloads
    BY <1>2, PayloadOf, PayloadsMove
<1>9. SyncInv'
    BY <1>1, <1>2, <1>6, <1>8, Changes, QuietSync DEF local_vars
<1>10. SnapshotsSound'
    BY <1>1, <1>2 DEF TableInv, SnapshotsSound, local_vars
<1> QED
    BY <1>4, <1>5, <1>7, <1>9, <1>10 DEF OutboxInv, TableInv

LEMMA InsertStep ==
    ASSUME OutboxInv, NEW p \in Proc, Insert(p)
    PROVE  OutboxInv'
<1>1. TableInv /\ SyncInv /\ TypeOK
    BY DEF OutboxInv, TableInv
<1>2. PICK items \in todo[p] :
          insert_or_ignore(items) /\ todo' = [todo EXCEPT ![p] = @ \ {items}]
    BY DEF Insert
<1>3. items \in SUBSET Item /\ items \in payloads
    BY <1>1, PayloadOf DEF TypeOK
<1>4. UNCHANGED <<local_vars, queue, server_vars, bound_vars, orphans>>
    BY DEF Insert
<1>5. PICK place \in Place \ {"mark", "retry"} : pc' = [pc EXCEPT ![p] = place]
  <2>1. inserting[pc[p]] \in {"trim_rollups", "trim_subscriptions"}
      BY DEF Insert, inserting
  <2>2. pc' = [pc EXCEPT ![p] = inserting[pc[p]]]
      BY DEF Insert, goto
  <2> QED
      BY <2>1, <2>2 DEF Place
<1>6. /\ \A e \in outbox' : e \in outbox \/ (e \in Payload /\ e.items = items)
      /\ RowsDistinct' /\ RetriesLeft'
    BY <1>1, <1>2, <1>3, <1>4, InsertTables
<1>7. todo' \in [Proc -> SUBSET SUBSET Item] /\ \A q \in Proc : todo'[q] \subseteq todo[q]
    BY <1>1, <1>2 DEF TypeOK
<1>8. outbox' \subseteq Payload
    BY <1>1, <1>6 DEF TypeOK
<1>9. TypeOK'
    BY <1>1, <1>4, <1>5, <1>7, <1>8 DEF TypeOK, local_vars, server_vars, bound_vars
<1>10. \A q \in Proc : pc'[q] \in {"mark", "retry"} => pc'[q] = pc[q]
    BY <1>1, <1>5 DEF TypeOK
<1>11. AnswersHeld'
    BY <1>1, <1>4, <1>10 DEF TableInv, AnswersHeld
<1>12. payloads' \subseteq payloads
  <2>1. \A e \in outbox' : e.items \in payloads
      BY <1>3, <1>6, PayloadOf
  <2> QED
      BY <1>4, <1>7, <2>1, PayloadOf, PayloadsMove
<1>13. SyncInv'
    BY <1>1, <1>4, <1>10, <1>12, Changes, QuietSync DEF local_vars
<1>14. SnapshotsSound'
    BY <1>1, <1>4 DEF TableInv, SnapshotsSound, local_vars
<1> QED
    BY <1>6, <1>9, <1>11, <1>13, <1>14 DEF OutboxInv, TableInv

\* Payloads made of dirty rows.
LEMMA NewPayloads ==
    ASSUME OutboxInv, NEW p \in Proc, NEW new, new \subseteq SUBSET {item(r) : r \in dirty_rows(Row)},
           todo' = [todo EXCEPT ![p] = new], UNCHANGED <<outbox, queue, orphans, row, changes>>,
           UNCHANGED server_vars, \A items \in new : IsFiniteSet(items),
           \A q \in Proc : pc'[q] = "mark" => pc[q] = "mark"
    PROVE  SyncInv'
<1>1. TableInv /\ SyncInv /\ TypeOK
    BY DEF OutboxInv, TableInv
<1>2. \A items \in payloads' : items \in payloads \/ items \in new
  <2>1. ASSUME NEW items \in payloads'
        PROVE  items \in payloads \/ items \in new
    <3>1. CASE \E q \in Proc : items \in todo'[q]
      <4>1. PICK q \in Proc : items \in todo'[q]
          BY <3>1
      <4>2. CASE q = p
          BY <4>1, <4>2, <1>1 DEF TypeOK
      <4>3. CASE q # p
        <5>1. todo'[q] = todo[q]
            BY <4>3, <1>1 DEF TypeOK
        <5> QED
            BY <4>1, <5>1, PayloadOf
      <4> QED
          BY <4>2, <4>3
    <3>2. CASE \E e \in outbox' : items = e.items
        BY <3>2, PayloadOf
    <3>3. CASE \E q \in Proc : \E e \in queue'[q] : items = e.items
        BY <3>3, PayloadOf
    <3>4. CASE items \in orphans'
        BY <3>4, PayloadOf
    <3> QED
        BY <3>1, <3>2, <3>3, <3>4, PayloadIsNext
  <2> QED
      BY <2>1
<1>3. \A items \in new : \A i \in items : \E r \in Row : row[r].dirty /\ i = item(r)
    BY DEF dirty_rows
<1>4. \A r : item(r).row = r
    BY DEF item
<1>5. \A items \in new : \A i \in items : i.row \in Rollup => i \in copies
  <2>1. ASSUME NEW items \in new, NEW i \in items, i.row \in Rollup
        PROVE  i \in copies
    <3>1. PICK r \in Row : row[r].dirty /\ i = item(r)
        BY <1>3
    <3>2. r \in Rollup
        BY <2>1, <3>1, <1>4
    <3> QED
        BY <3>1, <3>2, CopyIs
  <2> QED
      BY <2>1
<1>6. copies' \subseteq copies
    BY <1>2, <1>5, CopiesStay
<1>7. PayloadsSound'
  <2>1. \A items \in new : \A i, j \in items : i.row = j.row => i = j
    <3>1. ASSUME NEW items \in new, NEW i \in items, NEW j \in items, i.row = j.row
          PROVE  i = j
      <4>1. i = item(i.row) /\ j = item(j.row)
          BY <1>3, <1>4
      <4> QED
          BY <4>1, <3>1
    <3> QED
        BY <3>1
  <2> QED
      BY <2>1, <1>1, <1>2 DEF SyncInv, PayloadsSound
<1>8. /\ RowsSound' /\ CopiesSound' /\ ServerHasNewest' /\ CleanIsNewest'
      /\ MarkedIsSent' /\ CleanIsCurrent'
    BY <1>1, <1>6, Changes, QuietStep
<1> QED
    BY <1>7, <1>8 DEF SyncInv

LEMMA DirtyItemTyped ==
    ASSUME TypeOK, RowsSound, SnapshotsSound, NEW r \in dirty_rows(Row)
    PROVE  item(r) \in Item
<1>1. r \in Row /\ row[r].dirty
    BY DEF dirty_rows
<1>2. row[r].at # 0 /\ row[r].val \in Version
    BY <1>1 DEF RowsSound, SnapshotsSound, Row, Version
<1>3. row[r].at \in 1..MaxChanges
    BY <1>1, <1>2, OutboxAssumption, RowFields
<1> QED
    BY <1>1, <1>2, <1>3 DEF item, Item

LEMMA NewPayloadsTyped ==
    ASSUME TypeOK, RowsSound, SnapshotsSound, NEW new,
           new \subseteq SUBSET {item(r) : r \in dirty_rows(Row)}
    PROVE  new \subseteq SUBSET Item
<1>1. \A r \in dirty_rows(Row) : item(r) \in Item
    BY DirtyItemTyped
<1>2. {item(r) : r \in dirty_rows(Row)} \subseteq Item
    BY <1>1
<1> QED
    BY <1>2
LEMMA SelectDirtyRollupsStep ==
    ASSUME OutboxInv, NEW p \in Proc, SelectDirtyRollups(p)
    PROVE  OutboxInv'
<1>1. TableInv /\ SyncInv /\ TypeOK
    BY DEF OutboxInv, TableInv
<1> PICK new : new = IF first_dirty = {} THEN {} ELSE {{item(r) : r \in first_dirty}}
    OBVIOUS
<1>2. todo' = [todo EXCEPT ![p] = new]
    BY DEF SelectDirtyRollups
<1>3. first_dirty \subseteq Rollup /\ first_dirty \subseteq dirty_rows(Row)
    BY DEF first_dirty, dirty_rows, Row
<1>4. new \subseteq SUBSET {item(r) : r \in dirty_rows(Row)}
    BY <1>3
<1>5. \A items \in new : IsFiniteSet(items)
  <2>1. IsFiniteSet(first_dirty)
      BY <1>3, OutboxAssumption, FS_Subset
  <2> DEFINE f == [r \in first_dirty |-> item(r)]
  <2>2. {f[r] : r \in first_dirty} = {item(r) : r \in first_dirty}
      OBVIOUS
  <2> HIDE DEF f
  <2>3. IsFiniteSet({item(r) : r \in first_dirty})
      BY <2>1, <2>2, Image
  <2> QED
      BY <2>3
<1>6. new \subseteq SUBSET Item
  <2>1. TypeOK /\ RowsSound /\ SnapshotsSound
      BY <1>1 DEF SyncInv, TableInv
  <2>2. \A r \in dirty_rows(Row) : item(r) \in Item
      BY <2>1, DirtyItemTyped
  <2> QED
      BY <1>4, <2>2
<1>7. todo' \in [Proc -> SUBSET SUBSET Item]
    BY <1>1, <1>2, <1>6 DEF TypeOK
<1>8. TypeOK'
    BY <1>1, <1>7 DEF TypeOK, Place, SelectDirtyRollups, goto, local_vars, server_vars, bound_vars
<1>9. RowsDistinct' /\ RetriesLeft'
    BY <1>1, SameTables DEF SelectDirtyRollups
<1>10. AnswersHeld'
    BY <1>1 DEF TableInv, TypeOK, AnswersHeld, SelectDirtyRollups, goto
<1>11. SnapshotsSound'
    BY <1>1 DEF TableInv, SnapshotsSound, SelectDirtyRollups, local_vars
<1>12. SyncInv'
  <2>1. UNCHANGED <<outbox, queue, orphans, row, changes>> /\ UNCHANGED server_vars
      BY DEF SelectDirtyRollups, local_vars
  <2>2. \A q \in Proc : pc'[q] = "mark" => pc[q] = "mark"
      BY <1>1 DEF TypeOK, SelectDirtyRollups, goto
  <2> QED
      BY <1>2, <1>4, <1>5, <2>1, <2>2, NewPayloads
<1> QED
    BY <1>8, <1>9, <1>10, <1>11, <1>12 DEF OutboxInv, TableInv

LEMMA SelectDirtySubscriptionsStep ==
    ASSUME OutboxInv, NEW p \in Proc, SelectDirtySubscriptions(p)
    PROVE  OutboxInv'
<1>1. TableInv /\ SyncInv /\ TypeOK
    BY DEF OutboxInv, TableInv
<1> PICK subs \in SUBSET dirty_rows(Sub) : todo' = [todo EXCEPT ![p] = {{item(s)} : s \in subs}]
    BY DEF SelectDirtySubscriptions
<1> PICK new : new = {{item(s)} : s \in subs}
    OBVIOUS
<1>2. todo' = [todo EXCEPT ![p] = new]
    OBVIOUS
<1>3. subs \subseteq dirty_rows(Row)
    BY DEF dirty_rows, Row
<1>4. new \subseteq SUBSET {item(r) : r \in dirty_rows(Row)}
    BY <1>3
<1>5. \A items \in new : IsFiniteSet(items)
    BY FS_Singleton
<1>6. new \subseteq SUBSET Item
    BY <1>1, <1>4, NewPayloadsTyped DEF SyncInv, TableInv
<1>7. todo' \in [Proc -> SUBSET SUBSET Item]
    BY <1>1, <1>2, <1>6 DEF TypeOK
<1>8. TypeOK'
    BY <1>1, <1>7 DEF TypeOK, Place, SelectDirtySubscriptions, goto, local_vars, server_vars, bound_vars
<1>9. RowsDistinct' /\ RetriesLeft'
    BY <1>1, SameTables DEF SelectDirtySubscriptions
<1>10. AnswersHeld'
    BY <1>1 DEF TableInv, TypeOK, AnswersHeld, SelectDirtySubscriptions, goto
<1>11. SnapshotsSound'
    BY <1>1 DEF TableInv, SnapshotsSound, SelectDirtySubscriptions, local_vars
<1>12. SyncInv'
  <2>1. UNCHANGED <<outbox, queue, orphans, row, changes>> /\ UNCHANGED server_vars
      BY DEF SelectDirtySubscriptions, local_vars
  <2>2. \A q \in Proc : pc'[q] = "mark" => pc[q] = "mark"
      BY <1>1 DEF TypeOK, SelectDirtySubscriptions, goto
  <2> QED
      BY <1>2, <1>4, <1>5, <2>1, <2>2, NewPayloads
<1> QED
    BY <1>8, <1>9, <1>10, <1>11, <1>12 DEF OutboxInv, TableInv

LEMMA FetchPendingStep ==
    ASSUME OutboxInv, NEW p \in Proc, FetchPending(p)
    PROVE  OutboxInv'
<1>1. TableInv /\ SyncInv /\ TypeOK
    BY DEF OutboxInv, TableInv
<1>2. /\ outbox' = outbox /\ queue'[p] \subseteq outbox
      /\ queue' \in [Proc -> SUBSET Payload]
      /\ RowsDistinct' /\ RetriesLeft'
    BY <1>1, FetchTables
<1>3. /\ \A q \in Proc : q # p => queue'[q] = queue[q]
      /\ pc' = [pc EXCEPT ![p] = "drain"]
      /\ UNCHANGED <<local_vars, todo, server_vars, bound_vars, orphans>>
    BY <1>1 DEF FetchPending, TypeOK, goto
<1>4. TypeOK'
    BY <1>1, <1>2, <1>3 DEF TypeOK, Place, local_vars, server_vars, bound_vars
<1>5. \A q \in Proc : pc'[q] \in {"mark", "retry"} => pc'[q] = pc[q] /\ queue'[q] = queue[q]
    BY <1>1, <1>3 DEF TypeOK
<1>6. AnswersHeld'
    BY <1>1, <1>5 DEF TableInv, AnswersHeld
<1>7. payloads' \subseteq payloads
  <2>1. \A q \in Proc : \A e \in queue'[q] : e.items \in payloads
      BY <1>2, <1>3, PayloadOf
  <2> QED
      BY <1>2, <1>3, <2>1, PayloadOf, PayloadsMove
<1>8. SyncInv'
    BY <1>1, <1>3, <1>5, <1>7, Changes, QuietSync DEF local_vars
<1>9. SnapshotsSound'
    BY <1>1, <1>3 DEF TableInv, SnapshotsSound, local_vars
<1> QED
    BY <1>2, <1>4, <1>6, <1>8, <1>9 DEF OutboxInv, TableInv

LEMMA MarkOutboxSyncedStep ==
    ASSUME OutboxInv, NEW p \in Proc, MarkOutboxSynced(p)
    PROVE  OutboxInv'
<1>1. TableInv /\ SyncInv /\ TypeOK
    BY DEF OutboxInv, TableInv
<1>2. /\ queue' = [queue EXCEPT ![p] = @ \ {head(p)}] /\ pc' = [pc EXCEPT ![p] = "drain"]
      /\ todo' = todo /\ orphans' = orphans
    BY DEF MarkOutboxSynced, next_item, goto
<1>3. outbox' \subseteq outbox /\ outbox' \subseteq Payload
    BY <1>1 DEF MarkOutboxSynced, delete_row, TypeOK
<1>4. \A e \in outbox' : e.items \in payloads
    BY <1>3, PayloadOf
<1>5. RowsDistinct' /\ RetriesLeft'
  <2>1. \A q \in Proc : queue'[q] \subseteq queue[q]
      BY <1>1, <1>2 DEF TypeOK
  <2> QED
      BY <1>1, <1>3, <2>1, FewerRows
<1>6. queue' \in [Proc -> SUBSET Payload] /\ \A q \in Proc : queue'[q] \subseteq queue[q]
    BY <1>1, <1>2 DEF TypeOK
<1>7. TypeOK'
  <2>1. pc' \in [Proc -> Place]
      BY <1>1, <1>2 DEF Place, TypeOK
  <2> QED
      BY <1>1, <1>2, <1>3, <1>6, <2>1 DEF TypeOK, MarkOutboxSynced, local_vars, server_vars, bound_vars
<1>8. \A q \in Proc : q # p => queue'[q] = queue[q] /\ pc'[q] = pc[q]
    BY <1>1, <1>2 DEF TypeOK
<1>9. pc'[p] = "drain"
    BY <1>1, <1>2 DEF TypeOK
<1>10. AnswersHeld'
    BY <1>1, <1>8, <1>9 DEF TableInv, AnswersHeld
<1>11. payloads' \subseteq payloads
  <2>1. \A q \in Proc : \A e \in queue'[q] : e.items \in payloads
      BY <1>6, PayloadOf
  <2> QED
      BY <1>2, <1>4, <2>1, PayloadOf, PayloadsMove
<1>12. SyncInv'
  <2>1. UNCHANGED server_vars /\ row' = row /\ changes' = changes
      BY DEF MarkOutboxSynced, local_vars
  <2>2. \A q \in Proc : pc'[q] = "mark" => pc[q] = "mark" /\ queue'[q] = queue[q]
      BY <1>8, <1>9
  <2> QED
      BY <1>1, <1>11, <2>1, <2>2, Changes, QuietSync
<1>13. SnapshotsSound'
    BY <1>1 DEF TableInv, SnapshotsSound, MarkOutboxSynced, local_vars
<1> QED
    BY <1>5, <1>7, <1>10, <1>12, <1>13 DEF OutboxInv, TableInv

LEMMA IncrementOutboxRetryStep ==
    ASSUME OutboxInv, NEW p \in Proc, IncrementOutboxRetry(p)
    PROVE  OutboxInv'
<1>1. TableInv /\ SyncInv /\ TypeOK
    BY DEF OutboxInv, TableInv
<1>2. /\ queue' = [queue EXCEPT ![p] = @ \ {head(p)}] /\ pc' = [pc EXCEPT ![p] = "drain"]
      /\ todo' = todo /\ orphans' = orphans
    BY DEF IncrementOutboxRetry, next_item, goto
<1>3. /\ outbox' \subseteq Payload
      /\ \A e \in outbox' : \E x \in outbox : e.items = x.items
      /\ RowsDistinct' /\ RetriesLeft'
    BY <1>1, IncrementTables
<1>4. \A e \in outbox' : e.items \in payloads
    BY <1>3, PayloadOf
<1>5. RowsDistinct' /\ RetriesLeft'
    BY <1>3
<1>6. queue' \in [Proc -> SUBSET Payload] /\ \A q \in Proc : queue'[q] \subseteq queue[q]
    BY <1>1, <1>2 DEF TypeOK
<1>7. TypeOK'
  <2>1. pc' \in [Proc -> Place]
      BY <1>1, <1>2 DEF Place, TypeOK
  <2> QED
      BY <1>1, <1>2, <1>3, <1>6, <2>1 DEF TypeOK, IncrementOutboxRetry, local_vars, server_vars, bound_vars
<1>8. \A q \in Proc : q # p => queue'[q] = queue[q] /\ pc'[q] = pc[q]
    BY <1>1, <1>2 DEF TypeOK
<1>9. pc'[p] = "drain"
    BY <1>1, <1>2 DEF TypeOK
<1>10. AnswersHeld'
    BY <1>1, <1>8, <1>9 DEF TableInv, AnswersHeld
<1>11. payloads' \subseteq payloads
  <2>1. \A q \in Proc : \A e \in queue'[q] : e.items \in payloads
      BY <1>6, PayloadOf
  <2> QED
      BY <1>2, <1>4, <2>1, PayloadOf, PayloadsMove
<1>12. SyncInv'
  <2>1. UNCHANGED server_vars /\ row' = row /\ changes' = changes
      BY DEF IncrementOutboxRetry, local_vars
  <2>2. \A q \in Proc : pc'[q] = "mark" => pc[q] = "mark" /\ queue'[q] = queue[q]
      BY <1>8, <1>9
  <2> QED
      BY <1>1, <1>11, <2>1, <2>2, Changes, QuietSync
<1>13. SnapshotsSound'
    BY <1>1 DEF TableInv, SnapshotsSound, IncrementOutboxRetry, local_vars
<1> QED
    BY <1>5, <1>7, <1>10, <1>12, <1>13 DEF OutboxInv, TableInv

LEMMA CrashStep ==
    ASSUME OutboxInv, NEW p \in Proc, Crash(p)
    PROVE  OutboxInv'
<1>1. TableInv /\ SyncInv /\ TypeOK
    BY DEF OutboxInv, TableInv
<1>2. /\ queue' = [queue EXCEPT ![p] = {}] /\ todo' = [todo EXCEPT ![p] = {}]
      /\ pc' = [pc EXCEPT ![p] = "idle"] /\ outbox' = outbox
    BY DEF Crash, goto
<1>3. \A items \in orphans' : items \in payloads
  <2>1. CASE orphans' = orphans
      BY <2>1, PayloadOf
  <2>2. CASE sends(p) /\ orphans' = orphans \cup {head(p).items}
    <3>1. head(p) \in queue[p]
        BY <2>2, <1>1, HasHead DEF sends
    <3> QED
        BY <2>2, <3>1, PayloadOf
  <2> QED
      BY <2>1, <2>2 DEF Crash
<1>4. \A q \in Proc : q # p => queue'[q] = queue[q] /\ pc'[q] = pc[q] /\ todo'[q] = todo[q]
    BY <1>1, <1>2 DEF TypeOK
<1>5. pc'[p] = "idle" /\ queue'[p] = {} /\ todo'[p] = {}
    BY <1>1, <1>2 DEF TypeOK
<1>6. TypeOK'
  <2>1. orphans' \subseteq SUBSET Item
      BY <1>1, <1>3, PayloadTyped
  <2>2. crashes' \in 0..MaxCrashes
      BY <1>1, OutboxAssumption DEF TypeOK, Crash
  <2>3. /\ pc' \in [Proc -> Place]
        /\ queue' \in [Proc -> SUBSET Payload] /\ todo' \in [Proc -> SUBSET SUBSET Item]
      BY <1>1, <1>2 DEF TypeOK, Place
  <2> QED
      BY <1>1, <1>2, <2>1, <2>2, <2>3 DEF TypeOK, Crash, local_vars, server_vars
<1>7. RowsDistinct' /\ RetriesLeft'
  <2>1. \A q \in Proc : queue'[q] \subseteq queue[q]
      BY <1>4, <1>5
  <2> QED
      BY <1>1, <1>2, <2>1, FewerRows
<1>8. AnswersHeld'
    BY <1>1, <1>4, <1>5 DEF TableInv, AnswersHeld
<1>9. payloads' \subseteq payloads
  <2>1. /\ \A q \in Proc : queue'[q] \subseteq queue[q]
        /\ \A q \in Proc : todo'[q] \subseteq todo[q]
      BY <1>4, <1>5
  <2>2. /\ \A q \in Proc : \A e \in queue'[q] : e.items \in payloads
        /\ \A q \in Proc : \A items \in todo'[q] : items \in payloads
      BY <2>1, PayloadOf
  <2>3. \A e \in outbox' : e.items \in payloads
      BY <1>2, PayloadOf
  <2> QED
      BY <1>3, <2>2, <2>3, PayloadsMove
<1>10. SyncInv'
  <2>1. UNCHANGED server_vars /\ row' = row /\ changes' = changes
      BY DEF Crash, local_vars
  <2>2. \A q \in Proc : pc'[q] = "mark" => pc[q] = "mark" /\ queue'[q] = queue[q]
      BY <1>4, <1>5
  <2> QED
      BY <1>1, <1>9, <2>1, <2>2, Changes, QuietSync
<1>11. SnapshotsSound'
    BY <1>1 DEF TableInv, SnapshotsSound, Crash, local_vars
<1> QED
    BY <1>6, <1>7, <1>8, <1>10, <1>11 DEF OutboxInv, TableInv
\* A request arrives that its sender waits for, or nobody.
LEMMA RequestSync ==
    ASSUME OutboxInv, NEW items \in payloads, upsert(items), payloads' \subseteq payloads,
           row' = row, changes' = changes, queue' = queue,
           \A p \in Proc : pc'[p] = "mark" =>
               pc[p] = "mark" \/ (queue[p] # {} /\ items = head(p).items)
    PROVE  /\ SyncInv'
           /\ server' \in [Row -> Version \cup {None}] /\ high' \in [Row -> 0..MaxChanges]
           /\ overtaken' \subseteq Row /\ known' \in [Rollup -> SUBSET Value]
<1>1. TableInv /\ SyncInv /\ TypeOK
    BY DEF OutboxInv, TableInv
<1>2. copies' \subseteq copies
    BY CopiesStay
<1>3. /\ RowsSound' /\ CopiesSound' /\ ServerHasNewest' /\ CleanIsNewest' /\ CleanIsCurrent'
      /\ \A r \in Rollup : known[r] \subseteq known'[r] /\ high[r] <= high'[r]
      /\ \A i \in items : i.row \in Rollup => i.val \in known'[i.row] /\ i.at <= high'[i.row]
      /\ server' \in [Row -> Version \cup {None}] /\ high' \in [Row -> 0..MaxChanges]
      /\ overtaken' \subseteq Row /\ known' \in [Rollup -> SUBSET Value]
    BY <1>1, <1>2, RequestStep
<1>4. PayloadsSound'
    BY <1>1 DEF SyncInv, PayloadsSound
<1>5. ASSUME NEW p \in Proc, pc'[p] = "mark", NEW i \in head(p)'.items, i.row \in Rollup
      PROVE  i.val \in known'[i.row] /\ i.at <= high'[i.row]
  <2>1. head(p)' = head(p)
      BY DEF head
  <2>2. CASE pc[p] = "mark"
    <3>1. i.val \in known[i.row] /\ i.at <= high[i.row]
        BY <1>1, <1>5, <2>1, <2>2 DEF SyncInv, MarkedIsSent
    <3>2. queue[p] # {}
        BY <1>1, <2>2 DEF TableInv, AnswersHeld
    <3>3. head(p).items \in payloads
        BY <1>1, <3>2, HasHead, PayloadOf
    <3>4. i \in Item
        BY <1>1, <1>5, <2>1, <3>3, PayloadTyped
    <3>5. i.at \in Nat /\ high[i.row] \in Nat /\ high'[i.row] \in Nat
      <4>1. i.row \in Row /\ MaxChanges \in Nat
          BY <3>4, ItemFields, OutboxAssumption
      <4>2. high'[i.row] \in 0..MaxChanges
          BY <4>1, <1>3
      <4> QED
          BY <4>1, <4>2, <3>4, <1>1, ItemFields, RowFields
    <3>6. high[i.row] <= high'[i.row] /\ known[i.row] \subseteq known'[i.row]
        BY <1>3, <1>5
    <3> QED
        BY <3>1, <3>5, <3>6
  <2>3. CASE queue[p] # {} /\ items = head(p).items
      BY <1>3, <1>5, <2>1, <2>3
  <2> QED
      BY <1>5, <2>2, <2>3
<1>6. MarkedIsSent'
    BY <1>5 DEF MarkedIsSent
<1> QED
    BY <1>3, <1>4, <1>6 DEF SyncInv

LEMMA UploadStep ==
    ASSUME OutboxInv, NEW p \in Proc, Upload(p)
    PROVE  OutboxInv'
<1>1. TableInv /\ SyncInv /\ TypeOK
    BY DEF OutboxInv, TableInv
<1>2. /\ pc' = [pc EXCEPT ![p] = "mark"] /\ queue' = queue /\ row' = row /\ changes' = changes
      /\ upsert(head(p).items) /\ queue[p] # {} /\ pc[p] = "drain"
    BY DEF Upload, goto, sends, local_vars
<1>3. head(p).items \in payloads
    BY <1>1, <1>2, HasHead, PayloadOf
<1>4. payloads' = payloads
    BY PayloadsSame DEF Upload
<1>5. \A q \in Proc : q # p => pc'[q] = pc[q]
    BY <1>1, <1>2 DEF TypeOK
<1>6. /\ SyncInv'
      /\ server' \in [Row -> Version \cup {None}] /\ high' \in [Row -> 0..MaxChanges]
      /\ overtaken' \subseteq Row /\ known' \in [Rollup -> SUBSET Value]
    BY <1>2, <1>3, <1>4, <1>5, RequestSync
<1>7. TypeOK'
  <2>1. pc' \in [Proc -> Place]
      BY <1>1, <1>2 DEF Place, TypeOK
  <2> QED
      BY <1>1, <1>6, <2>1 DEF TypeOK, Upload, local_vars, bound_vars
<1>8. RowsDistinct' /\ RetriesLeft'
    BY <1>1, SameTables DEF Upload
<1>9. AnswersHeld'
    BY <1>1, <1>2, <1>5 DEF TableInv, AnswersHeld
<1>10. SnapshotsSound'
    BY <1>1 DEF TableInv, SnapshotsSound, Upload, local_vars
<1> QED
    BY <1>6, <1>7, <1>8, <1>9, <1>10 DEF OutboxInv, TableInv

LEMMA UploadFailsStep ==
    ASSUME OutboxInv, NEW p \in Proc, UploadFails(p)
    PROVE  OutboxInv'
<1>1. TableInv /\ SyncInv /\ TypeOK
    BY DEF OutboxInv, TableInv
<1>2. /\ pc' = [pc EXCEPT ![p] = "retry"] /\ queue' = queue /\ row' = row /\ changes' = changes
      /\ queue[p] # {} /\ pc[p] = "drain" /\ fails < MaxFails /\ fails' = fails + 1
      /\ crashes' = crashes /\ todo' = todo /\ outbox' = outbox /\ orphans' = orphans
      /\ now' = now
      /\ UNCHANGED server_vars \/ upsert(head(p).items)
    BY DEF UploadFails, goto, sends, local_vars
<1>3. head(p).items \in payloads
    BY <1>1, <1>2, HasHead, PayloadOf
<1>4. payloads' = payloads
    BY <1>2, PayloadsSame
<1>5. /\ \A q \in Proc : q # p => pc'[q] = pc[q]
      /\ pc'[p] = "retry"
    BY <1>1, <1>2 DEF TypeOK
<1>6. /\ SyncInv'
      /\ server' \in [Row -> Version \cup {None}] /\ high' \in [Row -> 0..MaxChanges]
      /\ overtaken' \subseteq Row /\ known' \in [Rollup -> SUBSET Value]
  <2>1. CASE UNCHANGED server_vars
    <3>1. SyncInv'
        BY <1>1, <1>2, <1>4, <1>5, <2>1, Changes, QuietSync
    <3> QED
        BY <3>1, <2>1, <1>1 DEF server_vars, TypeOK
  <2>2. CASE upsert(head(p).items)
      BY <1>2, <1>3, <1>4, <1>5, <2>2, RequestSync
  <2> QED
      BY <1>2, <2>1, <2>2
<1>7. TypeOK'
  <2>1. pc' \in [Proc -> Place]
      BY <1>1, <1>2 DEF Place, TypeOK
  <2>2. fails' \in 0..MaxFails
      BY <1>1, <1>2, OutboxAssumption DEF TypeOK
  <2> QED
      BY <1>1, <1>2, <1>6, <2>1, <2>2 DEF TypeOK
<1>8. RowsDistinct' /\ RetriesLeft'
    BY <1>1, <1>2, SameTables
<1>9. AnswersHeld'
    BY <1>1, <1>2, <1>5 DEF TableInv, AnswersHeld
<1>10. SnapshotsSound'
    BY <1>1, <1>2 DEF TableInv, SnapshotsSound
<1> QED
    BY <1>6, <1>7, <1>8, <1>9, <1>10 DEF OutboxInv, TableInv

LEMMA OrphanArrivesStep ==
    ASSUME OutboxInv, OrphanArrives
    PROVE  OutboxInv'
<1>1. TableInv /\ SyncInv /\ TypeOK
    BY DEF OutboxInv, TableInv
<1>2. PICK items \in orphans : upsert(items) /\ orphans' = orphans \ {items}
    BY DEF OrphanArrives
<1>3. /\ pc' = pc /\ todo' = todo /\ queue' = queue /\ row' = row /\ changes' = changes
      /\ now' = now /\ fails' = fails /\ crashes' = crashes /\ outbox' = outbox
    BY DEF OrphanArrives, proc_vars, local_vars, bound_vars
<1>4. items \in payloads
    BY PayloadOf
<1>5. payloads' \subseteq payloads
    BY <1>2, <1>3, PayloadOf, PayloadsMove
<1>6. /\ SyncInv'
      /\ server' \in [Row -> Version \cup {None}] /\ high' \in [Row -> 0..MaxChanges]
      /\ overtaken' \subseteq Row /\ known' \in [Rollup -> SUBSET Value]
    BY <1>2, <1>3, <1>4, <1>5, RequestSync
<1>7. TypeOK'
    BY <1>1, <1>2, <1>3, <1>6 DEF TypeOK
<1>8. RowsDistinct' /\ RetriesLeft'
    BY <1>1, <1>3, SameTables
<1>9. AnswersHeld' /\ SnapshotsSound'
    BY <1>1, <1>3 DEF TableInv, AnswersHeld, SnapshotsSound
<1> QED
    BY <1>6, <1>7, <1>8, <1>9 DEF OutboxInv, TableInv

\* Marking an item takes no row from the process.
LEMMA MarkTables ==
    ASSUME TableInv, NEW p \in Proc, MarkPayloadUploaded(p),
           row' \in [Row -> [val : Version \cup {None}, at : 0..MaxChanges, dirty : BOOLEAN]]
    PROVE  TypeOK' /\ RowsDistinct' /\ RetriesLeft' /\ AnswersHeld'
<1> PICK h : h = head(p)
    OBVIOUS
<1>1. /\ pc[p] = "mark"
      /\ UNCHANGED <<now, changes, pc, todo, server_vars, bound_vars, outbox, orphans>>
    BY DEF MarkPayloadUploaded
<1>2. PICK m : queue' = [queue EXCEPT ![p] = (@ \ {h}) \cup {[h EXCEPT !.items = @ \ {m}]}]
    BY DEF MarkPayloadUploaded
<1> PICK left : left = [h EXCEPT !.items = @ \ {m}]
    OBVIOUS
<1>3. h \in queue[p] /\ h \in Payload /\ left \in Payload
    BY <1>1, <1>2, NextHead
<1>4. left.id = h.id
    BY <1>3 DEF Payload
<1>5. queue \in [Proc -> SUBSET Payload]
    BY DEF TableInv, TypeOK
<1>6. /\ queue' \in [Proc -> SUBSET Payload]
      /\ queue'[p] = (queue[p] \ {h}) \cup {left}
      /\ \A q \in Proc : q # p => queue'[q] = queue[q]
    BY <1>2, <1>3, <1>5
<1>7. TypeOK'
    BY <1>1, <1>6 DEF TableInv, TypeOK, server_vars, bound_vars
<1>8. IsFiniteSet(queue'[p]) /\ distinct_ids(queue'[p])
  <2>1. IsFiniteSet(queue[p]) /\ distinct_ids(queue[p])
      BY DEF TableInv, RowsDistinct
  <2>2. IsFiniteSet(queue[p] \ {h})
      BY <2>1, FS_Subset
  <2>3. IsFiniteSet(queue'[p])
    <3>1. IsFiniteSet((queue[p] \ {h}) \cup {left})
        BY <2>2, FS_AddElement
    <3> QED
        BY <3>1, <1>6
  <2>4. \A e \in queue[p] \ {h} : e.id # left.id
      BY <2>1, <1>3, <1>4 DEF distinct_ids
  <2> QED
      BY <2>1, <2>3, <2>4, <1>6 DEF distinct_ids
<1>9. RowsDistinct'
    BY <1>1, <1>6, <1>8 DEF TableInv, RowsDistinct, distinct_ids
<1>10. \A id : holders(id)' = holders(id)
  <2>1. ASSUME NEW id, NEW q \in Proc
        PROVE  (\E f \in queue'[q] : f.id = id) <=> (\E f \in queue[q] : f.id = id)
    <3>1. CASE q = p
        BY <3>1, <1>3, <1>4, <1>6
    <3>2. CASE q # p
        BY <3>2, <1>6
    <3> QED
        BY <3>1, <3>2
  <2> QED
      BY <2>1 DEF holders
<1>11. RetriesLeft'
    BY <1>1, <1>10 DEF TableInv, RetriesLeft
<1>12. AnswersHeld'
    BY <1>1, <1>6 DEF TableInv, AnswersHeld
<1> QED
    BY <1>7, <1>9, <1>11, <1>12

LEMMA MarkPayloadUploadedStep ==
    ASSUME OutboxInv, NEW p \in Proc, MarkPayloadUploaded(p)
    PROVE  OutboxInv'
<1>1. TableInv /\ SyncInv /\ TypeOK
    BY DEF OutboxInv, TableInv
<1>2. /\ row' \in [Row -> [val : Version \cup {None}, at : 0..MaxChanges, dirty : BOOLEAN]]
      /\ PayloadsSound' /\ RowsSound' /\ CopiesSound' /\ ServerHasNewest' /\ CleanIsNewest'
      /\ MarkedIsSent' /\ CleanIsCurrent'
    BY <1>1, MarkStep
<1>3. SyncInv'
    BY <1>2 DEF SyncInv
<1>4. TypeOK' /\ RowsDistinct' /\ RetriesLeft' /\ AnswersHeld'
    BY <1>1, <1>2, MarkTables
<1>7. SnapshotsSound'
  <2>1. ASSUME NEW s \in Sub, row'[s].dirty
        PROVE  row'[s] = row[s]
    <3>1. s \in Row
        BY DEF Row
    <3>2. row'[s] = [row[s] EXCEPT !.dirty = FALSE, !.at = 0] \/ row'[s] = row[s]
        BY <3>1 DEF MarkPayloadUploaded
    <3>3. row[s] \in [val : Version \cup {None}, at : 0..MaxChanges, dirty : BOOLEAN]
        BY <3>1, <1>1 DEF TypeOK
    <3> QED
        BY <2>1, <3>2, <3>3
  <2> QED
      BY <2>1, <1>1 DEF TableInv, SnapshotsSound
<1> QED
    BY <1>3, <1>4, <1>7 DEF OutboxInv, TableInv

LEMMA ScanRollupStep ==
    ASSUME OutboxInv, NEW p \in Proc, NEW r \in Rollup, NEW v \in Value \cup {None}, ScanRollup(p, r, v)
    PROVE  OutboxInv'
<1>1. TableInv /\ SyncInv /\ TypeOK
    BY DEF OutboxInv, TableInv
<1>2. /\ changes' = changes + 1 /\ changes < MaxChanges
      /\ row' = [row EXCEPT ![r] = IF v = None THEN absent
                                   ELSE [val |-> v, at |-> changes', dirty |-> TRUE]]
      /\ UNCHANGED <<server_vars, pc, queue>>
    BY DEF ScanRollup, change, proc_vars
<1>3. payloads' = payloads
    BY PayloadsSame DEF ScanRollup, proc_vars
<1>4. SyncInv'
  <2>1. /\ RowsSound' /\ CopiesSound' /\ ServerHasNewest' /\ CleanIsNewest'
        /\ MarkedIsSent' /\ CleanIsCurrent'
      BY <1>1, <1>2, <1>3, ScanStep
  <2>2. PayloadsSound'
      BY <1>1, <1>3 DEF SyncInv, PayloadsSound
  <2> QED
      BY <2>1, <2>2 DEF SyncInv
<1>5. changes' \in 0..MaxChanges /\ 0 \in 0..MaxChanges
    BY <1>1, <1>2, OutboxAssumption DEF TypeOK
<1>6. row' \in [Row -> [val : Version \cup {None}, at : 0..MaxChanges, dirty : BOOLEAN]]
  <2>1. absent \in [val : Version \cup {None}, at : 0..MaxChanges, dirty : BOOLEAN]
      BY <1>5 DEF absent
  <2>2. v # None => [val |-> v, at |-> changes', dirty |-> TRUE]
                        \in [val : Version \cup {None}, at : 0..MaxChanges, dirty : BOOLEAN]
      BY <1>5 DEF Version
  <2> QED
      BY <1>1, <1>2, <2>1, <2>2 DEF TypeOK
<1>7. TypeOK'
    BY <1>1, <1>5, <1>6 DEF TypeOK, ScanRollup, proc_vars, server_vars, bound_vars
<1>8. RowsDistinct' /\ RetriesLeft'
    BY <1>1, SameTables DEF ScanRollup, proc_vars
<1>9. AnswersHeld'
    BY <1>1, <1>2 DEF TableInv, AnswersHeld
<1>10. SnapshotsSound'
  <2>1. \A s \in Sub : row'[s] = row[s]
      BY <1>1, <1>2, OutboxAssumption DEF TypeOK, Row
  <2> QED
      BY <2>1, <1>1 DEF TableInv, SnapshotsSound
<1> QED
    BY <1>4, <1>7, <1>8, <1>9, <1>10 DEF OutboxInv, TableInv
-----------------------------------------------------------------------------
(* The theorems.                                                           *)

LEMMA OutboxInit ==
    ASSUME Init
    PROVE  OutboxInv
<1>1. MaxChanges \in Nat /\ MaxTime \in Nat /\ MaxFails \in Nat /\ MaxCrashes \in Nat
    BY OutboxAssumption
<1>2. \A r \in Row : row[r].val = None /\ row[r].at = 0 /\ row[r].dirty = FALSE
    BY DEF Init, absent
<1>3. TypeOK
  <2>1. absent \in [val : Version \cup {None}, at : 0..MaxChanges, dirty : BOOLEAN]
      BY <1>1 DEF absent
  <2> QED
      BY <1>1, <2>1 DEF Init, TypeOK, Place, Row
<1>4. RowsDistinct /\ AnswersHeld /\ RetriesLeft
    BY FS_EmptySet DEF Init, RowsDistinct, distinct_ids, AnswersHeld, RetriesLeft
<1>5. SnapshotsSound
    BY <1>2 DEF SnapshotsSound, Row
<1>6. \A items : items \notin payloads
    BY PayloadIs DEF Init
<1>7. \A i : i \notin copies
    BY <1>2, <1>6, CopyIs DEF Row
<1>8. present_clean = {}
    BY <1>2 DEF present_clean, Row
<1>9. RowsSound
  <2>1. \A r \in Rollup : r \in Row /\ high[r] = 0 /\ changes = 0
      BY DEF Init, Row
  <2> QED
      BY <1>2, <2>1 DEF RowsSound
<1>10. PayloadsSound /\ CopiesSound /\ ServerHasNewest /\ CleanIsNewest /\ CleanIsCurrent
    BY <1>6, <1>7, <1>8
       DEF PayloadsSound, CopiesSound, ServerHasNewest, CleanIsNewest, CleanIsCurrent
<1>11. MarkedIsSent
    BY DEF Init, MarkedIsSent
<1> QED
    BY <1>3, <1>4, <1>5, <1>9, <1>10, <1>11 DEF OutboxInv, TableInv, SyncInv

LEMMA OutboxStutter ==
    ASSUME OutboxInv, UNCHANGED vars
    PROVE  OutboxInv'
<1>1. TableInv /\ SyncInv /\ TypeOK
    BY DEF OutboxInv, TableInv
<1>2. /\ UNCHANGED <<todo, outbox, queue, orphans>> /\ UNCHANGED server_vars
      /\ row' = row /\ changes' = changes /\ pc' = pc /\ now' = now /\ fails' = fails
      /\ crashes' = crashes
    BY DEF vars, local_vars, proc_vars, bound_vars
<1>3. SyncInv'
    BY <1>1, <1>2, PayloadsSame, Changes, QuietSync
<1>4. RowsDistinct' /\ RetriesLeft'
    BY <1>1, <1>2, SameTables
<1>5. TypeOK' /\ AnswersHeld' /\ SnapshotsSound'
    BY <1>1, <1>2 DEF TableInv, TypeOK, AnswersHeld, SnapshotsSound, server_vars
<1> QED
    BY <1>3, <1>4, <1>5 DEF OutboxInv, TableInv

LEMMA OutboxNext ==
    ASSUME OutboxInv, Next
    PROVE  OutboxInv'
<1>1. ASSUME NEW p \in Proc, Sync(p)
      PROVE  OutboxInv'
    BY <1>1, StartStep, UpsertSubscriptionsStep, SelectDirtyRollupsStep, CleanupStep, InsertStep,
       SelectDirtySubscriptionsStep, FetchPendingStep, UploadStep, MarkPayloadUploadedStep,
       MarkOutboxSyncedStep, UploadFailsStep, IncrementOutboxRetryStep DEF Sync
<1>2. ASSUME NEW p \in Proc, NEW r \in Rollup, NEW v \in Value \cup {None}, ScanRollup(p, r, v)
      PROVE  OutboxInv'
    BY <1>2, ScanRollupStep
<1>3. ASSUME NEW p \in Proc, NEW found \in SUBSET Sub, UpsertSubscriptions(p, found, "idle")
      PROVE  OutboxInv'
    BY <1>3, UpsertSubscriptionsStep
<1>4. ASSUME NEW p \in Proc, Offline(p) \/ Crash(p)
      PROVE  OutboxInv'
    BY <1>4, CleanupStep, CrashStep
<1>5. ASSUME OrphanArrives \/ Tick
      PROVE  OutboxInv'
    BY <1>5, OrphanArrivesStep, TickStep
<1> QED
    BY <1>1, <1>2, <1>3, <1>4, <1>5 DEF Next

(* The inductive invariant holds in every state.                           *)
THEOREM OutboxInvariant == Spec => []OutboxInv
<1>1. Init => OutboxInv
    BY OutboxInit
<1>2. OutboxInv /\ [Next]_vars => OutboxInv'
    BY OutboxNext, OutboxStutter
<1> QED
    BY <1>1, <1>2, PTL DEF Spec

(* The tables and the processes' memory hold what their types say: no row  *)
(* is tried more than MaxRetry - 1 times and once per further process.     *)
THEOREM OutboxTypeCorrect == Spec => []TypeOK
<1>1. OutboxInv => TypeOK
    BY DEF OutboxInv, TableInv
<1> QED
    BY <1>1, OutboxInvariant, PTL

(* A rollup that is not dirty is what the server has, unless an older      *)
(* total came after a newer one: for any number of processes, whatever     *)
(* requests fail, are lost with their process or come late.                *)
THEOREM CleanRollupsAreCurrent == Spec => []CleanIsCurrent
<1>1. OutboxInv => CleanIsCurrent
    BY DEF OutboxInv, SyncInv
<1> QED
    BY <1>1, OutboxInvariant, PTL
-----------------------------------------------------------------------------
(* The outbox implements the upload's promise.                             *)

LEMMA DeliveryQuiet ==
    ASSUME \A r \in Rollup : row'[r] = row[r], UNCHANGED server_vars
    PROVE  UNCHANGED Delivery!vars
<1>1. server' = server /\ known' = known
    BY DEF server_vars
<1>2. [r \in Rollup |-> row'[r].val] = [r \in Rollup |-> row[r].val]
    OBVIOUS
<1>3. present_clean' = present_clean
    BY DEF present_clean
<1> QED
    BY <1>1, <1>2, <1>3 DEF Delivery!vars

\* A request that arrives is one the promise accepts.
LEMMA DeliveryRequest ==
    ASSUME OutboxInv, NEW items \in payloads, upsert(items), row' = row
    PROVE  Delivery!Next \/ UNCHANGED Delivery!vars
<1>1. TypeOK /\ SyncInv
    BY DEF OutboxInv, TableInv
<1>2. items \in SUBSET Item /\ \A i, j \in items : i.row = j.row => i = j
    BY <1>1, PayloadTyped DEF SyncInv, PayloadsSound
<1>3. \A i \in items : i.row \in Rollup => i.val \in Value
    BY <1>1, CopyIs DEF SyncInv, CopiesSound
<1> DEFINE rs == {r \in Rollup : \E i \in items : i.row = r}
           total(v) == [r \in Rollup |-> IF r \in rs
                                         THEN (CHOOSE i \in items : i.row = r).val ELSE v]
<1>4. /\ \A i \in items :
            /\ server'[i.row] = i.val
            /\ i.row \in Rollup => known'[i.row] = known[i.row] \cup {i.val}
      /\ \A r \in Row : (\A i \in items : i.row # r) =>
            /\ server'[r] = server[r]
            /\ r \in Rollup => known'[r] = known[r]
      /\ known' \in [Rollup -> SUBSET Value]
    BY <1>1, <1>2, <1>3, Upserted
<1>5. known \in [Rollup -> SUBSET Value] /\ Rollup \subseteq Row
    BY <1>1 DEF TypeOK, Row
<1>6. present_clean' = present_clean /\ [r \in Rollup |-> row'[r].val] = [r \in Rollup |-> row[r].val]
    BY DEF present_clean
<1>7. CASE rs = {}
  <2>1. \A r \in Rollup : \A i \in items : i.row # r
      BY <1>7
  <2>2. \A r \in Rollup : server'[r] = server[r] /\ known'[r] = known[r]
      BY <2>1, <1>4, <1>5
  <2>3. known' = known
      BY <2>2, <1>4, <1>5
  <2>4. [r \in Rollup |-> server'[r]] = [r \in Rollup |-> server[r]]
      BY <2>2
  <2> QED
      BY <2>3, <2>4, <1>6 DEF Delivery!vars
<1>8. CASE rs # {}
  <2>1. PICK v \in Value : TRUE
      BY <1>8, <1>3
  <2>2. PICK T : T = total(v)
      OBVIOUS
  <2>3. \A r \in Rollup : r \in rs => \E i \in items : i.row = r /\ T[r] = i.val
      BY <2>2
  <2>4. \A r \in Rollup : T[r] \in Value
    <3>1. \A r \in Rollup : r \notin rs => T[r] = v
        BY <2>2
    <3> QED
        BY <2>1, <2>3, <3>1, <1>3
  <2>5. T \in [Rollup -> Value]
      BY <2>2, <2>4
  <2>6. ASSUME NEW r \in Rollup
        PROVE  /\ server'[r] = IF r \in rs THEN T[r] ELSE server[r]
               /\ known'[r] = IF r \in rs THEN known[r] \cup {T[r]} ELSE known[r]
    <3>1. CASE r \in rs
        BY <3>1, <2>3, <1>4
    <3>2. CASE r \notin rs
        BY <3>2, <1>4, <1>5
    <3> QED
        BY <3>1, <3>2
  <2>7. rs \in SUBSET Rollup
      OBVIOUS
  <2> HIDE DEF rs
  <2>8. known' = [r \in Rollup |-> IF r \in rs THEN known[r] \cup {T[r]} ELSE known[r]]
      BY <2>6, <1>4
  <2>9. [r \in Rollup |-> server'[r]]
            = [r \in Rollup |-> IF r \in rs THEN T[r] ELSE [x \in Rollup |-> server[x]][r]]
      BY <2>6
  <2>10. Delivery!Accept(rs, T)
      BY <2>8, <2>9, <1>6 DEF Delivery!Accept
  <2> QED
      BY <2>5, <2>7, <2>10 DEF Delivery!Next
<1> QED
    BY <1>7, <1>8

LEMMA DeliveryMark ==
    ASSUME OutboxInv, NEW p \in Proc, MarkPayloadUploaded(p)
    PROVE  Delivery!Next
<1>1. TableInv /\ SyncInv /\ TypeOK
    BY DEF OutboxInv, TableInv
<1>2. \A r \in Rollup :
          \/ row'[r] = row[r]
          \/ /\ row[r].dirty /\ row[r].val \in known[r]
             /\ row'[r].val = row[r].val /\ ~row'[r].dirty
    BY <1>1, MarkStep
<1> DEFINE rs == {r \in Rollup : row'[r] # row[r]}
<1>3. server' = server /\ known' = known
    BY DEF MarkPayloadUploaded, server_vars
<1>4. [r \in Rollup |-> row'[r].val] = [r \in Rollup |-> row[r].val]
    BY <1>2
<1>5. \A r \in rs : row[r].val # None
  <2>1. \A r \in rs : row[r].dirty /\ r \in Rollup
      BY <1>2
  <2> QED
      BY <2>1, <1>1, OutboxAssumption DEF SyncInv, RowsSound
<1>6. present_clean' = present_clean \cup rs
    BY <1>2, <1>5 DEF present_clean
<1>7. \A r \in rs : [x \in Rollup |-> row[x].val][r] \in known[r]
    BY <1>2
<1>8. rs \in SUBSET Rollup
    OBVIOUS
<1> HIDE DEF rs
<1>9. Delivery!Acknowledge(rs)
    BY <1>3, <1>4, <1>6, <1>7 DEF Delivery!Acknowledge
<1> QED
    BY <1>8, <1>9 DEF Delivery!Next

LEMMA DeliveryScan ==
    ASSUME OutboxInv, NEW p \in Proc, NEW r \in Rollup, NEW v \in Value \cup {None},
           ScanRollup(p, r, v)
    PROVE  Delivery!Next
<1>1. TypeOK
    BY DEF OutboxInv, TableInv
<1>2. /\ row' = [row EXCEPT ![r] = IF v = None THEN absent
                                   ELSE [val |-> v, at |-> changes', dirty |-> TRUE]]
      /\ server' = server /\ known' = known
    BY DEF ScanRollup, server_vars
<1>3. r \in Row /\ Rollup \subseteq Row
    BY DEF Row
<1>4. row'[r].val = v /\ (v # None => row'[r].dirty)
    BY <1>1, <1>2, <1>3 DEF TypeOK, absent
<1>5. \A x \in Rollup : x # r => row'[x] = row[x]
    BY <1>1, <1>2, <1>3 DEF TypeOK
<1>6. [x \in Rollup |-> row'[x].val] = [[x \in Rollup |-> row[x].val] EXCEPT ![r] = v]
    BY <1>4, <1>5
<1>7. present_clean' = present_clean \ {r}
    BY <1>4, <1>5 DEF present_clean
<1>8. Delivery!Recount(r, v)
    BY <1>2, <1>6, <1>7 DEF Delivery!Recount
<1> QED
    BY <1>8 DEF Delivery!Next, Delivery!Total

LEMMA DeliveryNext ==
    ASSUME OutboxInv, [Next]_vars
    PROVE  Delivery!Next \/ UNCHANGED Delivery!vars
<1>1. TableInv /\ SyncInv /\ TypeOK
    BY DEF OutboxInv, TableInv
<1> DEFINE Quiet == (\A r \in Rollup : row'[r] = row[r]) /\ UNCHANGED server_vars
<1>2. Quiet => UNCHANGED Delivery!vars
    BY DeliveryQuiet
<1>3. ASSUME NEW p \in Proc, sends(p), upsert(head(p).items), row' = row
      PROVE  Delivery!Next \/ UNCHANGED Delivery!vars
  <2>1. head(p).items \in payloads
      BY <1>1, <1>3, HasHead, PayloadOf DEF sends
  <2> QED
      BY <1>3, <2>1, DeliveryRequest
<1>4. ASSUME NEW p \in Proc, NEW found \in SUBSET Sub, NEW place, UpsertSubscriptions(p, found, place)
      PROVE  Quiet
    BY <1>4, OutboxAssumption DEF UpsertSubscriptions, Row
<1>5. ASSUME NEW p \in Proc,
             \/ Start(p) \/ SelectDirtyRollups(p) \/ SelectDirtySubscriptions(p)
             \/ Enqueue(p) \/ Insert(p) \/ Trim(p) \/ StartDrain(p) \/ FetchPending(p)
             \/ MarkOutboxSynced(p) \/ IncrementOutboxRetry(p) \/ EndDrain(p)
             \/ Offline(p) \/ Crash(p)
      PROVE  Quiet
    BY <1>5 DEF Start, SelectDirtyRollups, SelectDirtySubscriptions, Enqueue, Insert, Trim,
                StartDrain, FetchPending, MarkOutboxSynced, IncrementOutboxRetry, EndDrain,
                Offline, Crash, local_vars
<1>6. ASSUME NEW p \in Proc, Upload(p)
      PROVE  Delivery!Next \/ UNCHANGED Delivery!vars
    BY <1>6, <1>3 DEF Upload, local_vars
<1>7. ASSUME NEW p \in Proc, UploadFails(p)
      PROVE  Delivery!Next \/ UNCHANGED Delivery!vars
  <2>1. sends(p) /\ row' = row /\ (UNCHANGED server_vars \/ upsert(head(p).items))
      BY <1>7 DEF UploadFails, local_vars
  <2> QED
      BY <2>1, <1>2, <1>3
<1>8. ASSUME OrphanArrives
      PROVE  Delivery!Next \/ UNCHANGED Delivery!vars
    BY <1>8, PayloadOf, DeliveryRequest DEF OrphanArrives, local_vars
<1>9. ASSUME Tick \/ UNCHANGED vars
      PROVE  Quiet
    BY <1>9 DEF Tick, vars, local_vars
<1> HIDE DEF Quiet
<1>10. ASSUME NEW p \in Proc, Sync(p)
       PROVE  Delivery!Next \/ UNCHANGED Delivery!vars
    BY <1>2, <1>4, <1>5, <1>6, <1>7, <1>10, DeliveryMark DEF Sync
<1>11. ASSUME NEW p \in Proc, NEW r \in Rollup, NEW v \in Value \cup {None}, ScanRollup(p, r, v)
       PROVE  Delivery!Next
    BY <1>11, DeliveryScan
<1>12. CASE Next
    BY <1>2, <1>4, <1>5, <1>8, <1>9, <1>10, <1>11, <1>12 DEF Next
<1> QED
    BY <1>2, <1>9, <1>12

(* The outbox implements UsageDelivery: the server holds only totals the   *)
(* device had, and the device takes a total for delivered only after the   *)
(* server accepted it.                                                     *)
THEOREM OutboxImplementsDelivery == Spec => ImplementsUsageDelivery
<1>1. Init => Delivery!Init
  <2>1. ASSUME Init
        PROVE  Delivery!Init
    <3>1. \A r \in Rollup : row[r].val = None /\ server[r] = None
        BY <2>1 DEF Init, absent, Row
    <3>2. present_clean = {}
        BY <3>1 DEF present_clean
    <3>3. known = [r \in Rollup |-> {}]
        BY <2>1 DEF Init
    <3> QED
        BY <3>1, <3>2, <3>3 DEF Delivery!Init
  <2> QED
      BY <2>1
<1>2. OutboxInv /\ [Next]_vars => [Delivery!Next]_(Delivery!vars)
    BY DeliveryNext
<1> QED
    BY <1>1, <1>2, OutboxInvariant, PTL DEF Spec, ImplementsUsageDelivery, Delivery!Spec
-----------------------------------------------------------------------------
(* The caps of the table.                                                  *)

\* What weight counts.
tagged(e) == {<<e.id, i>> : i \in e.items}
pairs(q) == UNION {tagged(e) : e \in q}

LEMMA WeightIs ==
    ASSUME NEW q
    PROVE  weight(q) = Cardinality(pairs(q))
<1> QED
    BY DEF weight, pairs, tagged

LEMMA PairsGrow ==
    ASSUME NEW q, NEW s, s \subseteq q
    PROVE  pairs(s) \subseteq pairs(q)
<1>1. {tagged(e) : e \in s} \subseteq {tagged(e) : e \in q}
    OBVIOUS
<1> QED
    BY <1>1 DEF pairs

LEMMA PairsFinite ==
    ASSUME NEW q, IsFiniteSet(q), \A e \in q : IsFiniteSet(e.items)
    PROVE  IsFiniteSet(pairs(q))
<1>1. IsFiniteSet({tagged(e) : e \in q})
  <2> DEFINE f == [e \in q |-> tagged(e)]
  <2>1. {f[e] : e \in q} = {tagged(e) : e \in q}
      OBVIOUS
  <2> HIDE DEF f
  <2> QED
      BY <2>1, Image
<1>2. ASSUME NEW e \in q
      PROVE  IsFiniteSet(tagged(e))
  <2> DEFINE f == [i \in e.items |-> <<e.id, i>>]
  <2>1. {f[i] : i \in e.items} = {<<e.id, i>> : i \in e.items}
      OBVIOUS
  <2> HIDE DEF f
  <2> QED
      BY <2>1, Image DEF tagged
<1> QED
    BY <1>1, <1>2, FS_UNION DEF pairs

\* A part of a table is within the table's caps.
LEMMA PartIsSmaller ==
    ASSUME NEW q, IsFiniteSet(q), \A e \in q : IsFiniteSet(e.items), NEW s, s \subseteq q
    PROVE  /\ IsFiniteSet(s) /\ Cardinality(s) \in Nat /\ Cardinality(q) \in Nat
           /\ Cardinality(s) <= Cardinality(q)
           /\ weight(s) \in Nat /\ weight(q) \in Nat /\ weight(s) <= weight(q)
<1>1. s \in SUBSET q /\ pairs(s) \in SUBSET pairs(q)
    BY PairsGrow
<1>2. IsFiniteSet(pairs(q))
    BY PairsFinite
<1>3. /\ IsFiniteSet(s) /\ Cardinality(s) <= Cardinality(q)
      /\ IsFiniteSet(pairs(s)) /\ Cardinality(pairs(s)) <= Cardinality(pairs(q))
    BY <1>1, <1>2, FS_Subset
<1> QED
    BY <1>2, <1>3, FS_CardinalityType, WeightIs

\* prune_usage_outbox_rows leaves no more rows than it is told.
LEMMA NewestIsBounded ==
    ASSUME NEW q, IsFiniteSet(q), \A e \in q : e.id \in Nat, distinct_ids(q), NEW n \in Nat
    PROVE  Cardinality(newest(q, n)) <= n
<1> DEFINE kept == newest(q, n)
           ids == {e.id : e \in kept}
<1>1. kept \subseteq q /\ \A e \in kept : Cardinality({x \in q : x.id > e.id}) < n
    BY DEF newest
<1> HIDE DEF kept
<1>2. CASE kept = {}
    BY <1>2, FS_EmptySet DEF kept
<1>3. CASE kept # {}
  <2>1. ids \subseteq Nat /\ ids # {}
      BY <1>1, <1>3
  <2>2. PICK m \in ids : \A k \in ids : m <= k
      BY <2>1, Least
  <2>3. PICK e \in kept : e.id = m
      BY <2>2
  <2>4. \A x \in kept : x.id \in Nat /\ e.id <= x.id /\ e.id \in Nat
      BY <1>1, <2>2, <2>3
  <2> DEFINE newer == {x \in q : x.id > e.id}
  <2>5. \A x \in kept : x \in newer \/ x = e
    <3>1. ASSUME NEW x \in kept
          PROVE  x \in newer \/ x = e
      <4>1. x.id > e.id \/ x.id = e.id
          BY <2>4
      <4>2. x.id = e.id => x = e
          BY <1>1 DEF distinct_ids
      <4> QED
          BY <4>1, <4>2, <1>1
    <3> QED
        BY <3>1
  <2>6. newer \in SUBSET q /\ Cardinality(newer) < n
      BY <1>1
  <2> HIDE DEF newer
  <2>7. kept \in SUBSET (newer \cup {e})
      BY <2>5
  <2>8. IsFiniteSet(newer) /\ Cardinality(newer) \in Nat
      BY <2>6, FS_Subset, FS_CardinalityType
  <2>9. /\ IsFiniteSet(newer \cup {e})
        /\ Cardinality(newer \cup {e}) = IF e \in newer THEN Cardinality(newer)
                                         ELSE Cardinality(newer) + 1
      BY <2>8, FS_AddElement
  <2>10. IsFiniteSet(kept) /\ Cardinality(kept) <= Cardinality(newer \cup {e})
      BY <2>7, <2>9, FS_Subset
  <2>11. Cardinality(kept) \in Nat
      BY <2>10, FS_CardinalityType
  <2> QED
      BY <2>6, <2>8, <2>9, <2>10, <2>11 DEF kept
<1> QED
    BY <1>2, <1>3

\* prune_usage_outbox_payload_bytes leaves payloads of the weight it is told.
LEMMA WithinWeight ==
    ASSUME NEW q, IsFiniteSet(q), \A e \in q : e.id \in Nat /\ IsFiniteSet(e.items)
    PROVE  weight(within_weight(q)) <= MaxWeight
<1> DEFINE kept == within_weight(q)
           ids == {e.id : e \in kept}
<1>1. kept \subseteq q /\ \A e \in kept : weight({x \in q : x.id >= e.id}) <= MaxWeight
    BY DEF within_weight
<1>2. MaxWeight \in Nat
    BY OutboxAssumption
<1> HIDE DEF kept
<1>3. CASE kept = {}
  <2>1. pairs(kept) = {}
      BY <1>3 DEF pairs
  <2> QED
      BY <2>1, <1>2, WeightIs, FS_EmptySet DEF kept
<1>4. CASE kept # {}
  <2>1. ids \subseteq Nat /\ ids # {}
      BY <1>1, <1>4
  <2>2. PICK m \in ids : \A k \in ids : m <= k
      BY <2>1, Least
  <2>3. PICK e \in kept : e.id = m
      BY <2>2
  <2> DEFINE upper == {x \in q : x.id >= e.id}
  <2>4. kept \subseteq upper
      BY <1>1, <2>2, <2>3
  <2>5. upper \subseteq q /\ weight(upper) <= MaxWeight
      BY <1>1
  <2> HIDE DEF upper
  <2>6. IsFiniteSet(upper) /\ \A x \in upper : IsFiniteSet(x.items)
      BY <2>5, FS_Subset
  <2>7. weight(kept) \in Nat /\ weight(upper) \in Nat /\ weight(kept) <= weight(upper)
      BY <2>4, <2>6, PartIsSmaller
  <2> QED
      BY <2>5, <2>7, <1>2 DEF kept
<1> QED
    BY <1>3, <1>4

\* A cleanup leaves a table that is within both caps.
LEMMA CleanupIsBounded ==
    ASSUME NEW q, IsFiniteSet(q), distinct_ids(q),
           \A e \in q : e.id \in Nat /\ IsFiniteSet(e.items)
    PROVE  /\ Cardinality(cleanup_usage_outbox(q)) <= MaxRows
           /\ weight(cleanup_usage_outbox(q)) <= MaxWeight
<1> DEFINE fresh == {e \in q : e.retry < MaxRetry /\ e.created >= now - Ttl}
           rows == newest(fresh, MaxRows)
<1>1. cleanup_usage_outbox(q) = within_weight(rows)
    BY DEF cleanup_usage_outbox
<1>2. fresh \subseteq q
    OBVIOUS
<1> HIDE DEF fresh
<1>3. rows \subseteq fresh /\ within_weight(rows) \subseteq rows
    BY DEF newest, within_weight
<1>4. IsFiniteSet(fresh) /\ distinct_ids(fresh) /\ \A e \in fresh : e.id \in Nat
    BY <1>2, FS_Subset DEF distinct_ids
<1>5. MaxRows \in Nat
    BY OutboxAssumption
<1>6. Cardinality(rows) <= MaxRows
    BY <1>4, <1>5, NewestIsBounded
<1> HIDE DEF rows
<1>7. IsFiniteSet(rows) /\ \A e \in rows : e.id \in Nat /\ IsFiniteSet(e.items)
    BY <1>2, <1>3, <1>4, FS_Subset
<1>8. weight(within_weight(rows)) <= MaxWeight
    BY <1>7, WithinWeight
<1>9. /\ Cardinality(within_weight(rows)) \in Nat /\ Cardinality(rows) \in Nat
      /\ Cardinality(within_weight(rows)) <= Cardinality(rows)
    BY <1>3, <1>7, PartIsSmaller
<1> QED
    BY <1>1, <1>5, <1>6, <1>8, <1>9

\* The processes between an insertion and its cleanup.
trimmers == {p \in Proc : pc[p] \in DOMAIN trimming}

\* What is put into the outbox has no more items than one request may have.
SmallPayloads == \A p \in Proc : \A items \in todo[p] : Cardinality(items) <= MaxItems

LEMMA Times ==
    ASSUME NEW m \in Nat, NEW a \in Nat, NEW b \in Nat
    PROVE  /\ m * a \in Nat /\ m * b \in Nat
           /\ a <= b => m * a <= m * b
           /\ m * (a + 1) = m * a + m
<1>1. m * a \in Nat /\ m * b \in Nat
    OBVIOUS
<1>2. m * (a + 1) = m * a + m
    OBVIOUS
<1>3. ASSUME a <= b
      PROVE  m * a <= m * b
  <2>1. PICK k \in Nat : b = a + k
    <3>1. b - a \in Nat /\ b = a + (b - a)
        BY <1>3
    <3> QED
        BY <3>1
  <2>2. m * b = m * a + m * k /\ m * k \in Nat
      BY <2>1
  <2> QED
      BY <2>2, <1>1
<1> QED
    BY <1>1, <1>2, <1>3

LEMMA UntrimmedIs ==
    /\ TypeOK => /\ IsFiniteSet(trimmers) /\ Cardinality(trimmers) \in Nat /\ crashes \in Nat
                 /\ untrimmed = Cardinality(trimmers) + crashes /\ untrimmed \in Nat
    /\ TypeOK' => /\ IsFiniteSet(trimmers') /\ Cardinality(trimmers') \in Nat /\ crashes' \in Nat
                  /\ untrimmed' = Cardinality(trimmers') + crashes' /\ untrimmed' \in Nat
<1>1. trimmers \subseteq Proc /\ trimmers' \subseteq Proc
    BY DEF trimmers
<1>2. IsFiniteSet(trimmers) /\ IsFiniteSet(trimmers')
    BY <1>1, OutboxAssumption, FS_Subset
<1>3. Cardinality(trimmers) \in Nat /\ Cardinality(trimmers') \in Nat
    BY <1>2, FS_CardinalityType
<1>4. (TypeOK => crashes \in Nat) /\ (TypeOK' => crashes' \in Nat)
    BY OutboxAssumption DEF TypeOK
<1>5. untrimmed = Cardinality(trimmers) + crashes
    BY DEF untrimmed, trimmers
<1>6. untrimmed' = Cardinality(trimmers') + crashes'
    BY DEF untrimmed, trimmers
<1> QED
    BY <1>2, <1>3, <1>4, <1>5, <1>6

LEMMA CapsInit ==
    ASSUME Init
    PROVE  OutboxIsBounded /\ SmallPayloads
<1>1. outbox = {} /\ pairs(outbox) = {}
    BY DEF Init, pairs
<1>2. Cardinality({}) = 0
    BY FS_EmptySet
<1>3. {MaxRows, MaxWeight, MaxItems} \subseteq Nat
    BY OutboxAssumption
<1>4. untrimmed \in Nat
    BY OutboxInit, UntrimmedIs DEF OutboxInv, TableInv
<1>5. MaxItems * untrimmed \in Nat
    BY <1>3, <1>4, Times
<1>6. Cardinality(outbox) = 0 /\ weight(outbox) = 0
    BY <1>1, <1>2, WeightIs
<1>7. OutboxIsBounded
    BY <1>3, <1>4, <1>5, <1>6 DEF OutboxIsBounded
<1>8. SmallPayloads
    BY DEF Init, SmallPayloads
<1> QED
    BY <1>7, <1>8

\* A smaller table stays within its caps, unless a process has cleaned up.
LEMMA CapsSmaller ==
    ASSUME OutboxInv, OutboxInv', OutboxIsBounded, untrimmed <= untrimmed',
           Cardinality(outbox') <= Cardinality(outbox), weight(outbox') <= weight(outbox)
    PROVE  OutboxIsBounded'
<1>1. /\ IsFiniteSet(outbox) /\ \A e \in outbox : IsFiniteSet(e.items)
      /\ IsFiniteSet(outbox') /\ \A e \in outbox' : IsFiniteSet(e.items)
  <2>1. \A e \in outbox' : e.items \in payloads'
      BY PayloadIsNext
  <2> QED
      BY <2>1, PayloadOf DEF OutboxInv, TableInv, RowsDistinct, SyncInv, PayloadsSound
<1>2. /\ Cardinality(outbox) \in Nat /\ weight(outbox) \in Nat
      /\ Cardinality(outbox') \in Nat /\ weight(outbox') \in Nat
    BY <1>1, PartIsSmaller
<1>3. untrimmed \in Nat /\ untrimmed' \in Nat
    BY UntrimmedIs DEF OutboxInv, TableInv
<1>4. MaxRows \in Nat /\ MaxWeight \in Nat /\ MaxItems \in Nat
    BY OutboxAssumption
<1>5. /\ MaxItems * untrimmed \in Nat /\ MaxItems * untrimmed' \in Nat
      /\ MaxItems * untrimmed <= MaxItems * untrimmed'
    BY <1>3, <1>4, Times
<1>6. Cardinality(outbox) <= MaxRows + untrimmed /\ weight(outbox) <= MaxWeight + MaxItems * untrimmed
    BY DEF OutboxIsBounded
<1>7. Cardinality(outbox') <= MaxRows + untrimmed'
    BY <1>2, <1>3, <1>4, <1>6
<1>8. weight(outbox') <= MaxWeight + MaxItems * untrimmed'
    BY <1>2, <1>4, <1>5, <1>6
<1> QED
    BY <1>7, <1>8 DEF OutboxIsBounded, weight

\* A cleanup brings the table down to its caps.
LEMMA CapsCleanup ==
    ASSUME OutboxInv, OutboxInv', outbox' = cleanup_usage_outbox(outbox)
    PROVE  OutboxIsBounded'
<1>1. IsFiniteSet(outbox) /\ distinct_ids(outbox)
    BY DEF OutboxInv, TableInv, RowsDistinct
<1>2. \A e \in outbox : e.id \in Nat /\ IsFiniteSet(e.items)
    BY PayloadOf, PayloadFields DEF OutboxInv, TableInv, TypeOK, SyncInv, PayloadsSound
<1>3. Cardinality(outbox') <= MaxRows /\ weight(outbox') <= MaxWeight
    BY <1>1, <1>2, CleanupIsBounded
<1>4. Cardinality(outbox') \in Nat /\ weight(outbox') \in Nat
  <2>1. outbox' \subseteq outbox
      BY CleanupKeeps
  <2> QED
      BY <2>1, <1>1, <1>2, PartIsSmaller
<1>5. untrimmed' \in Nat /\ MaxRows \in Nat /\ MaxWeight \in Nat /\ MaxItems \in Nat
    BY UntrimmedIs, OutboxAssumption DEF OutboxInv, TableInv
<1>6. MaxItems * untrimmed' \in Nat
    BY <1>5, Times
<1>7. Cardinality(outbox') <= MaxRows + untrimmed'
    BY <1>3, <1>4, <1>5
<1>8. weight(outbox') <= MaxWeight + MaxItems * untrimmed'
    BY <1>3, <1>4, <1>5, <1>6
<1> QED
    BY <1>7, <1>8 DEF OutboxIsBounded, weight

\* A payload more, and a process that has to clean up.
LEMMA CapsInsert ==
    ASSUME OutboxInv, OutboxInv', OutboxIsBounded, SmallPayloads, NEW p \in Proc, Insert(p)
    PROVE  OutboxIsBounded'
<1>1. TableInv /\ TypeOK /\ TypeOK'
    BY DEF OutboxInv, TableInv
<1>2. PICK items \in todo[p] : insert_or_ignore(items)
    BY DEF Insert
<1> PICK e : e = [id |-> fresh_id, items |-> items, retry |-> 0, created |-> now]
    OBVIOUS
<1> PICK q : q = outbox \cup {e}
    OBVIOUS
<1>3. outbox' \subseteq q
    BY <1>2 DEF insert_or_ignore
<1>4. /\ IsFiniteSet(outbox) /\ \A x \in outbox : IsFiniteSet(x.items)
      /\ IsFiniteSet(items) /\ Cardinality(items) \in Nat /\ Cardinality(items) <= MaxItems
    BY <1>1, PayloadOf, FS_CardinalityType
       DEF OutboxInv, TableInv, RowsDistinct, SyncInv, PayloadsSound, SmallPayloads
<1>5. IsFiniteSet(q) /\ Cardinality(q) <= Cardinality(outbox) + 1 /\ Cardinality(q) \in Nat
  <2>1. /\ IsFiniteSet(outbox \cup {e})
        /\ Cardinality(outbox \cup {e}) = IF e \in outbox THEN Cardinality(outbox)
                                          ELSE Cardinality(outbox) + 1
      BY <1>4, FS_AddElement
  <2>2. Cardinality(outbox) \in Nat
      BY <1>4, FS_CardinalityType
  <2> QED
      BY <2>1, <2>2
<1>6. \A x \in q : IsFiniteSet(x.items)
    BY <1>4
<1>7. IsFiniteSet(tagged(e)) /\ Cardinality(tagged(e)) <= Cardinality(items)
  <2> DEFINE f == [i \in items |-> <<e.id, i>>]
  <2>1. {f[i] : i \in items} = tagged(e)
      BY DEF tagged
  <2> HIDE DEF f
  <2>2. /\ IsFiniteSet({f[i] : i \in items})
        /\ Cardinality({f[i] : i \in items}) <= Cardinality(items)
      BY <1>4, Image
  <2> QED
      BY <2>1, <2>2
<1>8. pairs(q) = pairs(outbox) \cup tagged(e)
    BY DEF pairs
<1>9. IsFiniteSet(pairs(outbox))
    BY <1>4, PairsFinite
<1>10. /\ Cardinality(pairs(q)) <= Cardinality(pairs(outbox)) + Cardinality(tagged(e))
       /\ Cardinality(pairs(outbox)) \in Nat /\ Cardinality(tagged(e)) \in Nat
       /\ Cardinality(pairs(q)) \in Nat
  <2>1. /\ IsFiniteSet(pairs(q))
        /\ Cardinality(pairs(q)) = Cardinality(pairs(outbox)) + Cardinality(tagged(e))
                                   - Cardinality(pairs(outbox) \cap tagged(e))
      BY <1>7, <1>8, <1>9, FS_Union
  <2>2. IsFiniteSet(pairs(outbox) \cap tagged(e))
      BY <1>9, FS_Subset
  <2>3. /\ Cardinality(pairs(outbox)) \in Nat /\ Cardinality(tagged(e)) \in Nat
        /\ Cardinality(pairs(q)) \in Nat /\ Cardinality(pairs(outbox) \cap tagged(e)) \in Nat
      BY <2>1, <2>2, <1>7, <1>9, FS_CardinalityType
  <2> QED
      BY <2>1, <2>3
<1>11. MaxRows \in Nat /\ MaxWeight \in Nat /\ MaxItems \in Nat
    BY OutboxAssumption
<1>12. weight(q) <= weight(outbox) + MaxItems /\ weight(q) \in Nat /\ weight(outbox) \in Nat
    BY <1>4, <1>7, <1>10, <1>11, WeightIs
<1>13. /\ Cardinality(outbox') \in Nat /\ Cardinality(outbox') <= Cardinality(q)
       /\ weight(outbox') \in Nat /\ weight(outbox') <= weight(q)
    BY <1>3, <1>5, <1>6, PartIsSmaller
<1>14. untrimmed' = untrimmed + 1 /\ untrimmed \in Nat
  <2>1. pc[p] \in DOMAIN inserting /\ pc' = [pc EXCEPT ![p] = inserting[pc[p]]] /\ crashes' = crashes
      BY DEF Insert, goto, bound_vars
  <2>2. p \notin trimmers
      BY <2>1 DEF trimmers, inserting, trimming
  <2>3. pc'[p] \in DOMAIN trimming /\ \A x \in Proc : x # p => pc'[x] = pc[x]
    <3>1. pc'[p] = inserting[pc[p]]
        BY <2>1, <1>1 DEF TypeOK
    <3>2. pc'[p] \in DOMAIN trimming
        BY <3>1, <2>1 DEF inserting, trimming
    <3> QED
        BY <3>2, <2>1, <1>1 DEF TypeOK
  <2>4. trimmers' = trimmers \cup {p}
      BY <2>3 DEF trimmers
  <2>5. Cardinality(trimmers') = Cardinality(trimmers) + 1
      BY <2>2, <2>4, <1>1, UntrimmedIs, FS_AddElement
  <2> QED
      BY <2>1, <2>5, <1>1, UntrimmedIs
<1>15. /\ MaxItems * untrimmed \in Nat
       /\ MaxItems * untrimmed' = MaxItems * untrimmed + MaxItems
    BY <1>11, <1>14, Times
<1>16. /\ Cardinality(outbox) <= MaxRows + untrimmed /\ Cardinality(outbox) \in Nat
       /\ weight(outbox) <= MaxWeight + MaxItems * untrimmed
    BY <1>4, FS_CardinalityType DEF OutboxIsBounded
<1>17. Cardinality(outbox') <= MaxRows + untrimmed'
    BY <1>5, <1>11, <1>13, <1>14, <1>16
<1>18. weight(outbox') <= MaxWeight + MaxItems * untrimmed'
    BY <1>11, <1>12, <1>13, <1>15, <1>16
<1> QED
    BY <1>17, <1>18 DEF OutboxIsBounded, weight

\* A row marked failed is as heavy as before.
LEMMA IncrementWeight ==
    ASSUME OutboxInv, NEW p \in Proc, IncrementOutboxRetry(p)
    PROVE  Cardinality(outbox') <= Cardinality(outbox) /\ weight(outbox') <= weight(outbox)
<1> PICK h : h = head(p)
    OBVIOUS
<1> DEFINE failed(e) == IF e.id = h.id THEN [e EXCEPT !.retry = @ + 1] ELSE e
<1>1. outbox' = {failed(e) : e \in outbox}
    BY DEF IncrementOutboxRetry
<1>2. TableInv /\ TypeOK
    BY DEF OutboxInv, TableInv
<1>3. \A e \in outbox : failed(e).id = e.id /\ failed(e).items = e.items
    BY <1>2 DEF TypeOK, Payload
<1> HIDE DEF failed
<1>4. Cardinality(outbox') <= Cardinality(outbox)
  <2> DEFINE f == [e \in outbox |-> failed(e)]
  <2>1. {f[e] : e \in outbox} = outbox'
      BY <1>1
  <2>2. IsFiniteSet(outbox)
      BY <1>2 DEF TableInv, RowsDistinct
  <2> HIDE DEF f
  <2> QED
      BY <2>1, <2>2, Image
<1>5. {tagged(e) : e \in outbox'} = {tagged(e) : e \in outbox}
  <2>1. \A e \in outbox : tagged(failed(e)) = tagged(e)
      BY <1>3 DEF tagged
  <2> QED
      BY <2>1, <1>1
<1>6. weight(outbox') = weight(outbox)
    BY <1>5, WeightIs DEF pairs
<1>7. weight(outbox) \in Nat
    BY PayloadOf, PartIsSmaller DEF OutboxInv, TableInv, RowsDistinct, SyncInv, PayloadsSound
<1> QED
    BY <1>4, <1>6, <1>7

\* No process is done with its cleanup, but for those that were killed.
LEMMA UntrimmedStays ==
    ASSUME TypeOK, TypeOK', crashes' = crashes,
           \A p \in Proc : pc[p] \in DOMAIN trimming => pc'[p] = pc[p]
    PROVE  untrimmed <= untrimmed'
<1>1. trimmers \in SUBSET trimmers'
    BY DEF trimmers
<1>2. Cardinality(trimmers) <= Cardinality(trimmers')
    BY <1>1, UntrimmedIs, FS_Subset
<1> QED
    BY <1>2, UntrimmedIs

LEMMA UntrimmedCrash ==
    ASSUME TypeOK, TypeOK', NEW p \in Proc, Crash(p)
    PROVE  untrimmed <= untrimmed'
<1>1. pc' = [pc EXCEPT ![p] = "idle"] /\ crashes' = crashes + 1
    BY DEF Crash, goto
<1>2. trimmers \in SUBSET (trimmers' \cup {p})
  <2>1. \A x \in Proc : x # p => pc'[x] = pc[x]
      BY <1>1 DEF TypeOK
  <2> QED
      BY <2>1 DEF trimmers
<1>3. /\ IsFiniteSet(trimmers' \cup {p})
      /\ Cardinality(trimmers' \cup {p}) <= Cardinality(trimmers') + 1
      /\ Cardinality(trimmers' \cup {p}) \in Nat
  <2>1. /\ IsFiniteSet(trimmers' \cup {p})
        /\ Cardinality(trimmers' \cup {p}) = IF p \in trimmers' THEN Cardinality(trimmers')
                                             ELSE Cardinality(trimmers') + 1
      BY UntrimmedIs, FS_AddElement
  <2> QED
      BY <2>1, UntrimmedIs
<1>4. Cardinality(trimmers) <= Cardinality(trimmers' \cup {p})
    BY <1>2, <1>3, FS_Subset
<1> QED
    BY <1>1, <1>3, <1>4, UntrimmedIs

\* LIMIT MAX_UPLOAD_ITEMS.
LEMMA FirstDirty == IsFiniteSet(first_dirty) /\ Cardinality(first_dirty) <= MaxItems
<1> DEFINE D == dirty_rows(Rollup)
<1> PICK K : K = first_dirty
    OBVIOUS
<1>1. K \subseteq D /\ D \subseteq Rollup /\ \A r \in K : Cardinality({x \in D : x < r}) < MaxItems
    BY DEF first_dirty, dirty_rows
<1>2. IsFiniteSet(D) /\ IsFiniteSet(K) /\ K \subseteq Nat /\ MaxItems \in Nat
    BY <1>1, OutboxAssumption, FS_Subset
<1> HIDE DEF D
<1>3. CASE K = {}
    BY <1>2, <1>3, FS_EmptySet
<1>4. CASE K # {}
  <2>1. PICK m \in K : \A r \in K : r <= m
      BY <1>2, <1>4, Greatest
  <2> DEFINE below == {x \in D : x < m}
  <2>2. below \in SUBSET D /\ Cardinality(below) < MaxItems
      BY <1>1
  <2>3. \A r \in K : r \in below \/ r = m
    <3>1. \A r \in K : r \in Nat /\ m \in Nat /\ r <= m /\ r \in D
        BY <1>1, <1>2, <2>1
    <3>2. \A r \in K : r < m \/ r = m
        BY <3>1
    <3> QED
        BY <3>1, <3>2
  <2> HIDE DEF below
  <2>4. K \in SUBSET (below \cup {m})
      BY <2>3
  <2>5. IsFiniteSet(below) /\ Cardinality(below) \in Nat
      BY <2>2, <1>2, FS_Subset, FS_CardinalityType
  <2>6. /\ IsFiniteSet(below \cup {m})
        /\ Cardinality(below \cup {m}) = IF m \in below THEN Cardinality(below)
                                         ELSE Cardinality(below) + 1
      BY <2>5, FS_AddElement
  <2>7. Cardinality(K) <= Cardinality(below \cup {m}) /\ Cardinality(K) \in Nat
      BY <2>4, <2>6, <1>2, FS_Subset, FS_CardinalityType
  <2> QED
      BY <2>2, <2>5, <2>6, <2>7, <1>2
<1> QED
    BY <1>3, <1>4

\* A new payload has no more items than one request may have.
LEMMA SmallNext ==
    ASSUME OutboxInv, SmallPayloads, [Next]_vars
    PROVE  SmallPayloads'
<1>1. TypeOK /\ MaxItems \in Nat
    BY OutboxAssumption DEF OutboxInv, TableInv
<1>2. ASSUME NEW p \in Proc, NEW new, todo' = [todo EXCEPT ![p] = new],
             \A items \in new : Cardinality(items) <= MaxItems
      PROVE  SmallPayloads'
    BY <1>1, <1>2 DEF TypeOK, SmallPayloads
<1>3. ASSUME NEW p \in Proc, SelectDirtyRollups(p)
      PROVE  SmallPayloads'
  <2> DEFINE f == [r \in first_dirty |-> item(r)]
  <2>1. {f[r] : r \in first_dirty} = {item(r) : r \in first_dirty}
      OBVIOUS
  <2> HIDE DEF f
  <2>2. /\ Cardinality({item(r) : r \in first_dirty}) <= Cardinality(first_dirty)
        /\ IsFiniteSet({item(r) : r \in first_dirty})
      BY <2>1, FirstDirty, Image
  <2>3. Cardinality({item(r) : r \in first_dirty}) <= MaxItems
      BY <2>2, <1>1, FirstDirty, FS_CardinalityType
  <2> PICK new : new = IF first_dirty = {} THEN {} ELSE {{item(r) : r \in first_dirty}}
      OBVIOUS
  <2>4. \A items \in new : Cardinality(items) <= MaxItems
      BY <2>3
  <2>5. todo' = [todo EXCEPT ![p] = new]
      BY <1>3 DEF SelectDirtyRollups
  <2> QED
      BY <2>4, <2>5, <1>2
<1>4. ASSUME NEW p \in Proc, SelectDirtySubscriptions(p)
      PROVE  SmallPayloads'
  <2>1. PICK subs \in SUBSET dirty_rows(Sub) :
            Cardinality(subs) <= MaxItems /\ todo' = [todo EXCEPT ![p] = {{item(s)} : s \in subs}]
      BY <1>4 DEF SelectDirtySubscriptions
  <2>2. ASSUME NEW s \in subs
        PROVE  Cardinality({item(s)}) <= MaxItems
    <3>1. IsFiniteSet(subs)
        BY OutboxAssumption, FS_Subset DEF dirty_rows
    <3>2. Cardinality(subs) # 0 /\ Cardinality(subs) \in Nat
        BY <3>1, FS_EmptySet, FS_CardinalityType
    <3>3. Cardinality({item(s)}) = 1
        BY FS_Singleton
    <3> QED
        BY <3>2, <3>3, <2>1, <1>1
  <2>3. \A items \in {{item(s)} : s \in subs} : Cardinality(items) <= MaxItems
      BY <2>2
  <2> QED
      BY <2>1, <2>3, <1>2
<1>5. ASSUME NEW p \in Proc, Insert(p)
      PROVE  SmallPayloads'
  <2>1. PICK items : todo' = [todo EXCEPT ![p] = @ \ {items}]
      BY <1>5 DEF Insert
  <2> QED
      BY <2>1, <1>1 DEF TypeOK, SmallPayloads
<1>6. ASSUME NEW p \in Proc, Crash(p)
      PROVE  SmallPayloads'
    BY <1>6, <1>2 DEF Crash
<1>7. ASSUME todo' = todo
      PROVE  SmallPayloads'
    BY <1>7 DEF SmallPayloads
<1>8. ASSUME NEW p \in Proc,
             \/ Start(p) \/ Enqueue(p) \/ Trim(p) \/ StartDrain(p) \/ FetchPending(p) \/ Upload(p)
             \/ UploadFails(p) \/ MarkPayloadUploaded(p) \/ MarkOutboxSynced(p)
             \/ IncrementOutboxRetry(p) \/ EndDrain(p) \/ Offline(p)
      PROVE  todo' = todo
    BY <1>8 DEF Start, Enqueue, Trim, StartDrain, FetchPending, Upload, UploadFails,
                MarkPayloadUploaded, MarkOutboxSynced, IncrementOutboxRetry, EndDrain, Offline
<1>9. ASSUME NEW p, NEW found, NEW place, UpsertSubscriptions(p, found, place)
      PROVE  todo' = todo
    BY <1>9 DEF UpsertSubscriptions
<1>10. ASSUME NEW p, NEW r, NEW v, ScanRollup(p, r, v)
       PROVE  todo' = todo
    BY <1>10 DEF ScanRollup, proc_vars
<1>11. ASSUME OrphanArrives \/ Tick \/ UNCHANGED vars
       PROVE  todo' = todo
    BY <1>11 DEF OrphanArrives, Tick, vars, proc_vars
<1> QED
    BY <1>3, <1>4, <1>5, <1>6, <1>7, <1>8, <1>9, <1>10, <1>11 DEF Next, Sync

LEMMA CapsNext ==
    ASSUME OutboxInv, OutboxInv', OutboxIsBounded, SmallPayloads, [Next]_vars
    PROVE  OutboxIsBounded'
<1>1. TypeOK /\ TypeOK'
    BY DEF OutboxInv, TableInv
<1>2. ASSUME NEW p \in Proc,
             \/ Enqueue(p) \/ Trim(p) \/ StartDrain(p) \/ EndDrain(p) \/ Offline(p)
      PROVE  OutboxIsBounded'
    BY <1>2, CapsCleanup DEF Enqueue, Trim, StartDrain, EndDrain, Offline
<1> DEFINE Fewer == outbox' \subseteq outbox
           Places == crashes' = crashes
                     /\ \A p \in Proc : pc[p] \in DOMAIN trimming => pc'[p] = pc[p]
<1>3. ASSUME NEW p \in Proc,
             \/ Start(p) \/ SelectDirtyRollups(p) \/ SelectDirtySubscriptions(p)
             \/ FetchPending(p) \/ Upload(p) \/ UploadFails(p)
      PROVE  Fewer /\ Places
  <2>1. crashes' = crashes /\ outbox' = outbox
      BY <1>3 DEF Start, SelectDirtyRollups, SelectDirtySubscriptions, FetchPending, Upload,
                  UploadFails, bound_vars
  <2>2. \E place : pc[p] \notin DOMAIN trimming /\ pc' = [pc EXCEPT ![p] = place]
      BY <1>3 DEF Start, SelectDirtyRollups, SelectDirtySubscriptions, FetchPending, Upload,
                  UploadFails, sends, goto, trimming
  <2> QED
      BY <2>1, <2>2, <1>1 DEF TypeOK
<1>4. ASSUME NEW p \in Proc, MarkOutboxSynced(p)
      PROVE  Fewer /\ Places
    BY <1>1, <1>4 DEF MarkOutboxSynced, delete_row, next_item, goto, bound_vars, trimming, TypeOK
<1>5. ASSUME NEW p \in Proc, MarkPayloadUploaded(p)
      PROVE  Fewer /\ Places
    BY <1>5 DEF MarkPayloadUploaded, bound_vars
<1>6. ASSUME NEW p \in Proc, NEW found, NEW place, UpsertSubscriptions(p, found, place)
      PROVE  Fewer /\ Places
    BY <1>1, <1>6 DEF UpsertSubscriptions, goto, bound_vars, trimming, TypeOK
<1>7. ASSUME NEW p, NEW r, NEW v, ScanRollup(p, r, v)
      PROVE  Fewer /\ Places
    BY <1>7 DEF ScanRollup, proc_vars, bound_vars
<1>8. ASSUME OrphanArrives \/ Tick \/ UNCHANGED vars
      PROVE  Fewer /\ Places
    BY <1>8 DEF OrphanArrives, Tick, vars, proc_vars, bound_vars
<1>9. ASSUME Fewer
      PROVE  Cardinality(outbox') <= Cardinality(outbox) /\ weight(outbox') <= weight(outbox)
  <2>1. IsFiniteSet(outbox) /\ \A e \in outbox : IsFiniteSet(e.items)
      BY PayloadOf DEF OutboxInv, TableInv, RowsDistinct, SyncInv, PayloadsSound
  <2> QED
      BY <2>1, <1>9, PartIsSmaller
<1>10. Places => untrimmed <= untrimmed'
    BY <1>1, UntrimmedStays
<1>11. ASSUME NEW p \in Proc, IncrementOutboxRetry(p)
       PROVE  OutboxIsBounded'
  <2>1. Places
      BY <1>1, <1>11 DEF IncrementOutboxRetry, next_item, goto, bound_vars, trimming, TypeOK
  <2> QED
      BY <2>1, <1>10, <1>11, IncrementWeight, CapsSmaller
<1>12. ASSUME NEW p \in Proc, Crash(p)
       PROVE  OutboxIsBounded'
  <2>1. Fewer
      BY <1>12 DEF Crash
  <2>2. untrimmed <= untrimmed'
      BY <1>1, <1>12, UntrimmedCrash
  <2> HIDE DEF Fewer
  <2> QED
      BY <2>1, <2>2, <1>9, CapsSmaller
<1> HIDE DEF Fewer, Places
<1>13. Fewer /\ Places => OutboxIsBounded'
    BY <1>9, <1>10, CapsSmaller
<1>14. ASSUME NEW p \in Proc, Insert(p)
       PROVE  OutboxIsBounded'
    BY <1>14, CapsInsert
<1> QED
    BY <1>2, <1>3, <1>4, <1>5, <1>6, <1>7, <1>8, <1>11, <1>12, <1>13, <1>14 DEF Next, Sync

(* The caps of the outbox hold in every state, but for a payload of every  *)
(* process between its insertion and its cleanup and of every one that was *)
(* killed there: nothing else keeps a row above them.                      *)
THEOREM OutboxStaysBounded == Spec => []OutboxIsBounded
<1>1. Init => OutboxIsBounded /\ SmallPayloads
    BY CapsInit
<1>2. OutboxInv /\ OutboxInv' /\ OutboxIsBounded /\ SmallPayloads /\ [Next]_vars
          => OutboxIsBounded' /\ SmallPayloads'
    BY CapsNext, SmallNext
<1> QED
    BY <1>1, <1>2, OutboxInvariant, PTL DEF Spec

-----------------------------------------------------------------------------
(* Snapshots.  The value of a snapshot is its stamp; its flag is cleared   *)
(* by any upload of it, so that the outbox has to remember the newest one. *)

stamp(s) == IF row[s].val = None THEN 0 ELSE row[s].val

(* The server has the newest snapshot it was sent, unless an older one     *)
(* came after it, and no payload has one that is newer than the row.       *)
StampInv ==
    /\ \A s \in Sub :
        /\ row[s].val \in {None} \cup 1 .. changes
        /\ row[s].dirty => row[s].at = row[s].val
        /\ high[s] <= stamp(s)
        /\ s \notin overtaken => server[s] = IF high[s] = 0 THEN None ELSE high[s]
    /\ \A items \in payloads : \A i \in items :
        i.row \in Sub => i.at = i.val /\ i.at <= stamp(i.row)

\* Where an item of a payload comes from: a payload of before, or a dirty row.
Origin(i) == (\E whole \in payloads : i \in whole) \/ (\E r \in Row : row[r].dirty /\ i = item(r))

LEMMA OriginNext ==
    ASSUME \A p \in Proc : \A items \in todo'[p] : \A i \in items : Origin(i),
           \A e \in outbox' : \A i \in e.items : Origin(i),
           \A p \in Proc : \A e \in queue'[p] : \A i \in e.items : Origin(i),
           \A items \in orphans' : \A i \in items : Origin(i)
    PROVE  \A items \in payloads' : \A i \in items : Origin(i)
<1> QED
    BY PayloadIsNext

LEMMA SubIs == Sub \subseteq Row /\ MaxChanges \in Nat /\ None \notin 1 .. MaxChanges
<1> QED
    BY OutboxAssumption DEF Row

\* Steps that change no snapshot but its flag.
LEMMA StampQuiet ==
    ASSUME OutboxInv, StampInv, UNCHANGED server_vars, changes' \in Nat, changes <= changes',
           \A s \in Sub : row'[s].val = row[s].val /\ (row'[s].dirty => row'[s] = row[s]),
           \A items \in payloads' : \A i \in items : Origin(i)
    PROVE  StampInv'
<1>1. TypeOK
    BY DEF OutboxInv, TableInv
<1>2. \A s \in Sub : stamp(s)' = stamp(s)
    BY DEF stamp
<1>3. changes \in Nat
    BY <1>1, OutboxAssumption DEF TypeOK
<1>4. ASSUME NEW s \in Sub
      PROVE  /\ row'[s].val \in {None} \cup 1 .. changes'
             /\ row'[s].dirty => row'[s].at = row'[s].val
             /\ high'[s] <= stamp(s)'
             /\ s \notin overtaken' => server'[s] = IF high'[s] = 0 THEN None ELSE high'[s]
  <2>1. row'[s].val \in {None} \cup 1 .. changes'
      BY <1>3 DEF StampInv
  <2> QED
      BY <1>2, <2>1 DEF StampInv, server_vars
<1>5. ASSUME NEW items \in payloads', NEW i \in items, i.row \in Sub
      PROVE  i.at = i.val /\ i.at <= stamp(i.row)'
  <2>1. CASE \E whole \in payloads : i \in whole
      BY <1>2, <1>5, <2>1 DEF StampInv
  <2>2. CASE \E r \in Row : row[r].dirty /\ i = item(r)
    <3>1. row[i.row].dirty /\ i.val = row[i.row].val /\ i.at = row[i.row].at
        BY <2>2 DEF item
    <3>2. i.at = i.val /\ i.val # None
      <4>1. row[i.row].val \in Version
          BY <1>5, <3>1 DEF OutboxInv, TableInv, SnapshotsSound
      <4>2. None \notin Version
          BY OutboxAssumption DEF Version
      <4> QED
          BY <1>5, <3>1, <4>1, <4>2 DEF StampInv
    <3>3. stamp(i.row) = i.at /\ i.at \in 1 .. changes
        BY <1>5, <3>1, <3>2 DEF StampInv, stamp
    <3> QED
        BY <1>2, <1>3, <1>5, <3>2, <3>3
  <2> QED
      BY <1>5, <2>1, <2>2 DEF Origin
<1> QED
    BY <1>4, <1>5 DEF StampInv

\* A request.
LEMMA StampRequest ==
    ASSUME OutboxInv, StampInv, NEW request \in payloads, upsert(request), row' = row, changes' = changes,
           \A items \in payloads' : \A i \in items : \E whole \in payloads : i \in whole
    PROVE  /\ StampInv'
           /\ \A r \in Row : high[r] <= high'[r]
           /\ \A i \in request : i.at <= high'[i.row]
<1>1. TypeOK
    BY DEF OutboxInv, TableInv
<1>2. request \in SUBSET Item /\ \A i, j \in request : i.row = j.row => i = j
    BY <1>1, PayloadTyped DEF OutboxInv, SyncInv, PayloadsSound
<1>3. /\ \A i \in request :
            /\ server'[i.row] = i.val
            /\ high'[i.row] = IF high[i.row] >= i.at THEN high[i.row] ELSE i.at
            /\ i.row \in overtaken' <=> i.at < high[i.row]
      /\ \A r \in Row : (\A i \in request : i.row # r) =>
            /\ server'[r] = server[r] /\ high'[r] = high[r]
            /\ r \in overtaken' <=> r \in overtaken
    BY <1>1, <1>2, Upserted
<1>4. \A i \in request : i.row \in Row /\ i.at \in Nat /\ i.at # 0
    BY <1>2, ItemFields
<1>5. \A r \in Row : high[r] \in Nat
    BY <1>1, RowFields
<1>6. \A s \in Sub : stamp(s)' = stamp(s) /\ stamp(s) \in Nat
    BY DEF stamp, StampInv
<1>7. ASSUME NEW s \in Sub
      PROVE  /\ high'[s] <= stamp(s)'
             /\ s \notin overtaken' => server'[s] = IF high'[s] = 0 THEN None ELSE high'[s]
  <2>1. CASE \E i \in request : i.row = s
    <3>1. PICK i \in request : i.row = s
        BY <2>1
    <3>2. i.at = i.val /\ i.at <= stamp(s) /\ high[s] <= stamp(s)
        BY <3>1 DEF StampInv
    <3> QED
        BY <1>3, <1>4, <1>5, <1>6, <3>1, <3>2
  <2>2. CASE \A i \in request : i.row # s
    <3>1. server'[s] = server[s] /\ high'[s] = high[s] /\ (s \in overtaken' <=> s \in overtaken)
        BY <1>3, <2>2, SubIs
    <3> QED
        BY <1>6, <3>1 DEF StampInv
  <2> QED
      BY <2>1, <2>2
<1>8. \A items \in payloads' : \A i \in items : i.row \in Sub => i.at = i.val /\ i.at <= stamp(i.row)'
    BY <1>6 DEF StampInv
<1>9. StampInv'
    BY <1>7, <1>8 DEF StampInv
<1>10. \A i \in request : i.at <= high'[i.row]
    BY <1>3, <1>4, <1>5
<1>11. ASSUME NEW r \in Row
       PROVE  high[r] <= high'[r]
  <2>1. CASE \E i \in request : i.row = r
      BY <1>3, <1>4, <1>5, <2>1
  <2>2. CASE \A i \in request : i.row # r
      BY <1>3, <1>5, <2>2
  <2> QED
      BY <2>1, <2>2
<1> QED
    BY <1>9, <1>10, <1>11

\* New snapshots.
LEMMA StampUpsertSubscriptions ==
    ASSUME OutboxInv, StampInv, NEW p \in Proc, NEW found \in SUBSET Sub, NEW place,
           UpsertSubscriptions(p, found, place)
    PROVE  StampInv'
<1>1. TypeOK
    BY DEF OutboxInv, TableInv
<1>2. /\ row' = [r \in Row |-> IF r \in found
                               THEN [val |-> changes', at |-> changes', dirty |-> TRUE]
                               ELSE row[r]]
      /\ UNCHANGED <<todo, queue, outbox, orphans>> /\ UNCHANGED server_vars
      /\ changes' = IF found = {} THEN changes ELSE changes + 1
      /\ found # {} => changes < MaxChanges
    BY DEF UpsertSubscriptions, change
<1>3. payloads' = payloads
    BY <1>2, PayloadsSame
<1>4. changes \in Nat /\ changes <= MaxChanges
    BY <1>1, SubIs DEF TypeOK
<1>5. ASSUME NEW s \in Sub
      PROVE  /\ row'[s].val \in {None} \cup 1 .. changes'
             /\ row'[s].dirty => row'[s].at = row'[s].val
             /\ stamp(s) <= stamp(s)' /\ stamp(s) \in Nat /\ stamp(s)' \in Nat
  <2>1. s \in Row /\ row[s].val \in {None} \cup 1 .. changes
      BY SubIs DEF StampInv
  <2>2. CASE s \in found
    <3>1. changes' = changes + 1 /\ changes' # None
        BY <1>2, <1>4, <2>2, SubIs
    <3>2. row'[s].val = changes' /\ row'[s].at = changes'
        BY <1>2, <2>1, <2>2
    <3>3. stamp(s)' = changes'
        BY <3>1, <3>2 DEF stamp
    <3>4. stamp(s) \in 0 .. changes
        BY <1>4, <2>1 DEF stamp
    <3> QED
        BY <1>4, <3>1, <3>2, <3>3, <3>4
  <2>3. CASE s \notin found
    <3>1. row'[s] = row[s]
        BY <1>2, <2>1, <2>3
    <3>2. stamp(s)' = stamp(s)
        BY <3>1 DEF stamp
    <3>3. stamp(s) \in Nat
        BY <1>4, <2>1 DEF stamp
    <3> QED
        BY <1>2, <1>4, <2>1, <3>1, <3>2, <3>3 DEF StampInv
  <2> QED
      BY <2>2, <2>3
<1>6. ASSUME NEW s \in Sub
      PROVE  /\ high'[s] <= stamp(s)'
             /\ s \notin overtaken' => server'[s] = IF high'[s] = 0 THEN None ELSE high'[s]
  <2>1. high[s] \in Nat /\ high[s] <= stamp(s)
      BY <1>1, RowFields, SubIs DEF StampInv
  <2> QED
      BY <1>2, <1>5, <2>1 DEF StampInv, server_vars
<1>7. ASSUME NEW items \in payloads', NEW i \in items, i.row \in Sub
      PROVE  i.at = i.val /\ i.at <= stamp(i.row)'
  <2>1. i.at = i.val /\ i.at <= stamp(i.row)
      BY <1>3, <1>7 DEF StampInv
  <2>2. i.at \in Nat
      BY <1>1, <1>3, PayloadTyped, ItemFields
  <2> QED
      BY <1>5, <1>7, <2>1, <2>2
<1> QED
    BY <1>5, <1>6, <1>7 DEF StampInv

LEMMA StampInit == Init => StampInv
<1> SUFFICES ASSUME Init PROVE StampInv
    OBVIOUS
<1>1. /\ \A s \in Sub : row[s] = absent /\ high[s] = 0 /\ server[s] = None
      /\ \A p \in Proc : todo[p] = {} /\ queue[p] = {}
      /\ outbox = {} /\ orphans = {}
    BY SubIs DEF Init
<1>2. payloads = {}
    BY <1>1, PayloadIs
<1>3. \A s \in Sub : stamp(s) = 0
    BY <1>1 DEF stamp, absent
<1> QED
    BY <1>1, <1>2, <1>3 DEF StampInv, absent

LEMMA OldOrigin ==
    /\ \A p \in Proc : \A items \in todo[p] : \A i \in items : Origin(i)
    /\ \A e \in outbox : \A i \in e.items : Origin(i)
    /\ \A p \in Proc : \A e \in queue[p] : \A i \in e.items : Origin(i)
    /\ \A items \in orphans : \A i \in items : Origin(i)
<1> QED
    BY PayloadOf DEF Origin

\* The items of a step's payloads have an origin.
LEMMA Origins ==
    ASSUME OutboxInv, Next
    PROVE  \A items \in payloads' : \A i \in items : Origin(i)
<1>1. TypeOK /\ TableInv
    BY DEF OutboxInv, TableInv
<1>2. ASSUME UNCHANGED <<todo, queue, orphans>>, outbox' \subseteq outbox
      PROVE  \A items \in payloads' : \A i \in items : Origin(i)
    BY <1>2, OldOrigin, OriginNext
<1>3. ASSUME NEW p \in Proc, Enqueue(p) \/ Trim(p) \/ StartDrain(p) \/ Offline(p) \/ EndDrain(p)
      PROVE  \A items \in payloads' : \A i \in items : Origin(i)
    BY <1>2, <1>3, CleanupKeeps DEF Enqueue, Trim, StartDrain, Offline, EndDrain
<1>4. ASSUME NEW p \in Proc, Start(p) \/ Upload(p) \/ UploadFails(p)
      PROVE  \A items \in payloads' : \A i \in items : Origin(i)
    BY <1>2, <1>4 DEF Start, Upload, UploadFails
<1>5. ASSUME NEW p \in Proc,
             \/ \E r \in Rollup, v \in Value \cup {None} : ScanRollup(p, r, v)
             \/ \E found \in SUBSET Sub : \E place : UpsertSubscriptions(p, found, place)
      PROVE  \A items \in payloads' : \A i \in items : Origin(i)
    BY <1>2, <1>5 DEF ScanRollup, UpsertSubscriptions, proc_vars
<1>6. ASSUME Tick
      PROVE  \A items \in payloads' : \A i \in items : Origin(i)
    BY <1>2, <1>6 DEF Tick, proc_vars
<1>7. ASSUME NEW p \in Proc, SelectDirtyRollups(p) \/ SelectDirtySubscriptions(p)
      PROVE  \A items \in payloads' : \A i \in items : Origin(i)
  <2>1. \E new \in SUBSET SUBSET {item(r) : r \in dirty_rows(Row)} : todo' = [todo EXCEPT ![p] = new]
    <3>1. CASE SelectDirtyRollups(p)
      <4>1. PICK new : /\ new = IF first_dirty = {} THEN {} ELSE {{item(r) : r \in first_dirty}}
                       /\ todo' = [todo EXCEPT ![p] = new]
          BY <3>1 DEF SelectDirtyRollups
      <4>2. first_dirty \subseteq dirty_rows(Row)
          BY DEF first_dirty, dirty_rows, Row
      <4>3. new \in SUBSET SUBSET {item(r) : r \in dirty_rows(Row)}
          BY <4>1, <4>2
      <4> QED
          BY <4>1, <4>3
    <3>2. CASE SelectDirtySubscriptions(p)
      <4>1. PICK subs \in SUBSET dirty_rows(Sub) : todo' = [todo EXCEPT ![p] = {{item(s)} : s \in subs}]
          BY <3>2 DEF SelectDirtySubscriptions
      <4>2. subs \subseteq dirty_rows(Row)
          BY DEF dirty_rows, Row
      <4>3. {{item(s)} : s \in subs} \in SUBSET SUBSET {item(r) : r \in dirty_rows(Row)}
          BY <4>2
      <4> QED
          BY <4>1, <4>3
    <3> QED
        BY <1>7, <3>1, <3>2
  <2>2. PICK new \in SUBSET SUBSET {item(r) : r \in dirty_rows(Row)} : todo' = [todo EXCEPT ![p] = new]
      BY <2>1
  <2>3. UNCHANGED <<queue, outbox, orphans>>
      BY <1>7 DEF SelectDirtyRollups, SelectDirtySubscriptions
  <2>4. \A q \in Proc : \A items \in todo'[q] : items \in todo[q] \/ items \in new
      BY <1>1, <2>2 DEF TypeOK
  <2>5. \A items \in new : \A i \in items : Origin(i)
      BY DEF Origin, dirty_rows
  <2> QED
      BY <2>3, <2>4, <2>5, OldOrigin, OriginNext
<1>8. ASSUME NEW p \in Proc, Insert(p)
      PROVE  \A items \in payloads' : \A i \in items : Origin(i)
  <2>1. PICK items \in todo[p] : insert_or_ignore(items) /\ todo' = [todo EXCEPT ![p] = @ \ {items}]
      BY <1>8 DEF Insert
  <2>2. UNCHANGED <<queue, orphans>> /\ \A q \in Proc : todo'[q] \subseteq todo[q]
      BY <1>1, <1>8, <2>1 DEF Insert, TypeOK
  <2>3. \A e \in outbox' : e \in outbox \/ e.items = items
      BY <2>1 DEF insert_or_ignore
  <2> QED
      BY <2>2, <2>3, OldOrigin, OriginNext
<1>9. ASSUME NEW p \in Proc, FetchPending(p)
      PROVE  \A items \in payloads' : \A i \in items : Origin(i)
  <2>1. outbox' = outbox /\ queue'[p] \subseteq outbox
      BY <1>1, <1>9, FetchTables
  <2>2. UNCHANGED <<todo, orphans>> /\ \A q \in Proc : q # p => queue'[q] = queue[q]
      BY <1>1, <1>9 DEF FetchPending, TypeOK
  <2> QED
      BY <2>1, <2>2, OldOrigin, OriginNext
<1>10. ASSUME NEW p \in Proc, MarkPayloadUploaded(p)
       PROVE  \A items \in payloads' : \A i \in items : Origin(i)
  <2>1. PICK m : queue' = [queue EXCEPT ![p] = (@ \ {head(p)}) \cup {[head(p) EXCEPT !.items = @ \ {m}]}]
      BY <1>10 DEF MarkPayloadUploaded
  <2>2. UNCHANGED <<todo, outbox, orphans>> /\ pc[p] = "mark"
      BY <1>10 DEF MarkPayloadUploaded
  <2>3. \A items \in payloads' : \E whole \in payloads : items \subseteq whole
      BY <1>1, <2>1, <2>2, MarkedPayloads
  <2> QED
      BY <2>3 DEF Origin
<1>11. ASSUME NEW p \in Proc, MarkOutboxSynced(p) \/ IncrementOutboxRetry(p)
       PROVE  \A items \in payloads' : \A i \in items : Origin(i)
  <2>1. UNCHANGED <<todo, orphans>> /\ \A q \in Proc : queue'[q] \subseteq queue[q]
      BY <1>1, <1>11 DEF MarkOutboxSynced, IncrementOutboxRetry, next_item, TypeOK
  <2>2. \A e \in outbox' : \E f \in outbox : e.items = f.items
    <3>1. CASE MarkOutboxSynced(p)
        BY <3>1 DEF MarkOutboxSynced, delete_row
    <3>2. CASE IncrementOutboxRetry(p)
      <4>1. \A e \in outbox : [e EXCEPT !.retry = @ + 1].items = e.items
          BY <1>1 DEF TypeOK, Payload
      <4> QED
          BY <3>2, <4>1 DEF IncrementOutboxRetry
    <3> QED
        BY <1>11, <3>1, <3>2
  <2> QED
      BY <2>1, <2>2, OldOrigin, OriginNext
<1>12. ASSUME NEW p \in Proc, Crash(p)
       PROVE  \A items \in payloads' : \A i \in items : Origin(i)
  <2>1. outbox' = outbox /\ \A q \in Proc : todo'[q] \subseteq todo[q] /\ queue'[q] \subseteq queue[q]
      BY <1>1, <1>12 DEF Crash, TypeOK
  <2>2. \A items \in orphans' : items \in orphans \/ (queue[p] # {} /\ items = head(p).items)
      BY <1>12 DEF Crash, sends
  <2>3. queue[p] # {} => head(p) \in queue[p]
      BY <1>1, HasHead
  <2> QED
      BY <2>1, <2>2, <2>3, OldOrigin, OriginNext
<1>13. ASSUME OrphanArrives
       PROVE  \A items \in payloads' : \A i \in items : Origin(i)
  <2>1. UNCHANGED <<todo, queue, outbox>> /\ orphans' \subseteq orphans
      BY <1>13 DEF OrphanArrives, proc_vars
  <2> QED
      BY <2>1, OldOrigin, OriginNext
<1> QED
    BY <1>3, <1>4, <1>5, <1>6, <1>7, <1>8, <1>9, <1>10, <1>11, <1>12, <1>13 DEF Next, Sync

LEMMA StampNext ==
    ASSUME OutboxInv, StampInv, Next
    PROVE  StampInv'
<1>1. TypeOK /\ TableInv /\ changes \in Nat
    BY OutboxAssumption DEF OutboxInv, TableInv, TypeOK
<1>2. ASSUME UNCHANGED <<row, changes>>, UNCHANGED server_vars
      PROVE  StampInv'
    BY <1>1, <1>2, Origins, StampQuiet
<1>3. ASSUME NEW p \in Proc,
             \/ Enqueue(p) \/ Trim(p) \/ StartDrain(p) \/ Offline(p) \/ EndDrain(p) \/ Start(p)
             \/ SelectDirtyRollups(p) \/ SelectDirtySubscriptions(p) \/ Insert(p) \/ FetchPending(p)
             \/ MarkOutboxSynced(p) \/ IncrementOutboxRetry(p) \/ Crash(p)
      PROVE  StampInv'
    BY <1>2, <1>3 DEF Enqueue, Trim, StartDrain, Offline, EndDrain, Start, SelectDirtyRollups,
       SelectDirtySubscriptions, Insert, FetchPending, MarkOutboxSynced, IncrementOutboxRetry, Crash,
       local_vars
<1>4. ASSUME Tick PROVE StampInv'
    BY <1>2, <1>4 DEF Tick
<1>5. ASSUME NEW p \in Proc, NEW r \in Rollup, NEW v, ScanRollup(p, r, v)
      PROVE  StampInv'
  <2>1. \A s \in Sub : row'[s] = row[s]
      BY <1>1, <1>5, SubIs, OutboxAssumption DEF ScanRollup, TypeOK
  <2>2. UNCHANGED server_vars /\ changes' = changes + 1
      BY <1>5 DEF ScanRollup, change
  <2> QED
      BY <1>1, <2>1, <2>2, Origins, StampQuiet
<1>6. ASSUME NEW p \in Proc, MarkPayloadUploaded(p) PROVE StampInv'
  <2>1. UNCHANGED server_vars /\ changes' = changes
      BY <1>6 DEF MarkPayloadUploaded
  <2>2. \E i : row' = [r \in Row |-> IF r = i.row /\ acked(i)
                                     THEN [row[r] EXCEPT !.dirty = FALSE, !.at = 0] ELSE row[r]]
      BY <1>6 DEF MarkPayloadUploaded
  <2>3. \A r \in Row : LET x == [row[r] EXCEPT !.dirty = FALSE, !.at = 0]
                        IN  x.val = row[r].val /\ ~x.dirty
      BY <1>1 DEF TypeOK
  <2>4. \A s \in Sub : row'[s].val = row[s].val /\ (row'[s].dirty => row'[s] = row[s])
      BY <2>2, <2>3, SubIs
  <2> QED
      BY <1>1, <2>1, <2>4, Origins, StampQuiet
<1>7. ASSUME NEW p \in Proc, Upload(p) \/ UploadFails(p) PROVE StampInv'
  <2>1. /\ UNCHANGED server_vars \/ upsert(head(p).items)
        /\ UNCHANGED <<row, changes, todo, queue, outbox, orphans>> /\ queue[p] # {}
      BY <1>7 DEF Upload, UploadFails, local_vars, sends
  <2>2. head(p).items \in payloads /\ payloads' = payloads
      BY <1>1, <2>1, HasHead, PayloadOf, PayloadsSame
  <2> QED
      BY <1>2, <2>1, <2>2, StampRequest
<1>8. ASSUME OrphanArrives PROVE StampInv'
  <2>1. PICK items \in orphans : upsert(items) /\ orphans' = orphans \ {items}
      BY <1>8 DEF OrphanArrives
  <2>2. UNCHANGED <<row, changes, todo, queue, outbox>>
      BY <1>8 DEF OrphanArrives, local_vars, proc_vars
  <2>3. payloads' \subseteq payloads /\ items \in payloads
      BY <2>1, <2>2, PayloadOf, PayloadsMove
  <2> QED
      BY <2>1, <2>2, <2>3, StampRequest
<1> QED
    BY <1>3, <1>4, <1>5, <1>6, <1>7, <1>8, StampUpsertSubscriptions DEF Next, Sync

\* One process at a time works on the database.
AloneIsWorking == \A p, q \in Proc : pc[p] # "idle" /\ pc[q] # "idle" => p = q

\* No row falls to a cap or expires.
NothingCut == cleanup_usage_outbox(outbox) = {e \in outbox : e.retry < MaxRetry}

\* The newest snapshot is in the outbox, or the server was sent it.
sent(s) == row[s].val \in pending_vals(s) \/ high[s] = stamp(s)
planned_for(p, s) == \E items \in todo[p] : \E i \in items : i.row = s /\ i.val = row[s].val

Retried == \A e \in outbox : e.retry <= fails

Waits == fails < MaxRetry => \A s \in Sub : ~row[s].dirty => sent(s)

(* What a process sends is what the outbox has under that id; it deletes   *)
(* what the server was sent, and has put every dirty snapshot into the     *)
(* outbox before.                                                          *)
Busy(p) ==
    /\ pc[p] \notin {"drain", "mark", "retry"} => queue[p] = {}
    /\ \A f \in queue[p] : \A e \in outbox :
          f.id = e.id => f.items = e.items \/ (pc[p] = "mark" /\ f = head(p))
    /\ pc[p] = "mark" => \A e \in outbox : e.id = head(p).id =>
                           \A i \in e.items : i.row \in Sub => i.at <= high[i.row]
    /\ pc[p] = "retry" => \A e \in outbox : e.id = head(p).id => e.retry < fails
    /\ fails < MaxRetry => \A s \in Sub :
          /\ pc[p] \in {"put_subscriptions", "insert_subscriptions", "trim_subscriptions"}
                => sent(s) \/ planned_for(p, s)
          /\ pc[p] \in {"fetch", "drain", "mark", "retry"} => sent(s)

AloneInv == StampInv /\ Retried /\ Waits /\ \A p \in Proc : Busy(p)

LEMMA PendingIs ==
    ASSUME NEW s, NEW v
    PROVE  v \in pending_vals(s) <=> \E e \in outbox : \E i \in e.items : i.row = s /\ i.val = v
<1> QED
    BY DEF pending_vals

LEMMA PendingIsNext ==
    ASSUME NEW s, NEW v
    PROVE  v \in pending_vals(s)' <=> \E e \in outbox' : \E i \in e.items : i.row = s /\ i.val = v
<1> QED
    BY DEF pending_vals

\* What leaves the outbox was sent.
LEMMA SentStays ==
    ASSUME OutboxInv, OutboxInv', StampInv, StampInv',
           \A s \in Sub : high[s] <= high'[s],
           \A e \in outbox : \A i \in e.items : i.row \in Sub =>
               (\E f \in outbox' : i \in f.items) \/ i.at <= high'[i.row]
    PROVE  \A s \in Sub : row'[s].val = row[s].val /\ sent(s) => sent(s)'
<1> SUFFICES ASSUME NEW s \in Sub, row'[s].val = row[s].val, sent(s)
             PROVE  sent(s)'
    OBVIOUS
<1>1. stamp(s)' = stamp(s)
    BY DEF stamp
<1>2. /\ stamp(s) \in Nat /\ high[s] \in Nat /\ high'[s] \in Nat
      /\ high[s] <= stamp(s) /\ high'[s] <= stamp(s)
  <2>1. TypeOK /\ TypeOK'
      BY DEF OutboxInv, TableInv
  <2>2. high[s] \in Nat /\ high'[s] \in Nat
      BY <2>1, SubIs DEF TypeOK
  <2>3. changes \in Nat
      BY <2>1, SubIs DEF TypeOK
  <2> QED
      BY <1>1, <2>2, <2>3 DEF StampInv, stamp
<1>3. CASE high[s] = stamp(s)
    BY <1>1, <1>2, <1>3 DEF sent
<1>4. CASE row[s].val \in pending_vals(s)
  <2>0. PICK e \in outbox : \E i \in e.items : i.row = s /\ i.val = row[s].val
      BY <1>4, PendingIs
  <2>1. PICK i \in e.items : i.row = s /\ i.val = row[s].val
      BY <2>0
  <2>2. CASE \E f \in outbox' : i \in f.items
      BY <2>1, <2>2, PendingIsNext DEF sent
  <2>3. CASE i.at <= high'[s]
    <3>1. i \in Item
      <4>1. TypeOK
          BY DEF OutboxInv, TableInv
      <4>2. e.items \in payloads
          BY <2>1, PayloadOf
      <4> QED
          BY <2>1, <4>1, <4>2, PayloadTyped
    <3>2. i.at = i.val /\ i.val # None
      <4>1. None \notin Version
          BY OutboxAssumption DEF Version
      <4> QED
          BY <2>1, <3>1, <4>1, ItemFields, PayloadOf DEF StampInv
    <3>3. stamp(s) = i.at
        BY <2>1, <3>2 DEF stamp
    <3> QED
        BY <1>1, <1>2, <2>3, <3>3 DEF sent
  <2> QED
      BY <2>1, <2>2, <2>3
<1> QED
    BY <1>3, <1>4 DEF sent

\* The others rest.
LEMMA Others ==
    ASSUME OutboxInv, AloneIsWorking, AloneIsWorking', NEW p \in Proc, NEW place,
           pc' = [pc EXCEPT ![p] = place], pc[p] # "idle" \/ place # "idle"
    PROVE  /\ pc'[p] = place
           /\ \A q \in Proc : q # p => pc[q] = "idle" /\ pc'[q] = "idle"
<1>1. pc \in [Proc -> Place]
    BY DEF OutboxInv, TableInv, TypeOK
<1>2. pc'[p] = place /\ \A q \in Proc : q # p => pc'[q] = pc[q]
    BY <1>1
<1> QED
    BY <1>2 DEF AloneIsWorking

LEMMA AloneStep ==
    ASSUME OutboxInv, AloneInv, StampInv', AloneIsWorking, AloneIsWorking', NEW p \in Proc, NEW place,
           pc' = [pc EXCEPT ![p] = place], pc[p] # "idle" \/ place # "idle",
           \A q \in Proc : q # p => queue'[q] = queue[q],
           Retried', Waits', Busy(p)'
    PROVE  AloneInv'
<1>1. \A q \in Proc : q # p => pc[q] = "idle" /\ pc'[q] = "idle"
    BY Others
<1>2. \A q \in Proc : q # p => queue'[q] = {}
    BY <1>1 DEF AloneInv, Busy
<1>3. \A q \in Proc : q # p => Busy(q)'
    BY <1>1, <1>2 DEF Busy
<1> QED
    BY <1>3 DEF AloneInv

\* A cleanup deletes nothing as long as there were few failures.
LEMMA CleanupIsQuiet ==
    ASSUME OutboxInv, OutboxInv', AloneInv, StampInv', NothingCut, outbox' = cleanup_usage_outbox(outbox),
           UNCHANGED <<row, changes, fails>>, UNCHANGED server_vars
    PROVE  /\ Retried' /\ Waits' /\ outbox' \subseteq outbox
           /\ fails < MaxRetry => \A s \in Sub : sent(s) => sent(s)'
<1>1. outbox' \subseteq outbox
    BY CleanupKeeps
<1>2. ASSUME fails < MaxRetry
      PROVE  outbox' = outbox
  <2>1. \A e \in outbox : e.retry < MaxRetry
    <3>1. ASSUME NEW e \in outbox PROVE e.retry < MaxRetry
      <4>1. e.retry \in Int /\ fails \in Int /\ MaxRetry \in Int /\ e.retry <= fails
          BY OutboxAssumption, PayloadFields DEF OutboxInv, TableInv, TypeOK, AloneInv, Retried, Payload
      <4> QED
          BY <1>2, <4>1
    <3> QED
        BY <3>1
  <2> QED
      BY <2>1 DEF NothingCut
<1>3. \A s \in Sub : row'[s].val = row[s].val /\ high[s] <= high'[s]
  <2>1. \A s \in Sub : high[s] \in Nat
      BY RowFields, SubIs DEF OutboxInv, TableInv
  <2> QED
      BY <2>1 DEF server_vars
<1>4. fails < MaxRetry => \A s \in Sub : sent(s) => sent(s)'
  <2>1. fails < MaxRetry => \A e \in outbox : \A i \in e.items : \E f \in outbox' : i \in f.items
      BY <1>2
  <2> QED
      BY <1>3, <2>1, SentStays DEF AloneInv
<1>5. Retried'
    BY <1>1 DEF AloneInv, Retried
<1>6. Waits'
    BY <1>4 DEF AloneInv, Waits
<1> QED
    BY <1>1, <1>4, <1>5, <1>6

LEMMA AloneCleanup ==
    ASSUME OutboxInv, OutboxInv', AloneInv, StampInv', AloneIsWorking, AloneIsWorking', NothingCut,
           NEW p \in Proc, Enqueue(p) \/ Trim(p) \/ StartDrain(p) \/ Offline(p) \/ EndDrain(p)
    PROVE  AloneInv'
<1>1. /\ outbox' = cleanup_usage_outbox(outbox)
      /\ UNCHANGED <<row, changes, fails, todo, queue>> /\ UNCHANGED server_vars
    BY DEF Enqueue, Trim, StartDrain, Offline, EndDrain, local_vars, bound_vars
<1>2. /\ Retried' /\ Waits' /\ outbox' \subseteq outbox
      /\ fails < MaxRetry => \A s \in Sub : sent(s) => sent(s)'
    BY <1>1, CleanupIsQuiet
<1>3. Busy(p)
    BY DEF AloneInv
<1>4. \A s \in Sub : planned_for(p, s)' <=> planned_for(p, s)
    BY <1>1 DEF planned_for
<1>5. ASSUME NEW place, pc' = [pc EXCEPT ![p] = place], pc[p] # "idle",
             place \notin {"drain", "mark", "retry"}, queue[p] = {},
             fails < MaxRetry => \A s \in Sub :
                /\ place \in {"put_subscriptions", "insert_subscriptions", "trim_subscriptions"}
                      => sent(s) \/ planned_for(p, s)
                /\ place = "fetch" => sent(s)
      PROVE  AloneInv'
  <2>1. pc'[p] = place
      BY <1>5, Others
  <2>2. Busy(p)'
      BY <1>1, <1>2, <1>4, <1>5, <2>1 DEF Busy
  <2> QED
      BY <1>1, <1>2, <1>5, <2>2, AloneStep
<1>6. CASE Enqueue(p)
  <2>1. pc[p] = "put_rollups" \/ pc[p] = "put_subscriptions"
      BY <1>6 DEF Enqueue, enqueuing
  <2>2. CASE pc[p] = "put_rollups"
    <3>1. pc' = [pc EXCEPT ![p] = "insert_rollups"]
        BY <1>6, <2>2 DEF Enqueue, enqueuing, goto
    <3> QED
        BY <1>3, <1>5, <2>2, <3>1 DEF Busy
  <2>3. CASE pc[p] = "put_subscriptions"
    <3>1. pc' = [pc EXCEPT ![p] = "insert_subscriptions"]
        BY <1>6, <2>3 DEF Enqueue, enqueuing, goto
    <3> QED
        BY <1>3, <1>5, <2>3, <3>1 DEF Busy
  <2> QED
      BY <2>1, <2>2, <2>3
<1>7. CASE Trim(p)
  <2>1. pc[p] = "trim_rollups" \/ pc[p] = "trim_subscriptions"
      BY <1>7 DEF Trim, trimming
  <2>2. CASE pc[p] = "trim_rollups"
    <3>1. pc' = [pc EXCEPT ![p] = "put_rollups"]
        BY <1>7, <2>2 DEF Trim, trimming, goto
    <3> QED
        BY <1>3, <1>5, <2>2, <3>1 DEF Busy
  <2>3. CASE pc[p] = "trim_subscriptions"
    <3>1. pc' = [pc EXCEPT ![p] = "put_subscriptions"]
        BY <1>7, <2>3 DEF Trim, trimming, goto
    <3> QED
        BY <1>3, <1>5, <2>3, <3>1 DEF Busy
  <2> QED
      BY <2>1, <2>2, <2>3
<1>8. CASE StartDrain(p)
  <2>1. pc[p] = "put_subscriptions" /\ todo[p] = {} /\ pc' = [pc EXCEPT ![p] = "fetch"]
      BY <1>8 DEF StartDrain, goto
  <2>2. \A s \in Sub : ~planned_for(p, s)
      BY <2>1 DEF planned_for
  <2> QED
      BY <1>3, <1>5, <2>1, <2>2 DEF Busy
<1>9. CASE Offline(p)
  <2>1. pc[p] = "put_subscriptions" /\ pc' = [pc EXCEPT ![p] = "idle"]
      BY <1>9 DEF Offline, goto
  <2> QED
      BY <1>3, <1>5, <2>1 DEF Busy
<1>10. CASE EndDrain(p)
  <2>1. pc[p] = "drain" /\ queue[p] = {} /\ pc' = [pc EXCEPT ![p] = "idle"]
      BY <1>10 DEF EndDrain, goto
  <2> QED
      BY <1>5, <2>1
<1> QED
    BY <1>6, <1>7, <1>8, <1>9, <1>10

\* Nothing of the snapshots moves.
LEMMA Rests ==
    ASSUME AloneInv, UNCHANGED <<row, outbox, fails>>, UNCHANGED server_vars
    PROVE  Retried' /\ Waits' /\ \A s \in Sub : sent(s)' <=> sent(s)
<1>1. \A s \in Sub : sent(s)' <=> sent(s)
    BY DEF sent, stamp, pending_vals, server_vars
<1> QED
    BY <1>1 DEF AloneInv, Retried, Waits

LEMMA AloneStart ==
    ASSUME OutboxInv, AloneInv, StampInv', AloneIsWorking, AloneIsWorking', NEW p \in Proc,
           Start(p) \/ SelectDirtyRollups(p) \/ Crash(p)
    PROVE  AloneInv'
<1>1. /\ UNCHANGED <<row, outbox, fails>> /\ UNCHANGED server_vars
      /\ \A q \in Proc : q # p => queue'[q] = queue[q]
  <2>1. queue \in [Proc -> SUBSET Payload]
      BY DEF OutboxInv, TableInv, TypeOK
  <2> QED
      BY <2>1 DEF Start, SelectDirtyRollups, Crash, local_vars, bound_vars
<1>2. Retried' /\ Waits'
    BY <1>1, Rests
<1>3. PICK place \in {"idle", "scan", "put_rollups"} :
          pc' = [pc EXCEPT ![p] = place] /\ (pc[p] # "idle" \/ place # "idle")
    BY DEF Start, SelectDirtyRollups, Crash, goto
<1>4. pc'[p] = place
    BY <1>3, Others
<1>5. queue'[p] = {}
  <2>1. CASE Crash(p)
    <3>1. queue \in [Proc -> SUBSET Payload]
        BY DEF OutboxInv, TableInv, TypeOK
    <3> QED
        BY <2>1, <3>1 DEF Crash
  <2>2. CASE Start(p) \/ SelectDirtyRollups(p)
    <3>1. queue' = queue /\ pc[p] \in {"idle", "rollups"}
        BY <2>2 DEF Start, SelectDirtyRollups
    <3> QED
        BY <3>1 DEF AloneInv, Busy
  <2> QED
      BY <2>1, <2>2
<1>6. Busy(p)'
    BY <1>4, <1>5 DEF Busy
<1> QED
    BY <1>1, <1>2, <1>3, <1>6, AloneStep

LEMMA AloneUpsertSubscriptions ==
    ASSUME OutboxInv, AloneInv, StampInv', AloneIsWorking, AloneIsWorking', NEW p \in Proc,
           NEW found \in SUBSET Sub, NEW place \in {"idle", "rollups"}, UpsertSubscriptions(p, found, place)
    PROVE  AloneInv'
<1>1. /\ pc[p] = "scan" /\ pc' = [pc EXCEPT ![p] = place]
      /\ UNCHANGED <<outbox, queue, fails>> /\ UNCHANGED server_vars
      /\ row' = [r \in Row |-> IF r \in found
                               THEN [val |-> changes', at |-> changes', dirty |-> TRUE]
                               ELSE row[r]]
    BY DEF UpsertSubscriptions, goto, bound_vars
<1>2. pc'[p] = place
    BY <1>1, Others
<1>3. \A s \in Sub : ~row'[s].dirty => row'[s] = row[s]
  <2> SUFFICES ASSUME NEW s \in Sub, ~row'[s].dirty PROVE row'[s] = row[s]
      OBVIOUS
  <2>1. s \in Row
      BY SubIs
  <2>2. CASE s \in found
      BY <1>1, <2>1, <2>2
  <2>3. CASE s \notin found
      BY <1>1, <2>1, <2>3
  <2> QED
      BY <2>2, <2>3
<1>4. Retried'
    BY <1>1 DEF AloneInv, Retried
<1>5. Waits'
  <2>1. \A s \in Sub : row'[s] = row[s] /\ sent(s) => sent(s)'
      BY <1>1 DEF sent, stamp, pending_vals, server_vars
  <2> QED
      BY <1>1, <1>3, <2>1 DEF AloneInv, Waits
<1>6. Busy(p)'
    BY <1>1, <1>2 DEF AloneInv, Busy
<1> QED
    BY <1>1, <1>4, <1>5, <1>6, AloneStep

LEMMA AloneInsert ==
    ASSUME OutboxInv, OutboxInv', AloneInv, StampInv', AloneIsWorking, AloneIsWorking', NEW p \in Proc,
           Insert(p)
    PROVE  AloneInv'
<1>1. PICK items \in todo[p] : insert_or_ignore(items) /\ todo' = [todo EXCEPT ![p] = @ \ {items}]
    BY DEF Insert
<1>2. UNCHANGED <<row, queue, fails>> /\ UNCHANGED server_vars
    BY DEF Insert, local_vars, bound_vars
<1>3. /\ outbox \subseteq outbox' /\ \E e \in outbox' : e.items = items
      /\ \A e \in outbox' : e \in outbox \/ e.retry = 0
  <2>1. CASE \E x \in outbox : same_payload(x.items, items)
      BY <1>1, <2>1 DEF insert_or_ignore, same_payload
  <2>2. CASE ~\E x \in outbox : same_payload(x.items, items)
    <3> DEFINE e == [id |-> fresh_id, items |-> items, retry |-> 0, created |-> now]
    <3>1. outbox' = outbox \cup {e}
        BY <1>1, <2>2 DEF insert_or_ignore
    <3>2. e.items = items /\ e.retry = 0
        OBVIOUS
    <3> HIDE DEF e
    <3> QED
        BY <3>1, <3>2
  <2> QED
      BY <2>1, <2>2
<1>4. TypeOK /\ pc[p] \in {"insert_rollups", "insert_subscriptions"}
    BY DEF OutboxInv, TableInv, Insert, inserting
<1>5. PICK place \in {"trim_rollups", "trim_subscriptions"} :
          /\ pc' = [pc EXCEPT ![p] = place]
          /\ place = "trim_subscriptions" => pc[p] = "insert_subscriptions"
  <2>1. CASE pc[p] = "insert_rollups"
    <3>1. pc' = [pc EXCEPT ![p] = "trim_rollups"]
        BY <2>1 DEF Insert, inserting, goto
    <3> QED
        BY <3>1
  <2>2. CASE pc[p] = "insert_subscriptions"
    <3>1. pc' = [pc EXCEPT ![p] = "trim_subscriptions"]
        BY <2>2 DEF Insert, inserting, goto
    <3> QED
        BY <2>2, <3>1
  <2> QED
      BY <1>4, <2>1, <2>2
<1>6. pc'[p] = place /\ queue'[p] = {}
    BY <1>2, <1>4, <1>5, Others DEF AloneInv, Busy
<1>7. \A s \in Sub : sent(s) => sent(s)'
    BY <1>2, <1>3 DEF sent, stamp, pending_vals, server_vars
<1>8. \A s \in Sub : planned_for(p, s) => sent(s)' \/ planned_for(p, s)'
  <2> SUFFICES ASSUME NEW s \in Sub, planned_for(p, s) PROVE sent(s)' \/ planned_for(p, s)'
      OBVIOUS
  <2>1. PICK its \in todo[p] : \E i \in its : i.row = s /\ i.val = row[s].val
      BY DEF planned_for
  <2>2. CASE its = items
    <3>1. row[s].val \in pending_vals(s)'
        BY <1>3, <2>1, <2>2, PendingIsNext
    <3> QED
        BY <1>2, <3>1 DEF sent
  <2>3. CASE its # items
    <3>1. its \in todo'[p]
        BY <1>1, <1>4, <2>3 DEF TypeOK
    <3> QED
        BY <1>2, <2>1, <3>1 DEF planned_for
  <2> QED
      BY <2>2, <2>3
<1>9. Retried'
  <2>1. fails \in Nat
      BY <1>4, OutboxAssumption DEF TypeOK
  <2> QED
      BY <1>2, <1>3, <2>1 DEF AloneInv, Retried
<1>10. Waits'
    BY <1>2, <1>7 DEF AloneInv, Waits
<1>11. Busy(p)'
  <2>1. fails' < MaxRetry => \A s \in Sub : place = "trim_subscriptions" => sent(s)' \/ planned_for(p, s)'
      BY <1>2, <1>5, <1>7, <1>8 DEF AloneInv, Busy
  <2> QED
      BY <1>6, <2>1 DEF Busy
<1> QED
    BY <1>2, <1>4, <1>5, <1>9, <1>10, <1>11, AloneStep

LEMMA AloneSelectDirtySubscriptions ==
    ASSUME OutboxInv, AloneInv, StampInv', AloneIsWorking, AloneIsWorking', NEW p \in Proc,
           Cardinality(Sub) <= MaxItems, SelectDirtySubscriptions(p)
    PROVE  AloneInv'
<1>1. UNCHANGED <<row, outbox, queue, fails>> /\ UNCHANGED server_vars /\ pc[p] = "put_rollups"
      /\ pc' = [pc EXCEPT ![p] = "put_subscriptions"]
    BY DEF SelectDirtySubscriptions, local_vars, bound_vars, goto
<1>2. PICK subs \in SUBSET dirty_rows(Sub) :
          /\ subs = dirty_rows(Sub) \/ Cardinality(subs) = MaxItems
          /\ todo' = [todo EXCEPT ![p] = {{item(s)} : s \in subs}]
    BY DEF SelectDirtySubscriptions
<1>3. subs = dirty_rows(Sub)
  <2>1. subs \subseteq Sub /\ dirty_rows(Sub) \subseteq Sub /\ IsFiniteSet(Sub) /\ MaxItems \in Nat
      BY OutboxAssumption DEF dirty_rows
  <2>2. CASE Cardinality(subs) = MaxItems
    <3>1. Cardinality(subs) <= Cardinality(Sub) /\ Cardinality(Sub) \in Nat
        BY <2>1, FS_Subset, FS_CardinalityType
    <3>2. Cardinality(subs) = Cardinality(Sub)
        BY <2>1, <2>2, <3>1
    <3>3. subs = Sub
        BY <2>1, <3>2, FS_Subset
    <3> QED
        BY <2>1, <3>3
  <2> QED
      BY <1>2, <2>2
<1>4. Retried' /\ Waits' /\ \A s \in Sub : sent(s)' <=> sent(s)
    BY <1>1, Rests
<1>5. \A s \in Sub : row[s].dirty => planned_for(p, s)'
  <2> SUFFICES ASSUME NEW s \in Sub, row[s].dirty PROVE planned_for(p, s)'
      OBVIOUS
  <2>1. todo'[p] = {{item(x)} : x \in subs}
      BY <1>2 DEF OutboxInv, TableInv, TypeOK
  <2>2. s \in subs /\ item(s).row = s /\ item(s).val = row[s].val
      BY <1>3 DEF dirty_rows, item
  <2>3. {item(s)} \in todo'[p]
      BY <2>1, <2>2
  <2> QED
      BY <1>1, <2>2, <2>3 DEF planned_for
<1>6. pc'[p] = "put_subscriptions" /\ queue'[p] = {}
    BY <1>1, Others DEF AloneInv, Busy
<1>7. fails' < MaxRetry => \A s \in Sub : sent(s)' \/ planned_for(p, s)'
    BY <1>1, <1>4, <1>5 DEF AloneInv, Waits
<1>8. Busy(p)'
    BY <1>6, <1>7 DEF Busy
<1> QED
    BY <1>1, <1>4, <1>8, AloneStep

LEMMA AloneFetchPending ==
    ASSUME OutboxInv, AloneInv, StampInv', AloneIsWorking, AloneIsWorking', NEW p \in Proc,
           FetchPending(p)
    PROVE  AloneInv'
<1>1. /\ UNCHANGED <<row, outbox, fails>> /\ UNCHANGED server_vars /\ pc[p] = "fetch"
      /\ pc' = [pc EXCEPT ![p] = "drain"]
    BY DEF FetchPending, local_vars, bound_vars, goto
<1>2. TableInv
    BY DEF OutboxInv
<1>3. queue'[p] \subseteq outbox /\ \A q \in Proc : q # p => queue'[q] = queue[q]
    BY <1>2, FetchTables DEF FetchPending, TableInv, TypeOK
<1>4. Retried' /\ Waits' /\ \A s \in Sub : sent(s)' <=> sent(s)
    BY <1>1, Rests
<1>5. pc'[p] = "drain"
    BY <1>1, Others
<1>6. \A f \in queue'[p] : \A e \in outbox' : f.id = e.id => f.items = e.items
  <2>1. distinct_ids(outbox)
      BY <1>2 DEF TableInv, RowsDistinct
  <2> QED
      BY <1>1, <1>3, <2>1 DEF distinct_ids
<1>7. fails' < MaxRetry => \A s \in Sub : sent(s)'
    BY <1>1, <1>4 DEF AloneInv, Busy
<1>8. Busy(p)'
    BY <1>5, <1>6, <1>7 DEF Busy
<1> QED
    BY <1>1, <1>3, <1>4, <1>8, AloneStep

\* The snapshots that the server has, or that wait, still do so when only
\* the server gets more of them.
LEMMA ServerGets ==
    ASSUME OutboxInv, OutboxInv', AloneInv, StampInv', UNCHANGED outbox, fails <= fails', fails' \in Nat,
           fails \in Nat, \A s \in Sub : row'[s] = row[s] /\ high[s] <= high'[s]
    PROVE  Retried' /\ Waits' /\ \A s \in Sub : sent(s) => sent(s)'
<1>1. \A s \in Sub : sent(s) => sent(s)'
    BY SentStays DEF AloneInv
<1>2. Retried'
  <2> SUFFICES ASSUME NEW e \in outbox PROVE e.retry <= fails'
      BY DEF Retried
  <2>1. e.retry \in Int /\ e.retry <= fails
      BY PayloadFields, OutboxAssumption DEF OutboxInv, TableInv, TypeOK, AloneInv, Retried, Payload
  <2> QED
      BY <2>1
<1>3. fails' < MaxRetry => fails < MaxRetry
    BY OutboxAssumption
<1> QED
    BY <1>1, <1>2, <1>3 DEF AloneInv, Waits

LEMMA AloneRequest ==
    ASSUME OutboxInv, OutboxInv', AloneInv, StampInv', AloneIsWorking, AloneIsWorking', NEW p \in Proc,
           Upload(p) \/ UploadFails(p)
    PROVE  AloneInv'
<1>1. TypeOK /\ TypeOK' /\ distinct_ids(queue[p])
    BY DEF OutboxInv, TableInv, RowsDistinct
<1>2. /\ UNCHANGED <<row, changes, todo, queue, outbox, orphans>>
      /\ pc[p] = "drain" /\ queue[p] # {}
    BY DEF Upload, UploadFails, local_vars, sends
<1>3. head(p) \in queue[p] /\ head(p).items \in payloads /\ payloads' = payloads /\ head(p)' = head(p)
    BY <1>1, <1>2, HasHead, PayloadOf, PayloadsSame DEF head
<1>4. fails \in Nat /\ fails' \in Nat
    BY <1>1, OutboxAssumption DEF TypeOK
<1>5. \A f \in queue[p] : \A e \in outbox : f.id = e.id => f.items = e.items
    BY <1>2 DEF AloneInv, Busy
<1>6. /\ \A r \in Row : high[r] <= high'[r]
      /\ upsert(head(p).items) => \A i \in head(p).items : i.at <= high'[i.row]
  <2>1. ASSUME upsert(head(p).items)
        PROVE  /\ \A r \in Row : high[r] <= high'[r]
               /\ \A i \in head(p).items : i.at <= high'[i.row]
      BY <1>2, <1>3, <2>1, StampRequest DEF AloneInv
  <2>2. ASSUME UNCHANGED server_vars
        PROVE  \A r \in Row : high[r] <= high'[r]
    <3>1. \A r \in Row : high[r] \in Nat
        BY <1>1, RowFields
    <3> QED
        BY <2>2, <3>1 DEF server_vars
  <2> QED
      BY <2>1, <2>2 DEF Upload, UploadFails
<1>7. fails <= fails' /\ \A s \in Sub : row'[s] = row[s] /\ high[s] <= high'[s]
    BY <1>2, <1>4, <1>6, SubIs DEF Upload, UploadFails, bound_vars
<1>8. Retried' /\ Waits' /\ \A s \in Sub : sent(s) => sent(s)'
    BY <1>2, <1>4, <1>7, ServerGets
<1>9. fails' < MaxRetry => \A s \in Sub : sent(s)'
    BY <1>2, <1>4, <1>7, <1>8, OutboxAssumption DEF AloneInv, Busy
<1>10. CASE Upload(p)
  <2>1. pc' = [pc EXCEPT ![p] = "mark"] /\ upsert(head(p).items)
      BY <1>10 DEF Upload, goto
  <2>2. pc'[p] = "mark"
      BY <1>2, <2>1, Others
  <2>3. \A e \in outbox' : e.id = head(p)'.id => \A i \in e.items : i.row \in Sub => i.at <= high'[i.row]
      BY <1>2, <1>3, <1>5, <1>6, <2>1
  <2>4. Busy(p)'
      BY <1>2, <1>5, <1>9, <2>2, <2>3 DEF Busy
  <2> QED
      BY <1>2, <1>8, <2>1, <2>4, AloneStep
<1>11. CASE UploadFails(p)
  <2>1. pc' = [pc EXCEPT ![p] = "retry"] /\ fails' = fails + 1
      BY <1>11 DEF UploadFails, goto
  <2>2. pc'[p] = "retry"
      BY <1>2, <2>1, Others
  <2>3. \A e \in outbox' : e.retry < fails'
    <3> SUFFICES ASSUME NEW e \in outbox PROVE e.retry < fails'
        BY <1>2
    <3>1. e.retry \in Int /\ e.retry <= fails
        BY PayloadFields, OutboxAssumption DEF OutboxInv, TableInv, TypeOK, AloneInv, Retried, Payload
    <3> QED
        BY <1>4, <2>1, <3>1
  <2>4. Busy(p)'
      BY <1>2, <1>5, <1>9, <2>2, <2>3 DEF Busy
  <2> QED
      BY <1>2, <1>8, <2>1, <2>4, AloneStep
<1> QED
    BY <1>10, <1>11

LEMMA AloneMarkPayloadUploaded ==
    ASSUME OutboxInv, OutboxInv', AloneInv, StampInv', AloneIsWorking, AloneIsWorking', NEW p \in Proc,
           MarkPayloadUploaded(p)
    PROVE  AloneInv'
<1>1. TableInv /\ TypeOK /\ queue \in [Proc -> SUBSET Payload]
    BY DEF OutboxInv, TableInv, TypeOK
<1>2. PICK m : /\ row' = [r \in Row |-> IF r = m.row /\ acked(m)
                                       THEN [row[r] EXCEPT !.dirty = FALSE, !.at = 0] ELSE row[r]]
               /\ queue' = [queue EXCEPT ![p] = (@ \ {head(p)}) \cup {[head(p) EXCEPT !.items = @ \ {m}]}]
    BY DEF MarkPayloadUploaded
<1>3. UNCHANGED <<outbox, todo, pc, fails>> /\ UNCHANGED server_vars /\ pc[p] = "mark"
    BY DEF MarkPayloadUploaded, bound_vars
<1>4. /\ head(p) \in queue[p] /\ head(p) \in Payload
      /\ head(p)' = [head(p) EXCEPT !.items = @ \ {m}]
    BY <1>1, <1>2, <1>3, NextHead
<1>5. head(p)'.id = head(p).id
    BY <1>4 DEF Payload
<1>6. /\ queue'[p] = (queue[p] \ {head(p)}) \cup {head(p)'}
      /\ \A q \in Proc : q # p => queue'[q] = queue[q]
    BY <1>1, <1>2, <1>4
<1>7. \A s \in Sub : row'[s].val = row[s].val
  <2>1. \A r \in Row : [row[r] EXCEPT !.dirty = FALSE, !.at = 0].val = row[r].val
      BY <1>1 DEF TypeOK
  <2> QED
      BY <1>2, <2>1, SubIs
<1>8. \A s \in Sub : sent(s)' <=> sent(s)
    BY <1>3, <1>7 DEF sent, stamp, pending_vals, server_vars
<1>9. Retried'
    BY <1>3 DEF AloneInv, Retried
<1>10. fails' < MaxRetry => \A s \in Sub : sent(s)'
    BY <1>3, <1>8 DEF AloneInv, Busy
<1>11. Waits'
    BY <1>10 DEF Waits
<1>12. \A f \in queue'[p] : \A e \in outbox' : f.id = e.id => f.items = e.items \/ f = head(p)'
    BY <1>3, <1>6 DEF AloneInv, Busy
<1>13. \A e \in outbox' : e.id = head(p)'.id => \A i \in e.items : i.row \in Sub => i.at <= high'[i.row]
    BY <1>3, <1>5 DEF AloneInv, Busy, server_vars
<1>14. pc'[p] = "mark" /\ pc' = [pc EXCEPT ![p] = "mark"]
    BY <1>1, <1>3 DEF TypeOK
<1>15. Busy(p)'
    BY <1>10, <1>12, <1>13, <1>14 DEF Busy
<1> QED
    BY <1>3, <1>6, <1>9, <1>11, <1>14, <1>15, AloneStep

LEMMA AloneMarkOutboxSynced ==
    ASSUME OutboxInv, OutboxInv', AloneInv, StampInv', AloneIsWorking, AloneIsWorking', NEW p \in Proc,
           MarkOutboxSynced(p)
    PROVE  AloneInv'
<1>1. /\ UNCHANGED <<row, todo, fails>> /\ UNCHANGED server_vars /\ pc[p] = "mark"
      /\ outbox' = {e \in outbox : e.id # head(p).id}
      /\ pc' = [pc EXCEPT ![p] = "drain"]
      /\ queue' = [queue EXCEPT ![p] = @ \ {head(p)}]
    BY DEF MarkOutboxSynced, delete_row, next_item, goto, local_vars, bound_vars
<1>2. queue'[p] = queue[p] \ {head(p)} /\ \A q \in Proc : q # p => queue'[q] = queue[q]
    BY <1>1 DEF OutboxInv, TableInv, TypeOK
<1>3. \A s \in Sub : sent(s) => sent(s)'
  <2>1. \A s \in Sub : row'[s].val = row[s].val /\ high[s] <= high'[s]
    <3>1. \A s \in Sub : high[s] \in Nat
        BY RowFields, SubIs DEF OutboxInv, TableInv
    <3> QED
        BY <1>1, <3>1 DEF server_vars
  <2>2. \A e \in outbox : \A i \in e.items : i.row \in Sub =>
            (\E f \in outbox' : i \in f.items) \/ i.at <= high'[i.row]
      BY <1>1 DEF AloneInv, Busy, server_vars
  <2> QED
      BY <2>1, <2>2, SentStays DEF AloneInv
<1>4. Retried'
    BY <1>1 DEF AloneInv, Retried
<1>5. fails' < MaxRetry => \A s \in Sub : sent(s)'
    BY <1>1, <1>3 DEF AloneInv, Busy
<1>6. Waits'
    BY <1>5 DEF Waits
<1>7. \A f \in queue'[p] : \A e \in outbox' : f.id = e.id => f.items = e.items
    BY <1>1, <1>2 DEF AloneInv, Busy
<1>8. pc'[p] = "drain"
    BY <1>1, Others
<1>9. Busy(p)'
    BY <1>5, <1>7, <1>8 DEF Busy
<1> QED
    BY <1>1, <1>2, <1>4, <1>6, <1>9, AloneStep

LEMMA AloneIncrementOutboxRetry ==
    ASSUME OutboxInv, OutboxInv', AloneInv, StampInv', AloneIsWorking, AloneIsWorking', NEW p \in Proc,
           IncrementOutboxRetry(p)
    PROVE  AloneInv'
<1>1. /\ UNCHANGED <<row, todo, fails>> /\ UNCHANGED server_vars /\ pc[p] = "retry"
      /\ outbox' = {IF e.id = head(p).id THEN [e EXCEPT !.retry = @ + 1] ELSE e : e \in outbox}
      /\ pc' = [pc EXCEPT ![p] = "drain"]
      /\ queue' = [queue EXCEPT ![p] = @ \ {head(p)}]
    BY DEF IncrementOutboxRetry, next_item, goto, local_vars, bound_vars
<1>2. queue'[p] = queue[p] \ {head(p)} /\ \A q \in Proc : q # p => queue'[q] = queue[q]
    BY <1>1 DEF OutboxInv, TableInv, TypeOK
<1>3. fails \in Nat /\ outbox \subseteq Payload
    BY OutboxAssumption DEF OutboxInv, TableInv, TypeOK
<1>4. ASSUME NEW e \in outbox
      PROVE  /\ [e EXCEPT !.retry = @ + 1].id = e.id /\ [e EXCEPT !.retry = @ + 1].items = e.items
             /\ [e EXCEPT !.retry = @ + 1].retry = e.retry + 1 /\ e.retry \in Int
  <2>1. e \in Payload
      BY <1>3
  <2> QED
      BY <2>1, OutboxAssumption DEF Payload
<1>5. /\ \A f \in outbox' : \E e \in outbox : e.id = f.id /\ e.items = f.items
      /\ \A e \in outbox : \E f \in outbox' : f.items = e.items
    BY <1>1, <1>4
<1>6. \A s \in Sub : sent(s) => sent(s)'
  <2>1. \A s \in Sub : row'[s].val = row[s].val /\ high[s] <= high'[s]
    <3>1. \A s \in Sub : high[s] \in Nat
        BY RowFields, SubIs DEF OutboxInv, TableInv
    <3> QED
        BY <1>1, <3>1 DEF server_vars
  <2>2. \A e \in outbox : \A i \in e.items : \E f \in outbox' : i \in f.items
      BY <1>5
  <2> QED
      BY <2>1, <2>2, SentStays DEF AloneInv
<1>7. Retried'
  <2> SUFFICES ASSUME NEW f \in outbox' PROVE f.retry <= fails
      BY <1>1 DEF Retried
  <2>1. PICK e \in outbox : f = IF e.id = head(p).id THEN [e EXCEPT !.retry = @ + 1] ELSE e
      BY <1>1
  <2>2. e.retry <= fails /\ (e.id = head(p).id => e.retry < fails)
      BY <1>1 DEF AloneInv, Retried, Busy
  <2>3. CASE e.id = head(p).id
    <3>1. f.retry = e.retry + 1 /\ e.retry \in Int
        BY <1>4, <2>1, <2>3
    <3> QED
        BY <1>3, <2>2, <2>3, <3>1
  <2>4. CASE e.id # head(p).id
      BY <2>1, <2>2, <2>4
  <2> QED
      BY <2>3, <2>4
<1>8. fails' < MaxRetry => \A s \in Sub : sent(s)'
    BY <1>1, <1>6 DEF AloneInv, Busy
<1>9. Waits'
    BY <1>8 DEF Waits
<1>10. \A f \in queue'[p] : \A e \in outbox' : f.id = e.id => f.items = e.items
  <2> SUFFICES ASSUME NEW f \in queue'[p], NEW e \in outbox', f.id = e.id PROVE f.items = e.items
      OBVIOUS
  <2>1. PICK x \in outbox : x.id = e.id /\ x.items = e.items
      BY <1>5
  <2>2. f \in queue[p]
      BY <1>2
  <2> QED
      BY <1>1, <2>1, <2>2 DEF AloneInv, Busy
<1>11. pc'[p] = "drain"
    BY <1>1, Others
<1>12. Busy(p)'
    BY <1>8, <1>10, <1>11 DEF Busy
<1> QED
    BY <1>1, <1>2, <1>7, <1>9, <1>12, AloneStep

\* The steps that move no process.
LEMMA AloneAround ==
    ASSUME OutboxInv, OutboxInv', AloneInv, StampInv',
           \/ \E p \in Proc, r \in Rollup, v \in Value \cup {None} : ScanRollup(p, r, v)
           \/ OrphanArrives \/ Tick \/ UNCHANGED vars
    PROVE  AloneInv'
<1>1. TypeOK /\ fails \in Nat /\ \A r \in Row : high[r] \in Nat
    BY OutboxAssumption, RowFields DEF OutboxInv, TableInv, TypeOK
<1>2. UNCHANGED <<pc, todo, queue, outbox, fails>>
    BY DEF ScanRollup, OrphanArrives, Tick, vars, proc_vars, bound_vars
<1>3. \A s \in Sub : row'[s] = row[s] /\ high[s] <= high'[s]
  <2>1. CASE \E p \in Proc, r \in Rollup, v \in Value \cup {None} : ScanRollup(p, r, v)
    <3>1. high' = high /\ \A s \in Sub : row'[s] = row[s]
        BY <1>1, <2>1, SubIs, OutboxAssumption DEF ScanRollup, TypeOK, server_vars
    <3> QED
        BY <1>1, <3>1, SubIs
  <2>2. CASE OrphanArrives
    <3>1. PICK items \in orphans : upsert(items) /\ orphans' = orphans \ {items}
        BY <2>2 DEF OrphanArrives
    <3>2. UNCHANGED <<row, changes, todo, queue, outbox>>
        BY <2>2 DEF OrphanArrives, local_vars, proc_vars
    <3>3. payloads' \subseteq payloads /\ items \in payloads
        BY <3>1, <3>2, PayloadOf, PayloadsMove
    <3> QED
        BY <3>1, <3>2, <3>3, StampRequest, SubIs DEF AloneInv
  <2>3. CASE Tick \/ UNCHANGED vars
    <3>1. UNCHANGED <<row, high>>
        BY <2>3 DEF Tick, vars, local_vars, server_vars
    <3> QED
        BY <1>1, <3>1, SubIs
  <2> QED
      BY <2>1, <2>2, <2>3
<1>4. Retried' /\ Waits' /\ \A s \in Sub : sent(s) => sent(s)'
    BY <1>1, <1>2, <1>3, ServerGets
<1>5. ASSUME NEW p \in Proc
      PROVE  Busy(p)'
  <2>1. head(p)' = head(p) /\ \A s \in Sub : planned_for(p, s)' <=> planned_for(p, s)
      BY <1>2, <1>3 DEF head, planned_for
  <2>2. pc[p] = "mark" => \A e \in outbox : e.id = head(p).id =>
                             \A i \in e.items : i.row \in Sub => i.at <= high'[i.row]
    <3> SUFFICES ASSUME pc[p] = "mark", NEW e \in outbox, e.id = head(p).id, NEW i \in e.items,
                        i.row \in Sub
                 PROVE  i.at <= high'[i.row]
        OBVIOUS
    <3>1. i.at \in Nat
        BY <1>1, PayloadOf, PayloadTyped, ItemFields
    <3>2. i.at <= high[i.row]
        BY DEF AloneInv, Busy
    <3>3. high'[i.row] \in Nat /\ high[i.row] \in Nat
        BY SubIs, OutboxAssumption DEF OutboxInv, TableInv, TypeOK
    <3> QED
        BY <1>3, <3>1, <3>2, <3>3
  <2> QED
      BY <1>2, <1>4, <2>1, <2>2 DEF AloneInv, Busy
<1> QED
    BY <1>4, <1>5 DEF AloneInv

LEMMA AloneInit == Init => AloneInv
<1> SUFFICES ASSUME Init PROVE AloneInv
    OBVIOUS
<1>1. StampInv /\ OutboxInv
    BY StampInit, OutboxInit
<1>2. outbox = {} /\ \A p \in Proc : queue[p] = {} /\ pc[p] = "idle"
    BY DEF Init
<1>3. \A s \in Sub : sent(s)
  <2>1. \A s \in Sub : row[s] = absent /\ high[s] = 0
      BY SubIs DEF Init
  <2> QED
      BY <2>1 DEF sent, stamp, absent
<1> QED
    BY <1>1, <1>2, <1>3 DEF AloneInv, Retried, Waits, Busy

LEMMA AloneNext ==
    ASSUME OutboxInv, OutboxInv', AloneInv, AloneIsWorking, AloneIsWorking', NothingCut,
           Cardinality(Sub) <= MaxItems, [Next]_vars
    PROVE  AloneInv'
<1>1. StampInv'
  <2>1. CASE UNCHANGED vars
    <3>1. payloads' = payloads
        BY <2>1, PayloadsSame DEF vars, proc_vars
    <3> QED
        BY <2>1, <3>1 DEF AloneInv, StampInv, stamp, vars, local_vars, server_vars
  <2> QED
      BY <2>1, StampNext DEF AloneInv
<1>2. CASE \E p \in Proc : Sync(p)
    BY <1>1, <1>2, AloneStart, AloneUpsertSubscriptions, AloneSelectDirtySubscriptions, AloneCleanup,
       AloneInsert, AloneFetchPending, AloneRequest, AloneMarkPayloadUploaded, AloneMarkOutboxSynced,
       AloneIncrementOutboxRetry DEF Sync
<1>3. CASE \E p \in Proc : \/ \E found \in SUBSET Sub : UpsertSubscriptions(p, found, "idle")
                           \/ Offline(p) \/ Crash(p)
    BY <1>1, <1>3, AloneUpsertSubscriptions, AloneCleanup, AloneStart
<1>4. CASE \/ \E p \in Proc, r \in Rollup, v \in Value \cup {None} : ScanRollup(p, r, v)
           \/ OrphanArrives \/ Tick \/ UNCHANGED vars
    BY <1>1, <1>4, AloneAround
<1> QED
    BY <1>2, <1>3, <1>4 DEF Next

(* A snapshot that is not dirty is what the server has, or its payload is  *)
(* still in the outbox, or an older one overtook it, until a payload has   *)
(* failed MAX_OUTBOX_RETRY_COUNT times: as long as one process at a time   *)
(* works on usage.sqlite, no cap or age takes a row of the outbox, and all *)
(* the accounts fit into one sync.                                         *)
THEOREM SnapshotsStayPending ==
    ASSUME Cardinality(Sub) <= MaxItems
    PROVE  Spec /\ []AloneIsWorking /\ []NothingCut => []SubscriptionIsPending
<1>1. Init => AloneInv
    BY AloneInit
<1>2. /\ OutboxInv /\ OutboxInv' /\ AloneInv /\ AloneIsWorking /\ AloneIsWorking' /\ NothingCut
      /\ [Next]_vars
      => AloneInv'
    BY AloneNext
<1>3. AloneInv => SubscriptionIsPending
  <2> SUFFICES ASSUME AloneInv, NEW s \in Sub, s \notin overtaken, ~row[s].dirty, fails < MaxRetry,
                      row[s].val \notin pending_vals(s)
               PROVE  server[s] = row[s].val
      BY DEF SubscriptionIsPending
  <2>1. high[s] = stamp(s)
      BY DEF AloneInv, Waits, sent
  <2>2. server[s] = IF high[s] = 0 THEN None ELSE high[s]
      BY DEF AloneInv, StampInv
  <2>3. row[s].val = None \/ (row[s].val \in 1 .. changes /\ stamp(s) = row[s].val /\ row[s].val # 0)
      BY DEF AloneInv, StampInv, stamp
  <2> QED
      BY <2>1, <2>2, <2>3 DEF stamp
<1> QED
    BY <1>1, <1>2, <1>3, OutboxInvariant, PTL DEF Spec

=============================================================================
