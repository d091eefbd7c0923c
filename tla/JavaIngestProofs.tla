---------------------------- MODULE JavaIngestProofs ----------------------------
(***************************************************************************)
(* Proofs about JavaIngest, for any number of handlers and clients, any    *)
(* batches in the order of their ids and any limits.  What the proofs rest *)
(* on: a handler's uncommitted rows are edits before the one it is at, and *)
(* a client whose request was committed sends no more.                     *)
(***************************************************************************)
EXTENDS JavaIngest, FiniteSetTheorems, TLAPS

Place == {"idle", "edit", "exists", "insert", "retention", "commit"}

StateType ==
    /\ pc \in [Handler -> Place]
    /\ i \in [Handler -> Nat \ {0}]
    /\ tries \in [Handler -> Nat]

RowsType ==
    /\ stored \subseteq Nat
    /\ own \in [Handler -> SUBSET Nat]
    /\ acked \in [Handler -> SUBSET Nat]

\* Each handler: where it is in its batch, what it holds and what it answered.
InBatch(h) == i[h] \in 1 .. Len(Batch[h])

OwnIsBehind(h) ==
    /\ pc[h] = "idle" => own[h] = {}
    /\ pc[h] \in {"edit", "exists", "insert"} =>
         own[h] \subseteq {Batch[h][k] : k \in 1 .. i[h] - 1}

AckedIsVisible(h) ==
    pc[h] # "idle" =>
        \A k \in acked[h] : \/ Batch[h][k] \in stored \cup own[h]
                            \/ k = i[h] /\ pc[h] \in {"exists", "insert"}

JavaInv ==
    /\ StateType /\ RowsType
    /\ \A h \in Handler : InBatch(h) /\ OwnIsBehind(h) /\ AckedIsVisible(h)

LEMMA BatchTyped ==
    ASSUME NEW h \in Handler
    PROVE  /\ Len(Batch[h]) \in Nat \ {0} /\ DOMAIN Batch[h] = 1 .. Len(Batch[h])
           /\ \A k \in 1 .. Len(Batch[h]) : Batch[h][k] \in Nat
           /\ \A j, k \in 1 .. Len(Batch[h]) : j < k => Batch[h][j] < Batch[h][k]
<1>1. Batch[h] \in Seq(Nat) /\ Batch[h] # <<>>
  BY BatchAssumption
<1>2. \A j, k \in 1 .. Len(Batch[h]) : j < k => Batch[h][j] < Batch[h][k]
  BY BatchAssumption
<1>3. QED
  BY <1>1, <1>2

\* The loop goes on, or is left.
LEMMA NextEditMoves ==
    ASSUME StateType, NEW h \in Handler, InBatch(h), NEW rows, next_edit(h, rows), tries' = tries
    PROVE  /\ StateType' /\ InBatch(h)'
           /\ \/ i'[h] = i[h] + 1 /\ pc'[h] = "edit"
              \/ i'[h] = i[h] /\ pc'[h] \in {"retention", "commit"}
           /\ \A o \in Handler \ {h} : i'[o] = i[o] /\ pc'[o] = pc[o]
<1>1. Len(Batch[h]) \in Nat /\ i[h] \in Nat /\ i[h] \in 1 .. Len(Batch[h])
  BY BatchTyped DEF InBatch, StateType
<1>2. pc \in [Handler -> Place] /\ i \in [Handler -> Nat \ {0}]
  BY DEF StateType
<1>3. CASE i[h] < Len(Batch[h])
  <2>1. i' = [i EXCEPT ![h] = i[h] + 1] /\ pc' = [pc EXCEPT ![h] = "edit"]
    BY <1>3 DEF next_edit, goto
  <2>2. i[h] + 1 \in Nat \ {0}
    BY <1>1
  <2>3. i' \in [Handler -> Nat \ {0}]
    BY <1>2, <2>1, <2>2
  <2>4. pc' \in [Handler -> Place]
    BY <1>2, <2>1 DEF Place
  <2>5. InBatch(h)'
    BY <1>1, <1>2, <1>3, <2>1 DEF InBatch
  <2>6. QED
    BY <1>2, <2>1, <2>3, <2>4, <2>5 DEF StateType
<1>4. CASE ~(i[h] < Len(Batch[h]))
  <2>1. i' = i /\ \E l \in {"retention", "commit"} : pc' = [pc EXCEPT ![h] = l]
    BY <1>4 DEF next_edit, goto
  <2>2. pc' \in [Handler -> Place]
    BY <1>2, <2>1 DEF Place
  <2>3. QED
    BY <1>1, <1>2, <2>1, <2>2 DEF StateType, InBatch
<1>5. QED
  BY <1>3, <1>4

LEMMA JavaInit == Init => JavaInv
<1> SUFFICES ASSUME Init PROVE JavaInv
  OBVIOUS
<1>1. StateType
  <2>1. pc = [h \in Handler |-> "idle"] /\ i = [h \in Handler |-> 1]
        /\ tries = [h \in Handler |-> 0]
    BY DEF Init
  <2>2. i \in [Handler -> Nat \ {0}]
    BY <2>1
  <2>3. pc \in [Handler -> Place] /\ tries \in [Handler -> Nat]
    BY <2>1 DEF Place
  <2>4. QED
    BY <2>2, <2>3 DEF StateType
<1>2. RowsType
  BY DEF Init, RowsType
<1>3. \A h \in Handler : InBatch(h) /\ OwnIsBehind(h) /\ AckedIsVisible(h)
  BY BatchTyped DEF Init, InBatch, OwnIsBehind, AckedIsVisible
<1>4. QED
  BY <1>1, <1>2, <1>3 DEF JavaInv

\* A step of one handler leaves the others alone; the table only grows.
LEMMA OthersKeep ==
    ASSUME JavaInv, NEW h \in Handler, StateType', RowsType', stored \subseteq stored',
           InBatch(h)', OwnIsBehind(h)', AckedIsVisible(h)',
           \A o \in Handler \ {h} : /\ i'[o] = i[o] /\ pc'[o] = pc[o] /\ own'[o] = own[o]
                                    /\ acked'[o] = acked[o]
    PROVE  JavaInv'
<1>1. ASSUME NEW o \in Handler \ {h}
      PROVE  InBatch(o)' /\ OwnIsBehind(o)' /\ AckedIsVisible(o)'
  <2>1. InBatch(o) /\ OwnIsBehind(o) /\ AckedIsVisible(o)
    BY DEF JavaInv
  <2>2. InBatch(o)' /\ OwnIsBehind(o)'
    BY <2>1 DEF InBatch, OwnIsBehind
  <2>3. AckedIsVisible(o)'
    BY <2>1 DEF AckedIsVisible
  <2>4. QED
    BY <2>2, <2>3
<1>2. QED
  BY <1>1 DEF JavaInv

LEMMA ReceiveKeeps ==
    ASSUME JavaInv, NEW h \in Handler, Receive(h)
    PROVE  JavaInv'
<1>1. /\ pc[h] = "idle" /\ pc' = [pc EXCEPT ![h] = "edit"] /\ i' = [i EXCEPT ![h] = 1]
      /\ acked' = [acked EXCEPT ![h] = {}] /\ UNCHANGED <<stored, own, tries>>
  BY DEF Receive, goto
<1>2. StateType /\ RowsType /\ OwnIsBehind(h)
  BY DEF JavaInv
<1>3. i \in [Handler -> Nat \ {0}] /\ pc \in [Handler -> Place]
  BY <1>2 DEF StateType
<1>4. i' \in [Handler -> Nat \ {0}] /\ i'[h] = 1
  BY <1>1, <1>3
<1>5. pc' \in [Handler -> Place] /\ pc'[h] = "edit"
  BY <1>1, <1>3 DEF Place
<1>6. StateType' /\ RowsType' /\ acked'[h] = {}
  BY <1>1, <1>2, <1>4, <1>5 DEF StateType, RowsType
<1>7. InBatch(h)' /\ OwnIsBehind(h)' /\ AckedIsVisible(h)'
  BY <1>1, <1>2, <1>4, <1>5, <1>6, BatchTyped DEF InBatch, OwnIsBehind, AckedIsVisible
<1>8. \A o \in Handler \ {h} : /\ i'[o] = i[o] /\ pc'[o] = pc[o] /\ own'[o] = own[o]
                               /\ acked'[o] = acked[o]
  BY <1>1, <1>2 DEF StateType, RowsType
<1>9. QED
  BY <1>1, <1>6, <1>7, <1>8, OthersKeep

\* Reject, Exists for a row that exists, and Save end a turn of the loop: the
\* edit they are at is in sight, or was not acknowledged.
LEMMA TurnKeeps ==
    ASSUME JavaInv, NEW h \in Handler, NEW rows, next_edit(h, rows),
           pc[h] \in {"edit", "exists", "insert"}, stored' = stored, acked' = acked, tries' = tries,
           NEW new \in SUBSET {Batch[h][i[h]]}, own' = [own EXCEPT ![h] = @ \cup new],
           pc[h] # "edit" => Batch[h][i[h]] \in stored \cup own'[h]
    PROVE  JavaInv'
<1>1. StateType /\ RowsType /\ InBatch(h) /\ OwnIsBehind(h) /\ AckedIsVisible(h)
  BY DEF JavaInv
<1>2. /\ i[h] \in 1 .. Len(Batch[h]) /\ Len(Batch[h]) \in Nat /\ Batch[h][i[h]] \in Nat
  BY <1>1, BatchTyped DEF InBatch
<1>3. /\ StateType' /\ InBatch(h)'
      /\ \/ i'[h] = i[h] + 1 /\ pc'[h] = "edit"
         \/ i'[h] = i[h] /\ pc'[h] \in {"retention", "commit"}
      /\ \A o \in Handler \ {h} : i'[o] = i[o] /\ pc'[o] = pc[o]
  BY <1>1, NextEditMoves
<1>4. own'[h] = own[h] \cup new /\ RowsType'
  BY <1>1, <1>2 DEF RowsType
<1>5. OwnIsBehind(h)'
  <2>1. CASE i'[h] = i[h] + 1 /\ pc'[h] = "edit"
    <3>1. own[h] \subseteq {Batch[h][k] : k \in 1 .. i[h] - 1}
      BY <1>1 DEF OwnIsBehind
    <3>2. {Batch[h][k] : k \in 1 .. i[h] - 1} \cup {Batch[h][i[h]]}
            \subseteq {Batch[h][k] : k \in 1 .. i'[h] - 1}
      BY <1>2, <2>1
    <3>3. QED
      BY <1>4, <2>1, <3>1, <3>2 DEF OwnIsBehind
  <2>2. CASE pc'[h] \in {"retention", "commit"}
    BY <2>2 DEF OwnIsBehind
  <2>3. QED
    BY <1>3, <2>1, <2>2
<1>6. AckedIsVisible(h)'
  BY <1>1, <1>4 DEF AckedIsVisible
<1>7. QED
  BY <1>1, <1>3, <1>4, <1>5, <1>6, OthersKeep DEF RowsType

LEMMA LoopKeeps ==
    ASSUME JavaInv, NEW h \in Handler, Reject(h) \/ Exists(h) \/ Save(h)
    PROVE  JavaInv'
<1>1. StateType /\ RowsType /\ InBatch(h) /\ OwnIsBehind(h) /\ AckedIsVisible(h)
  BY DEF JavaInv
<1>2. own = [own EXCEPT ![h] = @ \cup {}]
  BY <1>1 DEF RowsType
<1>3. CASE Reject(h)
  <2>1. /\ pc[h] = "edit" /\ next_edit(h, own[h])
        /\ UNCHANGED <<stored, own, acked, tries>>
    BY <1>3 DEF Reject
  <2>2. QED
    BY <1>2, <2>1, TurnKeeps
<1>4. CASE Exists(h) /\ existsByRecordSig(h, edit(h))
  <2>1. /\ pc[h] = "exists" /\ next_edit(h, own[h]) /\ Batch[h][i[h]] \in stored \cup own[h]
        /\ UNCHANGED <<stored, own, acked, tries>>
    BY <1>4 DEF Exists, existsByRecordSig, visible, edit
  <2>2. QED
    BY <1>2, <2>1, TurnKeeps
<1>5. CASE Exists(h) /\ ~existsByRecordSig(h, edit(h))
  <2>1. /\ pc[h] = "exists" /\ pc' = [pc EXCEPT ![h] = "insert"]
        /\ UNCHANGED <<i, stored, own, acked, tries>>
    BY <1>5 DEF Exists, goto
  <2>2. pc' \in [Handler -> Place] /\ pc'[h] = "insert"
    BY <1>1, <2>1 DEF StateType, Place
  <2>3. StateType' /\ RowsType'
    BY <1>1, <2>1, <2>2 DEF StateType, RowsType
  <2>4. InBatch(h)' /\ OwnIsBehind(h)' /\ AckedIsVisible(h)'
    BY <1>1, <2>1, <2>2 DEF InBatch, OwnIsBehind, AckedIsVisible
  <2>5. \A o \in Handler \ {h} : pc'[o] = pc[o]
    BY <1>1, <2>1 DEF StateType
  <2>6. QED
    BY <2>1, <2>3, <2>4, <2>5, OthersKeep
<1>6. CASE Save(h)
  <2>1. /\ pc[h] = "insert" /\ next_edit(h, own'[h])
        /\ own' = [own EXCEPT ![h] = @ \cup {Batch[h][i[h]]}]
        /\ UNCHANGED <<stored, acked, tries>>
    BY <1>6 DEF Save, edit
  <2>2. Batch[h][i[h]] \in own'[h]
    BY <1>1, <2>1 DEF RowsType
  <2>3. QED
    BY <2>1, <2>2, TurnKeeps
<1>7. QED
  BY <1>3, <1>4, <1>5, <1>6

LEMMA AdmitKeeps ==
    ASSUME JavaInv, NEW h \in Handler, Admit(h)
    PROVE  JavaInv'
<1>1. StateType /\ RowsType /\ InBatch(h) /\ OwnIsBehind(h) /\ AckedIsVisible(h)
  BY DEF JavaInv
<1>2. /\ pc[h] = "edit" /\ pc' = [pc EXCEPT ![h] = "exists"]
      /\ acked' = [acked EXCEPT ![h] = @ \cup {i[h]}] /\ UNCHANGED <<stored, i, own, tries>>
  BY DEF Admit, goto
<1>3. pc' \in [Handler -> Place] /\ pc'[h] = "exists"
  BY <1>1, <1>2 DEF StateType, Place
<1>4. acked' \in [Handler -> SUBSET Nat] /\ acked'[h] = acked[h] \cup {i[h]}
  BY <1>1, <1>2 DEF RowsType, StateType
<1>5. StateType' /\ RowsType'
  BY <1>1, <1>2, <1>3, <1>4 DEF StateType, RowsType
<1>6. InBatch(h)' /\ OwnIsBehind(h)' /\ AckedIsVisible(h)'
  BY <1>1, <1>2, <1>3, <1>4 DEF InBatch, OwnIsBehind, AckedIsVisible
<1>7. \A o \in Handler \ {h} : pc'[o] = pc[o] /\ acked'[o] = acked[o]
  BY <1>1, <1>2 DEF StateType, RowsType
<1>8. QED
  BY <1>2, <1>5, <1>6, <1>7, OthersKeep

\* The end of the request: committed, undone, or on its way there.
LEMMA EndKeeps ==
    ASSUME JavaInv, NEW h \in Handler,
           Retention(h) \/ SaveFails(h) \/ Breaks(h) \/ Commit(h)
    PROVE  JavaInv'
<1>1. StateType /\ RowsType /\ InBatch(h) /\ OwnIsBehind(h) /\ AckedIsVisible(h)
  BY DEF JavaInv
<1>2. CASE Retention(h)
  <2>1. /\ pc[h] = "retention" /\ pc' = [pc EXCEPT ![h] = "commit"]
        /\ UNCHANGED <<stored, i, own, acked, tries>>
    BY <1>2 DEF Retention, goto
  <2>2. pc' \in [Handler -> Place] /\ pc'[h] = "commit"
    BY <1>1, <2>1 DEF StateType, Place
  <2>3. StateType' /\ RowsType'
    BY <1>1, <2>1, <2>2 DEF StateType, RowsType
  <2>4. InBatch(h)' /\ OwnIsBehind(h)' /\ AckedIsVisible(h)'
    BY <1>1, <2>1, <2>2 DEF InBatch, OwnIsBehind, AckedIsVisible
  <2>5. \A o \in Handler \ {h} : pc'[o] = pc[o]
    BY <1>1, <2>1 DEF StateType
  <2>6. QED
    BY <2>1, <2>3, <2>4, <2>5, OthersKeep
<1>3. CASE SaveFails(h) \/ Breaks(h) \/ Commit(h)
  <2>1. /\ pc' = [pc EXCEPT ![h] = "idle"] /\ own' = [own EXCEPT ![h] = {}]
        /\ UNCHANGED <<i, acked>>
        /\ stored' = stored \/ stored' = stored \cup own[h]
        /\ \E n \in Nat : tries' = [tries EXCEPT ![h] = n]
    <3>1. MaxRetry \in Nat /\ tries[h] + 1 \in Nat
      BY <1>1, LimitAssumption DEF StateType
    <3>2. QED
      BY <1>3, <3>1 DEF SaveFails, Breaks, Fail, Commit, goto
  <2>2. pc' \in [Handler -> Place] /\ pc'[h] = "idle"
    BY <1>1, <2>1 DEF StateType, Place
  <2>3. tries' \in [Handler -> Nat]
    BY <1>1, <2>1 DEF StateType
  <2>4. StateType'
    BY <1>1, <2>1, <2>2, <2>3 DEF StateType
  <2>5. RowsType' /\ own'[h] = {} /\ stored \subseteq stored'
    BY <1>1, <2>1 DEF RowsType
  <2>6. InBatch(h)' /\ OwnIsBehind(h)' /\ AckedIsVisible(h)'
    BY <1>1, <2>1, <2>2, <2>5 DEF InBatch, OwnIsBehind, AckedIsVisible
  <2>7. \A o \in Handler \ {h} : pc'[o] = pc[o] /\ own'[o] = own[o]
    BY <1>1, <2>1 DEF StateType, RowsType
  <2>8. QED
    BY <2>1, <2>4, <2>5, <2>6, <2>7, OthersKeep
<1>4. QED
  BY <1>2, <1>3

LEMMA JavaStep == JavaInv /\ [Next]_vars => JavaInv'
<1> SUFFICES ASSUME JavaInv, [Next]_vars PROVE JavaInv'
  OBVIOUS
<1>1. ASSUME NEW h \in Handler, Step(h) \/ Breaks(h) PROVE JavaInv'
  BY <1>1, ReceiveKeeps, LoopKeeps, AdmitKeeps, EndKeeps DEF Step
<1>2. CASE UNCHANGED vars
  BY <1>2 DEF vars, JavaInv, StateType, RowsType, InBatch, OwnIsBehind, AckedIsVisible
<1>3. QED
  BY <1>1, <1>2 DEF Next

THEOREM JavaInvariant == Spec => []JavaInv
BY JavaInit, JavaStep, PTL DEF Spec

-----------------------------------------------------------------------------
(***************************************************************************)
(* A handler counts its own rows, and commits once.                        *)
(***************************************************************************)
Done == {h \in Handler : tries[h] = MaxRetry}

OwnIsLimited(h) ==
    /\ IsFiniteSet(own[h]) /\ Cardinality(own[h]) <= RateLimit
    /\ pc[h] \in {"exists", "insert"} => Cardinality(own[h]) < RateLimit
    /\ pc[h] # "idle" => tries[h] < MaxRetry

StoredIsLimited == IsFiniteSet(stored) /\ Cardinality(stored) <= RateLimit * Cardinality(Done)

LimitInv == StoredIsLimited /\ \A h \in Handler : OwnIsLimited(h)

\* Every step, as far as the limits go: who has rows, and who is done.
LEMMA OwnRows ==
    ASSUME JavaInv, LimitInv, NEW h \in Handler, Step(h) \/ Breaks(h)
    PROVE  /\ OwnIsLimited(h)'
           /\ \/ stored' = stored /\ Done \subseteq Done'
              \/ /\ stored' = stored \cup own[h]
                 /\ h \in Done' \ Done /\ Done \subseteq Done'
           /\ \A o \in Handler \ {h} : pc'[o] = pc[o] /\ own'[o] = own[o] /\ tries'[o] = tries[o]
<1>1. /\ StateType /\ RowsType /\ InBatch(h) /\ OwnIsLimited(h) /\ StoredIsLimited
      /\ pc[h] \in Place
  BY DEF JavaInv, LimitInv, StateType
<1>2. RateLimit \in Nat /\ MaxRetry \in Nat
  BY LimitAssumption
<1>3. IsFiniteSet({}) /\ Cardinality({}) = 0
  BY FS_EmptySet
<1>4. CASE Receive(h)
  <2>1. /\ tries[h] < MaxRetry /\ UNCHANGED <<stored, own, tries>> /\ pc' = [pc EXCEPT ![h] = "edit"]
    BY <1>4 DEF Receive, goto
  <2>2. QED
    BY <1>1, <2>1 DEF OwnIsLimited, StateType, Done
<1>5. CASE Admit(h)
  <2>1. /\ pc[h] = "edit" /\ UNCHANGED <<stored, own, tries>> /\ pc' = [pc EXCEPT ![h] = "exists"]
        /\ ~(Cardinality(stored \cup own[h]) >= RateLimit)
    BY <1>5 DEF Admit, goto, limited, visible
  <2>2. /\ IsFiniteSet(stored \cup own[h]) /\ Cardinality(stored \cup own[h]) \in Nat
        /\ Cardinality(own[h]) <= Cardinality(stored \cup own[h]) /\ Cardinality(own[h]) \in Nat
    <3>1. IsFiniteSet(stored) /\ IsFiniteSet(own[h])
      BY <1>1 DEF OwnIsLimited, StoredIsLimited
    <3>2. IsFiniteSet(stored \cup own[h])
      BY <3>1, FS_Union
    <3>3. QED
      BY <3>1, <3>2, FS_Subset, FS_CardinalityType
  <2>3. Cardinality(own[h]) < RateLimit
    BY <1>2, <2>1, <2>2
  <2>4. QED
    BY <1>1, <2>1, <2>3 DEF OwnIsLimited, StateType, Done
<1>6. CASE Reject(h) \/ Exists(h)
  <2>1. /\ pc[h] # "idle" /\ UNCHANGED <<stored, own, tries>>
        /\ \/ next_edit(h, own[h])
           \/ pc[h] = "exists" /\ pc' = [pc EXCEPT ![h] = "insert"]
    BY <1>6 DEF Reject, Exists, goto
  <2>2. CASE next_edit(h, own[h])
    <3>1. /\ pc'[h] \in {"edit", "retention", "commit"}
          /\ \A o \in Handler \ {h} : pc'[o] = pc[o]
      BY <1>1, <2>1, <2>2, NextEditMoves
    <3>2. QED
      BY <1>1, <2>1, <3>1 DEF OwnIsLimited, Done
  <2>3. CASE pc[h] = "exists" /\ pc' = [pc EXCEPT ![h] = "insert"]
    BY <1>1, <2>1, <2>3 DEF OwnIsLimited, StateType, Done
  <2>4. QED
    BY <2>1, <2>2, <2>3
<1>7. CASE Save(h)
  <2>1. /\ pc[h] = "insert" /\ next_edit(h, own'[h]) /\ UNCHANGED <<stored, tries>>
        /\ own' = [own EXCEPT ![h] = @ \cup {edit(h)}]
    BY <1>7 DEF Save
  <2>2. /\ own'[h] = own[h] \cup {edit(h)} /\ \A o \in Handler \ {h} : own'[o] = own[o]
    BY <1>1, <2>1 DEF RowsType
  <2>3. /\ pc'[h] \in {"edit", "retention", "commit"}
        /\ \A o \in Handler \ {h} : pc'[o] = pc[o]
    BY <1>1, <2>1, NextEditMoves
  <2>4. IsFiniteSet(own[h]) /\ Cardinality(own[h]) \in Nat /\ Cardinality(own[h]) < RateLimit
    BY <1>1, <2>1, FS_CardinalityType DEF OwnIsLimited
  <2>5. IsFiniteSet(own'[h]) /\ Cardinality(own'[h]) <= RateLimit
    BY <1>2, <2>2, <2>4, FS_AddElement
  <2>6. QED
    BY <1>1, <2>1, <2>2, <2>3, <2>5 DEF OwnIsLimited, Done
<1>8. CASE SaveFails(h) \/ Breaks(h)
  <2>1. /\ pc[h] # "idle" /\ own' = [own EXCEPT ![h] = {}] /\ stored' = stored
        /\ tries' = [tries EXCEPT ![h] = @ + 1] /\ pc' = [pc EXCEPT ![h] = "idle"]
    BY <1>8 DEF SaveFails, Breaks, Fail, goto
  <2>2. /\ own'[h] = {} /\ pc'[h] = "idle"
        /\ \A o \in Handler \ {h} : pc'[o] = pc[o] /\ own'[o] = own[o] /\ tries'[o] = tries[o]
    BY <1>1, <2>1 DEF StateType, RowsType
  <2>3. h \notin Done
    BY <1>1, <1>2, <2>1 DEF OwnIsLimited, Done, StateType
  <2>4. Done \subseteq Done'
    BY <2>2, <2>3 DEF Done
  <2>5. OwnIsLimited(h)'
    BY <1>2, <1>3, <2>2 DEF OwnIsLimited
  <2>6. QED
    BY <2>1, <2>2, <2>4, <2>5
<1>9. CASE Retention(h)
  <2>1. /\ pc[h] = "retention" /\ UNCHANGED <<stored, own, tries>>
        /\ pc' = [pc EXCEPT ![h] = "commit"]
    BY <1>9 DEF Retention, goto
  <2>2. QED
    BY <1>1, <2>1 DEF OwnIsLimited, StateType, Done
<1>10. CASE Commit(h)
  <2>1. /\ pc[h] = "commit" /\ own' = [own EXCEPT ![h] = {}] /\ stored' = stored \cup own[h]
        /\ tries' = [tries EXCEPT ![h] = MaxRetry] /\ pc' = [pc EXCEPT ![h] = "idle"]
    BY <1>10 DEF Commit, goto
  <2>2. /\ own'[h] = {} /\ pc'[h] = "idle" /\ tries'[h] = MaxRetry
        /\ \A o \in Handler \ {h} : pc'[o] = pc[o] /\ own'[o] = own[o] /\ tries'[o] = tries[o]
    BY <1>1, <2>1 DEF StateType, RowsType
  <2>3. h \notin Done
    BY <1>1, <1>2, <2>1 DEF OwnIsLimited, Done, StateType
  <2>4. Done \subseteq Done' /\ h \in Done'
    BY <2>2, <2>3 DEF Done
  <2>5. OwnIsLimited(h)'
    BY <1>2, <1>3, <2>2 DEF OwnIsLimited
  <2>6. QED
    BY <2>1, <2>2, <2>3, <2>4, <2>5
<1>11. QED
  BY <1>4, <1>5, <1>6, <1>7, <1>8, <1>9, <1>10 DEF Step

LEMMA Multiples ==
    ASSUME NEW a \in Nat, NEW b \in Nat, NEW c \in Nat, b <= c
    PROVE  a * b <= a * c /\ a * b \in Nat /\ a * c \in Nat /\ a * (b + 1) = a * b + a
<1>1. PICK d \in Nat : c = b + d
  BY c - b \in Nat
<1>2. a * c = a * b + a * d
  BY <1>1
<1>3. a * b \in Nat /\ a * d \in Nat
  OBVIOUS
<1>4. a * (b + 1) = a * b + a
  OBVIOUS
<1>5. QED
  BY <1>2, <1>3, <1>4

LEMMA LimitStep ==
    ASSUME JavaInv, LimitInv, [Next]_vars
    PROVE  LimitInv'
<1>1. IsFiniteSet(Handler) /\ RateLimit \in Nat
  BY LimitAssumption
<1>2. /\ IsFiniteSet(Done) /\ IsFiniteSet(Done')
      /\ Cardinality(Done) \in Nat /\ Cardinality(Done') \in Nat
  <2>1. Done \subseteq Handler /\ Done' \subseteq Handler
    BY DEF Done
  <2>2. QED
    BY <1>1, <2>1, FS_Subset, FS_CardinalityType
<1>3. /\ IsFiniteSet(stored) /\ Cardinality(stored) \in Nat
      /\ Cardinality(stored) <= RateLimit * Cardinality(Done)
  BY FS_CardinalityType DEF LimitInv, StoredIsLimited
<1>4. ASSUME NEW h \in Handler, Step(h) \/ Breaks(h) PROVE LimitInv'
  <2>1. \A o \in Handler : OwnIsLimited(o)'
    BY <1>4, OwnRows DEF LimitInv, OwnIsLimited
  <2>2. CASE stored' = stored /\ Done \subseteq Done'
    <3>1. Cardinality(Done) <= Cardinality(Done')
      BY <1>2, <2>2, FS_Subset
    <3>2. /\ RateLimit * Cardinality(Done) <= RateLimit * Cardinality(Done')
          /\ RateLimit * Cardinality(Done) \in Nat /\ RateLimit * Cardinality(Done') \in Nat
      BY <1>1, <1>2, <3>1, Multiples
    <3>3. QED
      BY <1>3, <2>1, <2>2, <3>2 DEF LimitInv, StoredIsLimited
  <2>3. CASE stored' = stored \cup own[h] /\ h \in Done' \ Done /\ Done \subseteq Done'
    <3>1. /\ IsFiniteSet(own[h]) /\ Cardinality(own[h]) <= RateLimit
          /\ Cardinality(own[h]) \in Nat
      BY FS_CardinalityType DEF LimitInv, OwnIsLimited
    <3>2. /\ IsFiniteSet(stored') /\ Cardinality(stored') \in Nat
          /\ Cardinality(stored') <= Cardinality(stored) + Cardinality(own[h])
      <4>1. /\ IsFiniteSet(stored \cup own[h]) /\ IsFiniteSet(stored \cap own[h])
            /\ Cardinality(stored \cup own[h])
                 = Cardinality(stored) + Cardinality(own[h]) - Cardinality(stored \cap own[h])
        BY <1>3, <3>1, FS_Union, FS_Intersection
      <4>2. Cardinality(stored \cap own[h]) \in Nat /\ Cardinality(stored \cup own[h]) \in Nat
        BY <4>1, FS_CardinalityType
      <4>3. QED
        BY <1>3, <2>3, <3>1, <4>1, <4>2
    <3>3. Cardinality(Done) + 1 <= Cardinality(Done')
      <4>1. IsFiniteSet(Done \cup {h}) /\ Cardinality(Done \cup {h}) = Cardinality(Done) + 1
        BY <1>2, <2>3, FS_AddElement
      <4>2. QED
        BY <1>2, <2>3, <4>1, FS_Subset
    <3>4. /\ RateLimit * (Cardinality(Done) + 1) <= RateLimit * Cardinality(Done')
          /\ RateLimit * (Cardinality(Done) + 1) = RateLimit * Cardinality(Done) + RateLimit
          /\ RateLimit * Cardinality(Done) \in Nat /\ RateLimit * Cardinality(Done') \in Nat
      <4>1. Cardinality(Done) + 1 \in Nat
        BY <1>2
      <4>2. QED
        BY <1>1, <1>2, <3>3, <4>1, Multiples
    <3>5. QED
      BY <1>1, <1>3, <2>1, <3>1, <3>2, <3>4 DEF LimitInv, StoredIsLimited
  <2>4. QED
    BY <1>4, <2>2, <2>3, OwnRows
<1>5. CASE UNCHANGED vars
  BY <1>5 DEF vars, LimitInv, StoredIsLimited, OwnIsLimited, Done
<1>6. QED
  BY <1>4, <1>5 DEF Next

LEMMA LimitInit == Init => LimitInv
<1> SUFFICES ASSUME Init PROVE LimitInv
  OBVIOUS
<1>1. IsFiniteSet({}) /\ Cardinality({}) = 0 /\ RateLimit \in Nat
  BY FS_EmptySet, LimitAssumption
<1>2. \A h \in Handler : OwnIsLimited(h)
  BY <1>1 DEF Init, OwnIsLimited
<1>3. IsFiniteSet(Done) /\ Cardinality(Done) \in Nat
  <2>1. Done \subseteq Handler
    BY DEF Done
  <2>2. QED
    BY <2>1, LimitAssumption, FS_Subset, FS_CardinalityType
<1>4. 0 <= RateLimit * Cardinality(Done)
  BY <1>1, <1>3, Multiples
<1>5. QED
  BY <1>1, <1>2, <1>4 DEF Init, LimitInv, StoredIsLimited

THEOREM JavaLimits == Spec => []LimitInv
<1>1. JavaInv /\ LimitInv /\ [Next]_vars => LimitInv'
  BY LimitStep
<1>2. QED
  BY <1>1, LimitInit, JavaInvariant, PTL DEF Spec

-----------------------------------------------------------------------------
\* Handlers that wait for each other's rows never wait in a circle: each waits
\* for a handler that is at a later edit, since uncommitted rows are edits before
\* the one a handler is at and batches are in the order of their ids.
THEOREM JavaWaitsGoUp == Spec => []WaitsGoUp
<1>1. JavaInv => WaitsGoUp
  <2> SUFFICES ASSUME JavaInv, NEW h \in Handler, NEW o \in Handler,
                      waits_for(h, o), pc[o] = "insert"
               PROVE  edit(h) < edit(o)
    BY DEF WaitsGoUp
  <2>1. InBatch(o) /\ OwnIsBehind(o)
    BY DEF JavaInv
  <2>2. PICK k \in 1 .. i[o] - 1 : edit(h) = Batch[o][k]
    BY <2>1 DEF waits_for, OwnIsBehind
  <2>3. k \in 1 .. Len(Batch[o]) /\ i[o] \in 1 .. Len(Batch[o]) /\ k < i[o]
    BY <2>1, <2>2, BatchTyped DEF InBatch
  <2>4. QED
    BY <2>2, <2>3, BatchTyped DEF edit
<1>2. QED
  BY <1>1, JavaInvariant, PTL

\* An edit that a 200 does not report as rejected is in the table: a row another
\* request may still roll back was not taken for existing.
THEOREM JavaAcknowledgesStored == Spec => AcknowledgedIsStored
<1>1. JavaInv /\ [Next]_vars =>
        [\A h \in Handler : Commit(h) => \A k \in acked[h] : Batch[h][k] \in stored']_vars
  BY DEF JavaInv, AckedIsVisible, Commit
<1>2. QED
  BY <1>1, JavaInvariant, PTL DEF Spec, AcknowledgedIsStored

\* A file's hourly limit is exceeded at most by what each request stores without
\* seeing the others' rows.
THEOREM JavaBoundsRates == Spec => []RateBound
<1>1. LimitInv => RateBound
  <2> SUFFICES ASSUME LimitInv PROVE RateBound
    OBVIOUS
  <2>1. Done \subseteq Handler /\ IsFiniteSet(Handler) /\ RateLimit \in Nat
    BY LimitAssumption DEF Done
  <2>2. /\ Cardinality(Done) <= Cardinality(Handler)
        /\ Cardinality(Done) \in Nat /\ Cardinality(Handler) \in Nat
    BY <2>1, FS_Subset, FS_CardinalityType
  <2>3. /\ RateLimit * Cardinality(Done) <= RateLimit * Cardinality(Handler)
        /\ RateLimit * Cardinality(Done) \in Nat /\ RateLimit * Cardinality(Handler) \in Nat
    BY <2>1, <2>2, Multiples
  <2>4. Cardinality(stored) \in Nat /\ Cardinality(stored) <= RateLimit * Cardinality(Done)
    BY FS_CardinalityType DEF LimitInv, StoredIsLimited
  <2>5. QED
    BY <2>3, <2>4 DEF RateBound
<1>2. QED
  BY <1>1, JavaLimits, PTL
=============================================================================
