----------------------------- MODULE PruneProofs -----------------------------
(***************************************************************************)
(* Proofs about RecordPrune: what holds of the caps of records.db although *)
(* each one is a COUNT and a DELETE that other processes come between, for *)
(* any processes and caps.                                                 *)
(*                                                                         *)
(* The argument: as long as no process is killed, each cap that is         *)
(* exceeded has a process that answers for it: one that will still count   *)
(* it, or one whose count was no smaller than the overage is now           *)
(* (CapInv).  And the overage of the two caps that reach rows which can    *)
(* still be uploaded is covered by the processes that are not past them,   *)
(* each of which inserted one batch at most, and by those that were        *)
(* killed; so it is without any of the processes that have counted it,     *)
(* once one of these has deleted what it counted (DrainInv).               *)
(***************************************************************************)
EXTENDS RecordPrune, FiniteSetTheorems, TLAPS

\* There are finitely many processes; a cap is a number of rows, and a batch too.
PruneConstants ==
    /\ IsFiniteSet(Proc)
    /\ MaxSynced \in Nat /\ MaxSpent \in Nat /\ MaxDead \in Nat /\ MaxPending \in Nat
    /\ MaxBatch \in Nat \ {0}

Cap == 1 .. 5

held(k) == of_kind(caps[k].kinds)

PruneTypeOK ==
    /\ last_id \in Nat
    /\ rows \in [DOMAIN rows -> Kinds]
    /\ DOMAIN rows \subseteq 1 .. last_id
    /\ pc \in [Proc -> {"idle", "flush", "prune"}]
    /\ at \in [Proc -> Cap]
    /\ over \in [Proc -> Nat]
    /\ crashes \in Nat

\* A process has a place among the caps and an overage only while it prunes.
PlaceInv == \A p \in Proc : pc[p] # "prune" => at[p] = 1 /\ over[p] = 0

\* The process p has yet to count the cap k.
counts(p, k) ==
    \/ pc[p] = "flush"
    \/ pc[p] = "prune" /\ (at[p] < k \/ (at[p] = k /\ over[p] = 0))

\* The process p is about to delete what is over the cap k.
clears(p, k) == at[p] = k /\ over[p] >= overage(caps[k])

CapInv == crashes = 0 => \A k \in Cap :
    overage(caps[k]) > 0 => \E p \in Proc : counts(p, k) \/ clears(p, k)

\* The processes that are not past the cap k.
before_cap(k) == {p \in Proc : pc[p] = "flush" \/ (pc[p] = "prune" /\ at[p] <= k)}

\* The processes that have counted the cap k and not deleted yet.
counted(k) == {p \in before_cap(k) : at[p] = k /\ over[p] > 0}

\* What the other processes before the cap, and those killed, may have inserted.
budget(k, S) == MaxBatch * (Cardinality(before_cap(k) \ S) + crashes)

\* One of the DELETEs of S, or none, leaves over the cap what the others answer for.
covered(k, S) ==
    \/ overage(caps[k]) <= budget(k, S)
    \/ \E p \in S : overage(caps[k]) <= over[p] + budget(k, S)

DrainAt(k) == \A S \in SUBSET counted(k) : covered(k, S)
DrainInv == \A k \in {4, 5} : DrainAt(k)

PruneInv == PruneTypeOK /\ PlaceInv /\ CapInv /\ DrainInv /\ StaleDeleteIsSmall

\* A hook or a scan inserts.
Inserts(p) ==
    \/ \E kind \in {"live", "dead"} : InsertRecord(p, kind)
    \/ \E batch \in Batch : InsertEvents(p, batch)

\* A process inserts n rows, and will prune.
AddsRows(p, n) ==
    /\ pc[p] = "idle"
    /\ pc' = [pc EXCEPT ![p] = "flush"] \/ pc' = [pc EXCEPT ![p] = "prune"]
    /\ UNCHANGED <<at, over, crashes>>
    /\ last_id' = last_id + n
    /\ DOMAIN rows' = DOMAIN rows \cup (last_id + 1) .. (last_id + n)
    /\ rows' \in [DOMAIN rows' -> Kinds]
    /\ \A i \in DOMAIN rows : rows'[i] = rows[i]

-----------------------------------------------------------------------------
(***************************************************************************)
(* The first rows of an order.                                             *)
(***************************************************************************)
\* R orders S strictly, and any two elements of it.
Orders(R, S) ==
    /\ \A i \in S : <<i, i>> \notin R
    /\ \A i, j, k \in S : <<i, j>> \in R /\ <<j, k>> \in R => <<i, k>> \in R
    /\ \A i, j \in S : i # j => <<i, j>> \in R \/ <<j, i>> \in R

Preceding(R, S, i) == {j \in S : <<j, i>> \in R}

FirstOf(R, S, n) == {i \in S : Cardinality(Preceding(R, S, i)) < n}

\* An element has all those before it that an earlier one has, and that one.
LEMMA PrecedingGrows ==
    ASSUME NEW S, IsFiniteSet(S), NEW R, Orders(R, S), NEW i \in S, NEW j \in S,
           <<i, j>> \in R
    PROVE  /\ Cardinality(Preceding(R, S, i)) \in Nat
           /\ Cardinality(Preceding(R, S, j)) \in Nat
           /\ Cardinality(Preceding(R, S, i)) < Cardinality(Preceding(R, S, j))
<1> DEFINE I == Preceding(R, S, i)
           J == Preceding(R, S, j)
<1>1. IsFiniteSet(I) /\ IsFiniteSet(J)
  BY FS_Subset DEF Preceding
<1>2. i \notin I /\ I \cup {i} \subseteq J
  BY DEF Preceding, Orders
<1>3. /\ IsFiniteSet(I \cup {i})
      /\ Cardinality(I \cup {i}) = Cardinality(I) + 1
  BY <1>1, <1>2, FS_AddElement
<1>4. Cardinality(I \cup {i}) <= Cardinality(J)
  BY <1>1, <1>2, FS_Subset
<1>5. Cardinality(I) \in Nat /\ Cardinality(J) \in Nat
  BY <1>1, FS_CardinalityType
<1>6. QED
  BY <1>3, <1>4, <1>5

\* The first n numbers.
LEMMA CountTo ==
    ASSUME NEW n \in Nat
    PROVE  IsFiniteSet(0 .. n - 1) /\ Cardinality(0 .. n - 1) = n
<1>1. 0 \in Int /\ n - 1 \in Int
  OBVIOUS
<1>2. Cardinality(0 .. n - 1) = IF 0 > n - 1 THEN 0 ELSE (n - 1) - 0 + 1
  BY <1>1, FS_Interval
<1>3. IsFiniteSet(0 .. n - 1)
  BY <1>1, FS_Interval
<1>4. QED
  BY <1>2, <1>3

\* LIMIT n takes n rows, or all of them.
LEMMA FirstOfCount ==
    ASSUME NEW S, IsFiniteSet(S), NEW R, Orders(R, S), NEW n \in Nat
    PROVE  Cardinality(FirstOf(R, S, n)) = IF n <= Cardinality(S) THEN n ELSE Cardinality(S)
<1> DEFINE N == Cardinality(S)
           r == [i \in S |-> Cardinality(Preceding(R, S, i))]
<1>1. N \in Nat
  BY FS_CardinalityType
<1>2. ASSUME NEW i \in S PROVE r[i] \in 0 .. N - 1
  <2>1. /\ IsFiniteSet(S \ {i})
        /\ Cardinality(S \ {i}) = N - 1
    BY FS_RemoveElement
  <2>2. Preceding(R, S, i) \subseteq S \ {i}
    BY DEF Preceding, Orders
  <2>3. /\ IsFiniteSet(Preceding(R, S, i))
        /\ Cardinality(Preceding(R, S, i)) <= N - 1
    BY <2>1, <2>2, FS_Subset
  <2>4. Cardinality(Preceding(R, S, i)) \in Nat
    BY <2>3, FS_CardinalityType
  <2>5. QED
    BY <1>1, <2>3, <2>4
<1>3. ASSUME NEW i \in S, NEW j \in S, r[i] = r[j] PROVE i = j
  <2>1. ~(<<i, j>> \in R)
    <3> SUFFICES ASSUME <<i, j>> \in R PROVE FALSE
      OBVIOUS
    <3>1. r[i] < r[j] /\ r[i] \in Int /\ r[j] \in Int
      BY PrecedingGrows
    <3>2. QED
      BY <1>3, <3>1
  <2>2. ~(<<j, i>> \in R)
    <3> SUFFICES ASSUME <<j, i>> \in R PROVE FALSE
      OBVIOUS
    <3>1. r[j] < r[i] /\ r[i] \in Int /\ r[j] \in Int
      BY PrecedingGrows
    <3>2. QED
      BY <1>3, <3>1
  <2>3. QED
    BY <2>1, <2>2 DEF Orders
<1>4. r \in Injection(S, 0 .. N - 1)
  BY <1>2, <1>3 DEF Injection, IsInjective
<1>5. /\ IsFiniteSet(0 .. N - 1)
      /\ Cardinality(0 .. N - 1) = N
  BY <1>1, CountTo
<1>6. r \in Surjection(S, 0 .. N - 1)
  BY <1>4, <1>5, FS_Injection
<1> DEFINE m == IF n <= N THEN n ELSE N
           F == FirstOf(R, S, n)
           g == [i \in F |-> r[i]]
<1>7. /\ IsFiniteSet(0 .. m - 1)
      /\ Cardinality(0 .. m - 1) = m
  <2>1. m \in Nat
    BY <1>1
  <2>2. QED
    BY <2>1, CountTo
<1>8. F = {i \in S : r[i] < n}
  BY DEF FirstOf
<1>9. g \in Injection(F, 0 .. m - 1)
  <2>1. ASSUME NEW i \in F PROVE g[i] \in 0 .. m - 1
    BY <1>1, <1>2, <1>8
  <2>2. ASSUME NEW i \in F, NEW j \in F, g[i] = g[j] PROVE i = j
    BY <2>2, <1>3, <1>8
  <2>3. QED
    BY <2>1, <2>2 DEF Injection, IsInjective
<1>10. g \in Surjection(F, 0 .. m - 1)
  <2>1. ASSUME NEW v \in 0 .. m - 1 PROVE \E i \in F : g[i] = v
    <3>1. v \in 0 .. N - 1 /\ v < n
      BY <1>1
    <3>2. PICK i \in S : r[i] = v
      BY <1>6, <3>1 DEF Surjection
    <3>3. i \in F
      BY <1>8, <3>1, <3>2
    <3>4. QED
      BY <3>2, <3>3
  <2>2. QED
    BY <2>1, <1>9 DEF Injection, Surjection
<1>11. IsFiniteSet(F)
  BY <1>8, FS_Subset
<1>12. Cardinality(0 .. m - 1) = Cardinality(F)
  BY <1>9, <1>10, <1>11, FS_Surjection
<1>13. QED
  BY <1>7, <1>12

-----------------------------------------------------------------------------
(***************************************************************************)
(* The caps.                                                               *)
(***************************************************************************)
\* What is needed of the five caps.
LEMMA Caps ==
    ASSUME PruneConstants
    PROVE  /\ Len(caps) = 5 /\ DOMAIN caps = Cap
           /\ \A k \in Cap : caps[k].keep \in Nat /\ caps[k].kinds \subseteq Kinds
           /\ caps[4].kinds = Kinds \ {"synced"} /\ caps[5].kinds = Kinds
           /\ caps[1].kinds = {"synced"}
           /\ caps[1].keep = MaxSynced /\ caps[4].keep = MaxPending
           /\ caps[5].keep = MaxSynced + MaxPending
BY DEF caps, Cap, PruneConstants, Kinds

\* The rows of a cap are finitely many, and so its overage is a number.
LEMMA Overages ==
    ASSUME PruneConstants, PruneTypeOK, NEW kinds
    PROVE  /\ IsFiniteSet(of_kind(kinds))
           /\ Cardinality(of_kind(kinds)) \in Nat
<1>1. IsFiniteSet(1 .. last_id)
  <2>1. 1 \in Int /\ last_id \in Int
    BY DEF PruneTypeOK
  <2>2. QED
    BY <2>1, FS_Interval
<1>2. of_kind(kinds) \subseteq 1 .. last_id
  BY DEF of_kind, PruneTypeOK
<1>3. QED
  BY <1>1, <1>2, FS_Subset, FS_CardinalityType

\* An overage is the number of rows held less the cap.
LEMMA OverageType ==
    ASSUME PruneConstants, PruneTypeOK, NEW k \in Cap
    PROVE  /\ overage(caps[k]) \in Int
           /\ overage(caps[k]) = Cardinality(held(k)) - caps[k].keep
           /\ Cardinality(held(k)) \in Nat
           /\ caps[k].keep \in Nat
BY Overages, Caps DEF overage, held

\* The rows before the cap are counted or not: finitely many processes.
LEMMA BeforeCapFinite ==
    ASSUME PruneConstants, NEW k
    PROVE  /\ IsFiniteSet(before_cap(k))
           /\ Cardinality(before_cap(k)) \in Nat
           /\ Cardinality(Proc) \in Nat
           /\ Cardinality(before_cap(k)) <= Cardinality(Proc)
<1>1. before_cap(k) \subseteq Proc
  BY DEF before_cap
<1>2. QED
  BY <1>1, FS_Subset, FS_CardinalityType DEF PruneConstants

\* A product grows with its factor.
LEMMA Times ==
    ASSUME NEW n \in Nat, NEW i \in Nat, NEW j \in Nat, i <= j
    PROVE  /\ n * i \in Nat /\ n * j \in Nat
           /\ n * i <= n * j
           /\ n * (i + 1) = n * i + n
OBVIOUS

\* A budget is a number.
LEMMA BudgetType ==
    ASSUME PruneConstants, PruneTypeOK, NEW k, NEW S
    PROVE  /\ IsFiniteSet(before_cap(k) \ S)
           /\ Cardinality(before_cap(k) \ S) \in Nat
           /\ Cardinality(before_cap(k) \ S) <= Cardinality(Proc)
           /\ budget(k, S) \in Nat
<1>1. before_cap(k) \ S \subseteq Proc
  BY DEF before_cap
<1>2. /\ IsFiniteSet(before_cap(k) \ S)
      /\ Cardinality(before_cap(k) \ S) \in Nat
      /\ Cardinality(before_cap(k) \ S) <= Cardinality(Proc)
  BY <1>1, FS_Subset, FS_CardinalityType DEF PruneConstants
<1>3. crashes \in Nat /\ MaxBatch \in Nat
  BY DEF PruneTypeOK, PruneConstants
<1>4. Cardinality(before_cap(k) \ S) + crashes \in Nat
  BY <1>2, <1>3
<1>5. budget(k, S) \in Nat
  BY <1>3, <1>4, Times DEF budget
<1>6. QED
  BY <1>2, <1>5

\* A DELETE takes rows of its own cap only, and as many as its overage says.
LEMMA DeleteTakes ==
    ASSUME PruneConstants, PruneTypeOK, NEW p \in Proc, over[p] > 0,
           NEW taken, taken = first_rows(p, held(at[p]))
    PROVE  /\ taken \subseteq held(at[p])
           /\ IsFiniteSet(taken)
           /\ Cardinality(taken) = IF over[p] <= Cardinality(held(at[p]))
                                   THEN over[p] ELSE Cardinality(held(at[p]))
           /\ \A i \in held(at[p]), j \in taken : goes_before(p, i, j) => i \in taken
<1> DEFINE S == held(at[p])
           R == {e \in S \X S : goes_before(p, e[1], e[2])}
<1>1. at[p] \in Cap /\ over[p] \in Nat
  BY DEF PruneTypeOK
<1>2. IsFiniteSet(S)
  BY <1>1, Overages DEF held
<1>3. S \subseteq Nat
  BY DEF held, of_kind, PruneTypeOK
<1>4. \A i, j \in S : <<i, j>> \in R <=> goes_before(p, i, j)
  OBVIOUS
<1>5. \A i \in S : rank(i) \in 0 .. 2
  BY DEF rank
<1>6. Orders(R, S)
  <2>1. \A i \in S : ~goes_before(p, i, i)
    BY <1>3, <1>5 DEF goes_before
  <2>2. \A i, j, k \in S : goes_before(p, i, j) /\ goes_before(p, j, k) => goes_before(p, i, k)
    BY <1>3, <1>5 DEF goes_before
  <2>3. \A i, j \in S : i # j => goes_before(p, i, j) \/ goes_before(p, j, i)
    BY <1>3, <1>5 DEF goes_before
  <2>4. QED
    BY <1>4, <2>1, <2>2, <2>3 DEF Orders
<1>7. \A i \in S : {j \in S : goes_before(p, j, i)} = Preceding(R, S, i)
  BY <1>4 DEF Preceding
<1>8. taken = FirstOf(R, S, over[p])
  BY <1>7 DEF first_rows, FirstOf
<1>9. taken \subseteq S /\ IsFiniteSet(taken)
  BY <1>2, <1>8, FS_Subset DEF FirstOf
<1>10. Cardinality(taken) = IF over[p] <= Cardinality(S) THEN over[p] ELSE Cardinality(S)
  BY <1>1, <1>2, <1>6, <1>8, FirstOfCount
<1>11. ASSUME NEW i \in S, NEW j \in taken, goes_before(p, i, j) PROVE i \in taken
  <2>1. j \in S /\ Cardinality(Preceding(R, S, j)) < over[p]
    BY <1>8 DEF FirstOf
  <2>2. /\ Cardinality(Preceding(R, S, i)) \in Nat
        /\ Cardinality(Preceding(R, S, j)) \in Nat
        /\ Cardinality(Preceding(R, S, i)) < Cardinality(Preceding(R, S, j))
    BY <1>2, <1>4, <1>6, <1>11, <2>1, PrecedingGrows
  <2>3. QED
    BY <1>1, <1>8, <2>1, <2>2 DEF FirstOf
<1>12. QED
  BY <1>9, <1>10, <1>11

\* After a DELETE each cap holds what it held, without the rows taken.
LEMMA DeleteLeaves ==
    ASSUME PruneConstants, PruneTypeOK, NEW p \in Proc, Delete(p), PruneTypeOK',
           NEW k \in Cap, k = at[p], NEW taken, taken = first_rows(p, held(k))
    PROVE  /\ \A kinds : of_kind(kinds)' = of_kind(kinds) \ taken
           /\ \A c \in Cap : Cardinality(held(c)') <= Cardinality(held(c))
           /\ Cardinality(held(k)') = Cardinality(held(k)) - Cardinality(taken)
<1>1. over[p] > 0 /\ at[p] \in Cap
  BY DEF Delete, PruneTypeOK
<1>2. rows' = [i \in DOMAIN rows \ taken |-> rows[i]]
  BY DEF Delete, held
<1>3. \A kinds : of_kind(kinds)' = of_kind(kinds) \ taken
  BY <1>2 DEF of_kind
<1>4. ASSUME NEW c \in Cap
      PROVE  /\ held(c)' = held(c) \ taken
             /\ IsFiniteSet(held(c))
  BY <1>3, Overages DEF held, caps
<1>5. ASSUME NEW c \in Cap PROVE Cardinality(held(c)') <= Cardinality(held(c))
  BY <1>4, FS_Subset
<1>6. taken \subseteq held(k)
  BY <1>1, DeleteTakes
<1>7. Cardinality(held(k)') = Cardinality(held(k)) - Cardinality(taken)
  <2>1. held(k) \cap taken = taken
    BY <1>6
  <2>2. IsFiniteSet(held(k))
    BY <1>4
  <2>3. Cardinality(held(k) \ taken) = Cardinality(held(k)) - Cardinality(held(k) \cap taken)
    BY <2>2, FS_Difference
  <2>4. QED
    BY <1>4, <2>1, <2>3
<1>8. QED
  BY <1>3, <1>5, <1>7

-----------------------------------------------------------------------------
(***************************************************************************)
(* Types and places.                                                       *)
(***************************************************************************)
\* A process goes on to the next cap, and is idle after the last one.
LEMMA NextCap ==
    ASSUME PruneConstants, PruneTypeOK, NEW p \in Proc, next_cap(p)
    PROVE  /\ at' = [at EXCEPT ![p] = IF at[p] = 5 THEN 1 ELSE at[p] + 1]
           /\ pc' = [pc EXCEPT ![p] = IF at[p] = 5 THEN "idle" ELSE "prune"]
<1>1. at[p] \in {1, 2, 3, 4, 5}
  BY DEF PruneTypeOK, Cap
<1>2. (at[p] % 5) + 1 = IF at[p] = 5 THEN 1 ELSE at[p] + 1
  BY <1>1
<1>3. QED
  BY <1>2, Caps DEF next_cap, goto

\* The empty table is within all caps.
LEMMA InitPrune == ASSUME PruneConstants, PruneInit PROVE PruneInv
<1>1. rows = [i \in {} |-> "live"] /\ DOMAIN rows = {}
  BY DEF PruneInit
<1>2. PruneTypeOK
  BY <1>1 DEF PruneInit, PruneTypeOK, Cap, Kinds
<1>3. PlaceInv /\ StaleDeleteIsSmall
  BY DEF PruneInit, PlaceInv, StaleDeleteIsSmall
<1>4. ASSUME NEW k \in Cap PROVE overage(caps[k]) <= 0
  <2>1. Cardinality(held(k)) = 0
    BY <1>1, FS_EmptySet DEF held, of_kind
  <2>2. QED
    BY <1>2, <2>1, OverageType
<1>5. CapInv
  <2> SUFFICES ASSUME NEW k \in Cap, overage(caps[k]) > 0 PROVE FALSE
    BY DEF CapInv
  <2>1. overage(caps[k]) \in Int /\ overage(caps[k]) <= 0
    BY <1>2, <1>4, OverageType
  <2>2. QED
    BY <2>1
<1>6. ASSUME NEW k \in {4, 5}, NEW S \in SUBSET counted(k) PROVE covered(k, S)
  <2>1. k \in Cap
    BY DEF Cap
  <2>2. budget(k, S) \in Nat
    BY <1>2, BudgetType
  <2>3. QED
    BY <1>2, <1>4, <2>1, <2>2, OverageType DEF covered
<1>7. QED
  BY <1>2, <1>3, <1>5, <1>6 DEF PruneInv, DrainInv, DrainAt

\* What is inserted is a batch of rows with new ids.
LEMMA InsertsBatch ==
    ASSUME PruneConstants, PruneTypeOK, NEW p \in Proc, Inserts(p)
    PROVE  \E n \in 0 .. MaxBatch : AddsRows(p, n)
<1>1. ASSUME NEW n \in 0 .. MaxBatch, NEW batch \in [1 .. n -> {"live", "dead"}],
             insert_rows(p, batch),
             pc' = [pc EXCEPT ![p] = "flush"] \/ pc' = [pc EXCEPT ![p] = "prune"]
      PROVE  AddsRows(p, n)
  <2>1. n \in Nat /\ last_id \in Nat /\ Len(batch) = n
    BY <1>1 DEF PruneConstants, PruneTypeOK
  <2>2. /\ pc[p] = "idle" /\ UNCHANGED <<at, over, crashes>> /\ last_id' = last_id + n
        /\ rows' = [i \in DOMAIN rows \cup (last_id + 1) .. last_id' |->
                      IF i > last_id THEN batch[i - last_id] ELSE rows[i]]
    BY <1>1, <2>1 DEF insert_rows
  <2>3. DOMAIN rows' = DOMAIN rows \cup (last_id + 1) .. (last_id + n)
    BY <2>2
  <2>4. ASSUME NEW i \in DOMAIN rows PROVE rows'[i] = rows[i] /\ rows[i] \in Kinds
    <3>1. i \in 1 .. last_id
      BY DEF PruneTypeOK
    <3>2. ~(i > last_id)
      BY <2>1, <3>1
    <3>3. QED
      BY <2>2, <3>2 DEF PruneTypeOK
  <2>5. ASSUME NEW i \in (last_id + 1) .. (last_id + n) PROVE rows'[i] \in Kinds
    <3>1. i > last_id /\ i - last_id \in 1 .. n
      BY <2>1
    <3>2. rows'[i] = batch[i - last_id]
      BY <2>2, <3>1
    <3>3. QED
      BY <1>1, <3>1, <3>2 DEF Kinds
  <2>6. rows' \in [DOMAIN rows' -> Kinds]
    BY <2>2, <2>3, <2>4, <2>5
  <2>7. QED
    BY <1>1, <2>2, <2>3, <2>4, <2>6 DEF AddsRows
<1>2. ASSUME NEW kind \in {"live", "dead"}, InsertRecord(p, kind)
      PROVE  AddsRows(p, 1)
  <2>1. /\ 1 \in 0 .. MaxBatch /\ <<kind>> \in [1 .. 1 -> {"live", "dead"}]
        /\ insert_rows(p, <<kind>>) /\ pc' = [pc EXCEPT ![p] = "flush"]
    BY <1>2 DEF InsertRecord, goto, PruneConstants
  <2>2. QED
    BY <1>1, <2>1
<1>3. ASSUME NEW batch \in Batch, InsertEvents(p, batch)
      PROVE  \E n \in 0 .. MaxBatch : AddsRows(p, n)
  <2>1. PICK n \in 0 .. MaxBatch : batch \in [1 .. n -> {"live", "dead"}]
    BY <1>3 DEF Batch
  <2>2. insert_rows(p, batch) /\ pc' = [pc EXCEPT ![p] = "prune"]
    BY <1>3 DEF InsertEvents, goto
  <2>3. QED
    BY <1>1, <2>1, <2>2
<1>4. 1 \in 0 .. MaxBatch
  BY DEF PruneConstants
<1>5. QED
  BY <1>2, <1>3, <1>4 DEF Inserts

\* Every action keeps the types, and the ids below the sequence.
LEMMA TypeStep ==
    ASSUME PruneConstants, PruneTypeOK, [PruneNext]_vars
    PROVE  PruneTypeOK'
<1> USE DEF Kinds
<1>1. ASSUME NEW p \in Proc, Inserts(p) PROVE PruneTypeOK'
  <2>1. PICK n \in 0 .. MaxBatch : AddsRows(p, n)
    BY <1>1, InsertsBatch
  <2>2. n \in Nat /\ last_id \in Nat /\ last_id' = last_id + n
    BY <2>1 DEF AddsRows, PruneTypeOK, PruneConstants
  <2>3. DOMAIN rows' \subseteq 1 .. last_id'
    BY <2>1, <2>2 DEF AddsRows, PruneTypeOK
  <2>4. rows' \in [DOMAIN rows' -> Kinds] /\ UNCHANGED <<at, over, crashes>>
    BY <2>1 DEF AddsRows
  <2>5. pc' \in [Proc -> {"idle", "flush", "prune"}]
    BY <2>1 DEF AddsRows, PruneTypeOK
  <2>6. QED
    BY <2>2, <2>3, <2>4, <2>5 DEF PruneTypeOK
<1>2. ASSUME NEW p \in Proc, NEW done, NEW failed, Flush(p, done, failed)
      PROVE  PruneTypeOK'
  <2>1. DOMAIN rows' = DOMAIN rows /\ rows' \in [DOMAIN rows' -> Kinds]
    BY <1>2 DEF Flush, PruneTypeOK
  <2>2. QED
    BY <1>2, <2>1 DEF Flush, goto, PruneTypeOK
<1>3. ASSUME NEW p \in Proc, Count(p) PROVE PruneTypeOK'
  <2>1. CASE overage(caps[at[p]]) > 0
    <3>1. overage(caps[at[p]]) \in Nat
      BY <2>1, OverageType DEF PruneTypeOK
    <3>2. QED
      BY <1>3, <2>1, <3>1 DEF Count, PruneTypeOK
  <2>2. CASE ~(overage(caps[at[p]]) > 0)
    <3>1. next_cap(p) /\ UNCHANGED <<rows, last_id, crashes, over>>
      BY <1>3, <2>2 DEF Count
    <3>2. (IF at[p] = 5 THEN 1 ELSE at[p] + 1) \in Cap
      BY DEF PruneTypeOK, Cap
    <3>3. QED
      BY <3>1, <3>2, NextCap DEF PruneTypeOK
  <2>3. QED
    BY <2>1, <2>2
<1>4. ASSUME NEW p \in Proc, Delete(p) PROVE PruneTypeOK'
  <2>1. DOMAIN rows' \subseteq DOMAIN rows /\ rows' \in [DOMAIN rows' -> Kinds]
    BY <1>4 DEF Delete, PruneTypeOK
  <2>2. (IF at[p] = 5 THEN 1 ELSE at[p] + 1) \in Cap
    BY DEF PruneTypeOK, Cap
  <2>3. over' = [over EXCEPT ![p] = 0] /\ UNCHANGED <<last_id, crashes>> /\ next_cap(p)
    BY <1>4 DEF Delete
  <2>4. QED
    BY <2>1, <2>2, <2>3, NextCap DEF PruneTypeOK
<1>5. ASSUME NEW p \in Proc, Crash(p) PROVE PruneTypeOK'
  BY <1>5 DEF Crash, goto, PruneTypeOK, Cap
<1>6. CASE UNCHANGED vars
  BY <1>6 DEF vars, PruneTypeOK
<1>7. QED
  BY <1>1, <1>2, <1>3, <1>4, <1>5, <1>6 DEF PruneNext, Inserts

\* Every action keeps the places.
LEMMA PlaceStep ==
    ASSUME PruneConstants, PruneTypeOK, PlaceInv, [PruneNext]_vars
    PROVE  PlaceInv'
<1>1. ASSUME NEW p \in Proc, next_cap(p), over' = over \/ over' = [over EXCEPT ![p] = 0],
             over'[p] = 0
      PROVE  PlaceInv'
  BY <1>1, NextCap DEF PlaceInv, PruneTypeOK
<1>2. ASSUME NEW p \in Proc, Count(p) PROVE PlaceInv'
  BY <1>1, <1>2 DEF Count, PlaceInv, PruneTypeOK
<1>3. ASSUME NEW p \in Proc, Delete(p) PROVE PlaceInv'
  BY <1>1, <1>3 DEF Delete, PruneTypeOK
<1>4. ASSUME NEW p \in Proc, NEW done, NEW failed, Flush(p, done, failed) PROVE PlaceInv'
  BY <1>4 DEF Flush, goto, PlaceInv, PruneTypeOK
<1>5. ASSUME NEW p \in Proc, Inserts(p) PROVE PlaceInv'
  BY <1>5, InsertsBatch DEF AddsRows, PlaceInv, PruneTypeOK
<1>6. ASSUME NEW p \in Proc, Crash(p) PROVE PlaceInv'
  BY <1>6 DEF Crash, goto, PlaceInv, PruneTypeOK
<1>7. CASE UNCHANGED vars
  BY <1>7 DEF vars, PlaceInv
<1>8. QED
  BY <1>2, <1>3, <1>4, <1>5, <1>6, <1>7 DEF PruneNext, Inserts

-----------------------------------------------------------------------------
(***************************************************************************)
(* The overages, action by action.                                         *)
(***************************************************************************)
\* What follows from a process that inserted or settled a row: it counts every cap.
LEMMA CountsAll ==
    ASSUME NEW p \in Proc, \A k \in Cap : counts(p, k)'
    PROVE  CapInv'
BY DEF CapInv

\* The overages of the next state are numbers as well.
LEMMA OverageNext ==
    ASSUME PruneConstants, PruneTypeOK', NEW k \in Cap
    PROVE  /\ overage(caps[k])' \in Int
           /\ overage(caps[k])' = Cardinality(held(k)') - caps[k].keep
           /\ Cardinality(held(k)') \in Nat
           /\ caps[k].keep \in Nat
<1>1. IsFiniteSet(1 .. last_id')
  <2>1. 1 \in Int /\ last_id' \in Int
    BY DEF PruneTypeOK
  <2>2. QED
    BY <2>1, FS_Interval
<1>2. held(k)' \subseteq 1 .. last_id'
  BY DEF held, of_kind, PruneTypeOK
<1>3. Cardinality(held(k)') \in Nat
  BY <1>1, <1>2, FS_Subset, FS_CardinalityType
<1>4. caps[k].keep \in Nat
  BY Caps
<1>5. overage(caps[k])' = Cardinality(held(k)') - caps[k].keep
  BY DEF overage, held, caps
<1>6. QED
  BY <1>3, <1>4, <1>5

\* And so are the budgets.
LEMMA BudgetNext ==
    ASSUME PruneConstants, PruneTypeOK', NEW k, NEW S
    PROVE  /\ IsFiniteSet(before_cap(k)' \ S)
           /\ Cardinality(before_cap(k)' \ S) \in Nat
           /\ budget(k, S)' = MaxBatch * (Cardinality(before_cap(k)' \ S) + crashes')
           /\ budget(k, S)' \in Nat
<1>1. before_cap(k)' \ S \subseteq Proc
  BY DEF before_cap
<1>2. IsFiniteSet(before_cap(k)' \ S) /\ Cardinality(before_cap(k)' \ S) \in Nat
  BY <1>1, FS_Subset, FS_CardinalityType DEF PruneConstants
<1>3. budget(k, S)' = MaxBatch * (Cardinality(before_cap(k)' \ S) + crashes')
  BY DEF budget
<1>4. crashes' \in Nat /\ MaxBatch \in Nat
  BY DEF PruneTypeOK, PruneConstants
<1>5. Cardinality(before_cap(k)' \ S) + crashes' \in Nat
  BY <1>2, <1>4
<1>6. QED
  BY <1>2, <1>3, <1>4, <1>5, Times

\* The bound of a stale overage is a number.
LEMMA BoundNext ==
    ASSUME PruneConstants, PruneTypeOK'
    PROVE  /\ MaxBatch * (Cardinality(Proc) + crashes') \in Nat
           /\ 0 <= MaxBatch * (Cardinality(Proc) + crashes')
<1>1. Cardinality(Proc) \in Nat /\ crashes' \in Nat /\ MaxBatch \in Nat
  BY FS_CardinalityType DEF PruneConstants, PruneTypeOK
<1>2. Cardinality(Proc) + crashes' \in Nat
  BY <1>1
<1>3. MaxBatch * (Cardinality(Proc) + crashes') \in Nat
  BY <1>1, <1>2, Times
<1>4. QED
  BY <1>3

\* A step that leaves the table alone leaves the overages alone.
LEMMA SameRows ==
    ASSUME rows' = rows, NEW k \in Cap
    PROVE  held(k)' = held(k) /\ overage(caps[k])' = overage(caps[k])
<1>1. \A kinds : of_kind(kinds)' = of_kind(kinds)
  BY DEF of_kind
<1>2. QED
  BY <1>1 DEF held, overage, caps

\* The cap k stays covered when the budget grows by what its overage grows by.
LEMMA DrainNext ==
    ASSUME PruneConstants, PruneTypeOK, PruneTypeOK', DrainInv, NEW k \in {4, 5}, NEW d \in Nat,
           overage(caps[k])' <= overage(caps[k]) + d,
           NEW S, S \subseteq counted(k), \A q \in S : over'[q] = over[q],
           budget(k, S)' >= budget(k, S) + d
    PROVE  covered(k, S)'
<1>1. k \in Cap
  BY DEF Cap
<1>2. /\ overage(caps[k])' \in Int /\ overage(caps[k]) \in Int
      /\ budget(k, S) \in Nat /\ budget(k, S)' \in Nat
  BY <1>1, OverageType, OverageNext, BudgetType, BudgetNext
<1>3. covered(k, S)
  BY DEF DrainInv, DrainAt
<1>4. CASE overage(caps[k]) <= budget(k, S)
  <2>1. overage(caps[k])' <= budget(k, S)'
    BY <1>2, <1>4
  <2>2. QED
    BY <2>1 DEF covered
<1>5. ASSUME NEW q \in S, overage(caps[k]) <= over[q] + budget(k, S) PROVE covered(k, S)'
  <2>1. q \in Proc /\ over[q] \in Nat
    BY DEF counted, before_cap, PruneTypeOK
  <2>2. overage(caps[k])' <= over'[q] + budget(k, S)'
    BY <1>2, <1>5, <2>1
  <2>3. QED
    BY <2>2 DEF covered
<1>6. QED
  BY <1>3, <1>4, <1>5 DEF covered

\* It does when its overage and the processes before it are no other than they were.
LEMMA SameDrain ==
    ASSUME PruneConstants, PruneTypeOK, PruneTypeOK', DrainInv, NEW k \in {4, 5},
           Cardinality(held(k)') <= Cardinality(held(k)),
           before_cap(k)' = before_cap(k), crashes' = crashes,
           NEW S, S \subseteq counted(k), \A q \in S : over'[q] = over[q]
    PROVE  covered(k, S)'
<1>1. k \in Cap
  BY DEF Cap
<1>2. budget(k, S)' = budget(k, S)
  BY DEF budget
<1>3. 0 \in Nat /\ budget(k, S) \in Nat
  BY BudgetType
<1>4. overage(caps[k])' <= overage(caps[k]) + 0
  BY <1>1, OverageType, OverageNext
<1>5. budget(k, S)' >= budget(k, S) + 0
  BY <1>2, <1>3
<1>6. QED
  BY <1>3, <1>4, <1>5, DrainNext

\* A process that goes on from another cap is before the cap k as it was.
LEMMA SameBefore ==
    ASSUME PruneTypeOK, NEW p \in Proc, NEW k \in {4, 5}, pc[p] = "prune", at[p] # k,
           at' = [at EXCEPT ![p] = IF at[p] = 5 THEN 1 ELSE at[p] + 1],
           pc' = [pc EXCEPT ![p] = IF at[p] = 5 THEN "idle" ELSE "prune"]
    PROVE  before_cap(k)' = before_cap(k)
<1>1. at[p] \in {1, 2, 3, 4, 5}
  BY DEF PruneTypeOK, Cap
<1>2. \A q \in Proc \ {p} : at'[q] = at[q] /\ pc'[q] = pc[q]
  BY DEF PruneTypeOK
<1>3. /\ at'[p] = IF at[p] = 5 THEN 1 ELSE at[p] + 1
      /\ pc'[p] = IF at[p] = 5 THEN "idle" ELSE "prune"
  BY DEF PruneTypeOK
<1>4. p \in before_cap(k)' <=> p \in before_cap(k)
  BY <1>1, <1>3 DEF before_cap
<1>5. \A q \in Proc : q \in before_cap(k)' <=> q \in before_cap(k)
  BY <1>2, <1>4 DEF before_cap
<1>6. before_cap(k) \subseteq Proc /\ before_cap(k)' \subseteq Proc
  BY DEF before_cap
<1>7. QED
  BY <1>5, <1>6

\* A batch of rows more, and one process more that will count them.
LEMMA InsertStep ==
    ASSUME PruneConstants, PruneInv, PruneTypeOK', NEW p \in Proc, Inserts(p)
    PROVE  CapInv' /\ DrainInv' /\ StaleDeleteIsSmall'
<1> USE DEF PruneInv
<1> PICK n \in 0 .. MaxBatch : AddsRows(p, n)
  BY InsertsBatch
<1>1. /\ pc[p] = "idle" /\ pc'[p] \in {"flush", "prune"}
      /\ at[p] = 1 /\ over[p] = 0
      /\ \A q \in Proc \ {p} : pc'[q] = pc[q]
      /\ UNCHANGED <<at, over, crashes>>
      /\ n \in Nat /\ n <= MaxBatch /\ MaxBatch \in Nat /\ last_id \in Nat
  BY DEF AddsRows, PruneTypeOK, PlaceInv, PruneConstants
<1>2. CapInv'
  <2>1. \A k \in Cap : counts(p, k)'
    BY <1>1 DEF counts, Cap
  <2>2. QED
    BY <2>1, CountsAll
<1> DEFINE new == (last_id + 1) .. (last_id + n)
<1>3. IsFiniteSet(new) /\ Cardinality(new) = n
  <2>1. last_id + 1 \in Int /\ last_id + n \in Int
    BY <1>1
  <2>2. Cardinality(new) = IF last_id + 1 > last_id + n THEN 0
                           ELSE (last_id + n) - (last_id + 1) + 1
    BY <2>1, FS_Interval
  <2>3. IsFiniteSet(new)
    BY <2>1, FS_Interval
  <2>4. QED
    BY <1>1, <2>2, <2>3
<1>4. ASSUME NEW k \in {4, 5} PROVE overage(caps[k])' <= overage(caps[k]) + n
  <2>1. k \in Cap
    BY DEF Cap
  <2>2. held(k)' \subseteq held(k) \cup new
    <3>1. \A kinds : of_kind(kinds)' \subseteq of_kind(kinds) \cup new
      BY DEF of_kind, AddsRows
    <3>2. QED
      BY <3>1 DEF held, caps
  <2>3. IsFiniteSet(held(k)) /\ Cardinality(held(k)) \in Nat
    BY Overages DEF held
  <2>4. /\ IsFiniteSet(held(k) \cup new)
        /\ Cardinality(held(k) \cup new) =
             Cardinality(held(k)) + Cardinality(new) - Cardinality(held(k) \cap new)
    BY <1>3, <2>3, FS_Union
  <2>5. Cardinality(held(k) \cap new) \in Nat
    BY <1>3, FS_Subset, FS_CardinalityType
  <2>6. Cardinality(held(k)') <= Cardinality(held(k) \cup new)
    BY <2>2, <2>4, FS_Subset
  <2>7. Cardinality(held(k) \cup new) \in Nat /\ Cardinality(held(k) \cup new) <= Cardinality(held(k)) + n
    BY <1>1, <1>3, <2>3, <2>4, <2>5, FS_CardinalityType
  <2>8. /\ overage(caps[k])' = Cardinality(held(k)') - caps[k].keep
        /\ overage(caps[k]) = Cardinality(held(k)) - caps[k].keep
        /\ Cardinality(held(k)') \in Nat /\ caps[k].keep \in Nat
    BY <2>1, OverageType, OverageNext
  <2>9. QED
    BY <1>1, <2>3, <2>6, <2>7, <2>8
<1>5. ASSUME NEW k \in {4, 5} PROVE before_cap(k)' = before_cap(k) \cup {p} /\ p \notin before_cap(k)
  <2>1. ASSUME NEW q \in Proc \ {p} PROVE q \in before_cap(k)' <=> q \in before_cap(k)
    <3>1. pc'[q] = pc[q] /\ at'[q] = at[q]
      BY <1>1
    <3>2. QED
      BY <3>1 DEF before_cap
  <2>2. p \in before_cap(k)'
    BY <1>1 DEF before_cap
  <2>3. before_cap(k) \subseteq Proc /\ before_cap(k)' \subseteq Proc
    BY DEF before_cap
  <2>4. p \notin before_cap(k)
    BY <1>1 DEF before_cap
  <2>5. QED
    BY <2>1, <2>2, <2>3, <2>4
<1>6. ASSUME NEW k \in {4, 5}, NEW S, S \subseteq counted(k)'
      PROVE  covered(k, S)'
  <2>1. S \subseteq counted(k) /\ p \notin S
    BY <1>1, <1>5, <1>6 DEF counted
  <2>2. before_cap(k)' \ S = (before_cap(k) \ S) \cup {p} /\ p \notin before_cap(k) \ S
    BY <1>5, <2>1
  <2>3. IsFiniteSet(before_cap(k) \ S) /\ Cardinality(before_cap(k) \ S) \in Nat
    BY BudgetType
  <2>4. Cardinality(before_cap(k)' \ S) = Cardinality(before_cap(k) \ S) + 1
    BY <2>2, <2>3, FS_AddElement
  <2>5. budget(k, S)' = budget(k, S) + MaxBatch
    <3>1. crashes \in Nat /\ crashes' = crashes
      BY <1>1 DEF PruneTypeOK
    <3>2. Cardinality(before_cap(k)' \ S) + crashes' = (Cardinality(before_cap(k) \ S) + crashes) + 1
      BY <2>3, <2>4, <3>1
    <3>3. Cardinality(before_cap(k) \ S) + crashes \in Nat
      BY <2>3, <3>1
    <3>4. MaxBatch * ((Cardinality(before_cap(k) \ S) + crashes) + 1)
            = MaxBatch * (Cardinality(before_cap(k) \ S) + crashes) + MaxBatch
      BY <1>1, <3>3, Times
    <3>5. QED
      BY <3>2, <3>4 DEF budget
  <2>6. budget(k, S) \in Nat
    BY BudgetType
  <2>7. budget(k, S)' >= budget(k, S) + n
    BY <1>1, <2>5, <2>6
  <2>8. \A q \in S : over'[q] = over[q]
    BY <1>1
  <2>9. QED
    BY <1>1, <1>4, <2>1, <2>7, <2>8, DrainNext
<1>7. StaleDeleteIsSmall'
  BY <1>1 DEF StaleDeleteIsSmall
<1>8. QED
  BY <1>2, <1>6, <1>7 DEF DrainInv, DrainAt

\* The process that settles rows counts all caps afterwards; pending rows only get fewer.
LEMMA FlushStep ==
    ASSUME PruneConstants, PruneInv, PruneTypeOK', NEW p \in Proc,
           NEW done \in SUBSET of_kind({"live"}), NEW failed \in SUBSET of_kind({"live"}),
           Flush(p, done, failed)
    PROVE  CapInv' /\ DrainInv' /\ StaleDeleteIsSmall'
<1> USE DEF PruneInv
<1>1. /\ pc[p] = "flush" /\ pc' = [pc EXCEPT ![p] = "prune"]
      /\ UNCHANGED <<at, over, crashes>>
      /\ at[p] = 1 /\ over[p] = 0
      /\ DOMAIN rows' = DOMAIN rows
      /\ \A i \in DOMAIN rows : rows[i] = "synced" => rows'[i] = "synced"
  BY DEF Flush, goto, PlaceInv, of_kind
<1>2. CapInv'
  <2>1. \A k \in Cap : counts(p, k)'
    BY <1>1 DEF counts, PruneTypeOK, Cap
  <2>2. QED
    BY <2>1, CountsAll
<1>3. ASSUME NEW k \in {4, 5}, NEW S, S \subseteq counted(k)'
      PROVE  covered(k, S)'
  <2>1. held(k)' \subseteq held(k)
    <3>1. \A kinds : kinds \in {Kinds, Kinds \ {"synced"}} =>
                       of_kind(kinds)' \subseteq of_kind(kinds)
      BY <1>1 DEF of_kind, PruneTypeOK
    <3>2. held(k)' = of_kind(caps[k].kinds)'
      BY DEF held, caps
    <3>3. caps[k].kinds \in {Kinds, Kinds \ {"synced"}}
      BY Caps
    <3>4. QED
      BY <3>1, <3>2, <3>3 DEF held
  <2>2. Cardinality(held(k)') <= Cardinality(held(k))
    BY <2>1, Overages, FS_Subset DEF held
  <2>3. before_cap(k)' = before_cap(k)
    BY <1>1 DEF before_cap, PruneTypeOK
  <2>4. S \subseteq counted(k) /\ \A q \in S : over'[q] = over[q]
    BY <1>1, <1>3, <2>3 DEF counted
  <2>5. QED
    BY <1>1, <2>2, <2>3, <2>4, SameDrain
<1>4. StaleDeleteIsSmall'
  BY <1>1 DEF StaleDeleteIsSmall
<1>5. QED
  BY <1>2, <1>3, <1>4 DEF DrainInv, DrainAt

\* A process that is killed counts no more, but is counted.
LEMMA CrashStep ==
    ASSUME PruneConstants, PruneInv, PruneTypeOK', NEW p \in Proc, Crash(p)
    PROVE  CapInv' /\ DrainInv' /\ StaleDeleteIsSmall'
<1> USE DEF PruneInv
<1>1. /\ pc' = [pc EXCEPT ![p] = "idle"]
      /\ at' = [at EXCEPT ![p] = 1]
      /\ over' = [over EXCEPT ![p] = 0]
      /\ crashes' = crashes + 1 /\ crashes \in Nat
      /\ rows' = rows
  BY DEF Crash, goto, PruneTypeOK
<1>2. CapInv'
  BY <1>1 DEF CapInv
<1>3. ASSUME NEW k \in {4, 5}, NEW S, S \subseteq counted(k)'
      PROVE  covered(k, S)'
  <2>1. k \in Cap
    BY DEF Cap
  <2>2. before_cap(k)' = before_cap(k) \ {p}
    BY <1>1 DEF before_cap, PruneTypeOK
  <2>3. S \subseteq counted(k) /\ \A q \in S : over'[q] = over[q]
    BY <1>1, <1>3, <2>2 DEF counted, before_cap, PruneTypeOK
  <2> DEFINE B == before_cap(k) \ S
  <2>4. IsFiniteSet(B) /\ Cardinality(B) \in Nat /\ before_cap(k)' \ S = B \ {p}
    BY <2>2, BudgetType
  <2>5. Cardinality(B \ {p}) = IF p \in B THEN Cardinality(B) - 1 ELSE Cardinality(B)
    BY <2>4, FS_RemoveElement
  <2>6. Cardinality(B \ {p}) \in Nat
    BY <2>4, BudgetNext
  <2>7. MaxBatch \in Nat /\ crashes + Cardinality(B) \in Nat
    BY <1>1, <2>4 DEF PruneConstants
  <2>8. MaxBatch * (Cardinality(B) + crashes) <= MaxBatch * (Cardinality(B \ {p}) + crashes')
    <3>1. /\ Cardinality(B) + crashes \in Nat /\ Cardinality(B \ {p}) + crashes' \in Nat
          /\ Cardinality(B) + crashes <= Cardinality(B \ {p}) + crashes'
      BY <1>1, <2>4, <2>5, <2>6
    <3>2. QED
      BY <2>7, <3>1, Times
  <2>9. budget(k, S)' >= budget(k, S) + 0 /\ 0 \in Nat
    <3>1. budget(k, S)' = MaxBatch * (Cardinality(B \ {p}) + crashes')
      BY <2>4, BudgetNext
    <3>2. budget(k, S) = MaxBatch * (Cardinality(B) + crashes) /\ budget(k, S) \in Nat
      BY BudgetType DEF budget
    <3>3. budget(k, S)' \in Nat
      BY BudgetNext
    <3>4. QED
      BY <2>8, <3>1, <3>2, <3>3
  <2>10. overage(caps[k])' <= overage(caps[k]) + 0
    BY <1>1, <2>1, SameRows, OverageType
  <2>11. QED
    BY <2>3, <2>9, <2>10, DrainNext
<1>4. StaleDeleteIsSmall'
  <2> SUFFICES ASSUME NEW q \in Proc, at'[q] >= 4
               PROVE  over'[q] <= MaxBatch * (Cardinality(Proc) + crashes')
    BY DEF StaleDeleteIsSmall
  <2>1. q # p /\ at[q] >= 4 /\ over'[q] = over[q]
    BY <1>1 DEF PruneTypeOK
  <2>2. over[q] <= MaxBatch * (Cardinality(Proc) + crashes)
    BY <2>1 DEF StaleDeleteIsSmall
  <2>3. Cardinality(Proc) \in Nat /\ over[q] \in Nat /\ MaxBatch \in Nat
    BY FS_CardinalityType DEF PruneConstants, PruneTypeOK
  <2>4. /\ Cardinality(Proc) + crashes \in Nat
        /\ Cardinality(Proc) + crashes' = (Cardinality(Proc) + crashes) + 1
    BY <1>1, <2>3
  <2>5. MaxBatch * ((Cardinality(Proc) + crashes) + 1)
          = MaxBatch * (Cardinality(Proc) + crashes) + MaxBatch
        /\ MaxBatch * (Cardinality(Proc) + crashes) \in Nat
    BY <2>3, <2>4, Times
  <2>6. QED
    BY <2>1, <2>2, <2>3, <2>4, <2>5
<1>5. QED
  BY <1>2, <1>3, <1>4 DEF DrainInv, DrainAt

\* A COUNT finds the cap kept, or leaves a process that clears it.
LEMMA CountStep ==
    ASSUME PruneConstants, PruneInv, PruneTypeOK', NEW p \in Proc, Count(p)
    PROVE  CapInv' /\ DrainInv' /\ StaleDeleteIsSmall'
<1> USE DEF PruneInv
<1>1. /\ pc[p] = "prune" /\ over[p] = 0 /\ at[p] \in Cap
      /\ rows' = rows /\ crashes' = crashes /\ crashes \in Nat
  BY DEF Count, PruneTypeOK
<1>2. \A k \in Cap : overage(caps[k])' = overage(caps[k]) /\ overage(caps[k]) \in Int
  BY <1>1, SameRows, OverageType
<1>3. CASE overage(caps[at[p]]) > 0
  <2>1. pc' = pc /\ at' = at /\ over' = [over EXCEPT ![p] = overage(caps[at[p]])]
    BY <1>3 DEF Count
  <2>2. CapInv'
    <3> SUFFICES ASSUME crashes' = 0, NEW k \in Cap, overage(caps[k])' > 0
                 PROVE  \E q \in Proc : counts(q, k)' \/ clears(q, k)'
      BY DEF CapInv
    <3>1. PICK q \in Proc : counts(q, k) \/ clears(q, k)
      BY <1>1, <1>2 DEF CapInv
    <3>2. CASE q # p
      <4>1. over'[q] = over[q]
        BY <2>1, <3>2 DEF PruneTypeOK
      <4>2. QED
        BY <1>2, <2>1, <3>1, <4>1 DEF counts, clears
    <3>3. CASE q = p /\ k = at[p]
      <4>1. over'[p] = overage(caps[k])'
        BY <1>2, <2>1, <3>3 DEF PruneTypeOK
      <4>2. clears(p, k)'
        BY <1>2, <2>1, <3>3, <4>1 DEF clears
      <4>3. QED
        BY <4>2
    <3>4. CASE q = p /\ k # at[p]
      BY <2>1, <3>1, <3>4 DEF counts, clears
    <3>5. QED
      BY <3>2, <3>3, <3>4
  <2>3. ASSUME NEW k \in {4, 5}, NEW S, S \subseteq counted(k)'
        PROVE  covered(k, S)'
    <3>1. before_cap(k)' = before_cap(k)
      BY <2>1 DEF before_cap
    <3>2. k \in Cap /\ Cardinality(held(k)') <= Cardinality(held(k))
      BY <1>1, SameRows, OverageType DEF Cap
    <3>3. CASE p \notin S
      <4>1. S \subseteq counted(k) /\ \A q \in S : over'[q] = over[q]
        BY <2>1, <2>3, <3>1, <3>3 DEF counted, before_cap, PruneTypeOK
      <4>2. QED
        BY <1>1, <3>1, <3>2, <4>1, SameDrain
    <3>4. CASE p \in S
      <4>1. at[p] = k
        BY <2>1, <2>3, <3>4 DEF counted
      <4>2. over'[p] = overage(caps[k])
        BY <2>1, <4>1 DEF PruneTypeOK
      <4>3. budget(k, S)' \in Nat
        BY BudgetNext
      <4>4. overage(caps[k])' <= over'[p] + budget(k, S)'
        BY <1>2, <3>2, <4>2, <4>3
      <4>5. QED
        BY <3>4, <4>4 DEF covered
    <3>5. QED
      BY <3>3, <3>4
  <2>4. StaleDeleteIsSmall'
    <3> SUFFICES ASSUME NEW q \in Proc, at'[q] >= 4
                 PROVE  over'[q] <= MaxBatch * (Cardinality(Proc) + crashes')
      BY DEF StaleDeleteIsSmall
    <3>1. CASE q # p
      BY <1>1, <2>1, <3>1 DEF StaleDeleteIsSmall, PruneTypeOK
    <3>2. CASE q = p
      <4>1. at[p] \in {4, 5}
        BY <1>1, <2>1, <3>2 DEF Cap
      <4> DEFINE B == before_cap(at[p]) \ {}
      <4>2. overage(caps[at[p]]) <= MaxBatch * (Cardinality(B) + crashes)
        <5>1. covered(at[p], {})
          BY <4>1 DEF DrainInv, DrainAt
        <5>2. overage(caps[at[p]]) <= budget(at[p], {})
          BY <5>1 DEF covered
        <5>3. QED
          BY <5>2 DEF budget
      <4>3. /\ Cardinality(B) <= Cardinality(Proc)
            /\ Cardinality(B) \in Nat /\ Cardinality(Proc) \in Nat
        BY BudgetType, BeforeCapFinite
      <4>4. over'[q] = overage(caps[at[p]])
        BY <2>1, <3>2 DEF PruneTypeOK
      <4>5. /\ Cardinality(B) + crashes \in Nat /\ Cardinality(Proc) + crashes \in Nat
            /\ Cardinality(B) + crashes <= Cardinality(Proc) + crashes
            /\ MaxBatch \in Nat
        BY <1>1, <4>3 DEF PruneConstants
      <4>6. /\ MaxBatch * (Cardinality(B) + crashes) <= MaxBatch * (Cardinality(Proc) + crashes)
            /\ MaxBatch * (Cardinality(B) + crashes) \in Nat
            /\ MaxBatch * (Cardinality(Proc) + crashes) \in Nat
        BY <4>5, Times
      <4>7. QED
        BY <1>1, <1>2, <4>2, <4>4, <4>6
    <3>3. QED
      BY <3>1, <3>2
  <2>5. QED
    BY <2>2, <2>3, <2>4 DEF DrainInv, DrainAt
<1>4. CASE ~(overage(caps[at[p]]) > 0)
  <2>1. /\ over' = over
        /\ at' = [at EXCEPT ![p] = IF at[p] = 5 THEN 1 ELSE at[p] + 1]
        /\ pc' = [pc EXCEPT ![p] = IF at[p] = 5 THEN "idle" ELSE "prune"]
    BY <1>4, NextCap DEF Count
  <2>2. CapInv'
    <3> SUFFICES ASSUME crashes' = 0, NEW k \in Cap, overage(caps[k])' > 0
                 PROVE  \E q \in Proc : counts(q, k)' \/ clears(q, k)'
      BY DEF CapInv
    <3>1. PICK q \in Proc : counts(q, k) \/ clears(q, k)
      BY <1>1, <1>2 DEF CapInv
    <3>2. CASE q # p
      <4>1. at'[q] = at[q] /\ pc'[q] = pc[q] /\ over'[q] = over[q]
        BY <2>1, <3>2 DEF PruneTypeOK
      <4>2. overage(caps[k])' = overage(caps[k])
        BY <1>2
      <4>3. counts(q, k)' <=> counts(q, k)
        BY <4>1 DEF counts
      <4>4. clears(q, k)' <=> clears(q, k)
        BY <4>1, <4>2 DEF clears
      <4>5. QED
        BY <3>1, <4>3, <4>4
    <3>3. CASE q = p
      <4>1. k # at[p]
        BY <1>2, <1>4
      <4>2. at[p] < k
        BY <1>1, <3>1, <3>3, <4>1 DEF counts, clears
      <4>3. at'[p] = at[p] + 1 /\ pc'[p] = "prune" /\ over'[p] = 0
        BY <1>1, <2>1, <4>2 DEF PruneTypeOK, Cap
      <4>4. counts(p, k)'
        BY <1>1, <4>2, <4>3 DEF counts, Cap
      <4>5. QED
        BY <4>4
    <3>4. QED
      BY <3>2, <3>3
  <2>3. ASSUME NEW k \in {4, 5}, NEW S, S \subseteq counted(k)'
        PROVE  covered(k, S)'
    <3>1. k \in Cap
      BY DEF Cap
    <3>2. CASE at[p] = k
      <4>1. budget(k, S)' \in Nat
        BY BudgetNext
      <4>2. overage(caps[k])' <= budget(k, S)'
        BY <1>2, <1>4, <3>1, <3>2, <4>1
      <4>3. QED
        BY <4>2 DEF covered
    <3>3. CASE at[p] # k
      <4>1. before_cap(k)' = before_cap(k)
        BY <1>1, <2>1, <3>3, SameBefore
      <4>2. Cardinality(held(k)') <= Cardinality(held(k))
        BY <1>1, <3>1, SameRows, OverageType
      <4>3. ASSUME NEW q \in S PROVE q \in counted(k) /\ over'[q] = over[q]
        <5>1. q \in before_cap(k) /\ at'[q] = k /\ over[q] > 0 /\ q # p /\ q \in Proc
          BY <1>1, <2>1, <2>3, <4>1, <4>3 DEF counted, before_cap
        <5>2. at[q] = k
          BY <2>1, <5>1 DEF PruneTypeOK
        <5>3. QED
          BY <2>1, <5>1, <5>2 DEF counted
      <4>4. QED
        BY <1>1, <4>1, <4>2, <4>3, SameDrain
    <3>4. QED
      BY <3>2, <3>3
  <2>4. StaleDeleteIsSmall'
    <3> SUFFICES ASSUME NEW q \in Proc, at'[q] >= 4
                 PROVE  over'[q] <= MaxBatch * (Cardinality(Proc) + crashes')
      BY DEF StaleDeleteIsSmall
    <3>1. CASE q # p
      BY <1>1, <2>1, <3>1 DEF StaleDeleteIsSmall, PruneTypeOK
    <3>2. CASE q = p
      BY <1>1, <2>1, <3>2, BoundNext
    <3>3. QED
      BY <3>1, <3>2
  <2>5. QED
    BY <2>2, <2>3, <2>4 DEF DrainInv, DrainAt
<1>5. QED
  BY <1>3, <1>4

\* A DELETE with a sufficient overage leaves no more rows than the cap.
LEMMA DeleteStep ==
    ASSUME PruneConstants, PruneInv, PruneTypeOK', NEW p \in Proc, Delete(p)
    PROVE  CapInv' /\ DrainInv' /\ StaleDeleteIsSmall'
<1> USE DEF PruneInv
<1> PICK at_cap : at_cap = at[p]
  OBVIOUS
<1> PICK taken : taken = first_rows(p, held(at_cap))
  OBVIOUS
<1>1. /\ over[p] \in Nat /\ over[p] > 0 /\ at_cap \in Cap /\ pc[p] = "prune"
      /\ over' = [over EXCEPT ![p] = 0]
      /\ crashes' = crashes /\ crashes \in Nat
      /\ at' = [at EXCEPT ![p] = IF at[p] = 5 THEN 1 ELSE at[p] + 1]
      /\ pc' = [pc EXCEPT ![p] = IF at[p] = 5 THEN "idle" ELSE "prune"]
  BY NextCap DEF Delete, PruneTypeOK, PlaceInv
<1>2. \A k \in Cap : Cardinality(held(k)') <= Cardinality(held(k))
  BY <1>1, DeleteLeaves
<1>3. Cardinality(held(at_cap)') = Cardinality(held(at_cap)) - Cardinality(taken)
  BY <1>1, DeleteLeaves
<1>4. Cardinality(taken) = IF over[p] <= Cardinality(held(at_cap))
                           THEN over[p] ELSE Cardinality(held(at_cap))
  BY <1>1, DeleteTakes
<1>5. ASSUME NEW k \in Cap
      PROVE  /\ overage(caps[k])' \in Int /\ overage(caps[k]) \in Int
             /\ overage(caps[k])' <= overage(caps[k])
  BY <1>2, OverageType, OverageNext
<1>6. CapInv'
  <2> SUFFICES ASSUME crashes' = 0, NEW k \in Cap, overage(caps[k])' > 0
               PROVE  \E q \in Proc : counts(q, k)' \/ clears(q, k)'
    BY DEF CapInv
  <2>1. overage(caps[k]) > 0
    BY <1>5
  <2>2. PICK q \in Proc : counts(q, k) \/ clears(q, k)
    BY <1>1, <2>1 DEF CapInv
  <2>3. CASE q # p
    <3>1. at'[q] = at[q] /\ pc'[q] = pc[q] /\ over'[q] = over[q] /\ over[q] \in Nat
      BY <1>1, <2>3 DEF PruneTypeOK
    <3>2. counts(q, k) => counts(q, k)'
      BY <3>1 DEF counts
    <3>3. clears(q, k) => clears(q, k)'
      BY <1>5, <3>1 DEF clears
    <3>4. QED
      BY <2>2, <3>2, <3>3
  <2>4. CASE q = p
    <3>1. ~clears(p, k)
      <4> SUFFICES ASSUME clears(p, k) PROVE FALSE
        OBVIOUS
      <4>1. k = at_cap /\ over[p] >= overage(caps[k])
        BY DEF clears
      <4>2. /\ overage(caps[k])' = Cardinality(held(k)') - caps[k].keep
            /\ overage(caps[k]) = Cardinality(held(k)) - caps[k].keep
            /\ Cardinality(held(k)) \in Nat /\ caps[k].keep \in Nat
        BY OverageType, OverageNext
      <4>3. QED
        BY <1>1, <1>3, <1>4, <4>1, <4>2
    <3>2. at[p] < k
      BY <1>1, <2>2, <2>4, <3>1 DEF counts
    <3>3. at'[p] = at[p] + 1 /\ pc'[p] = "prune" /\ over'[p] = 0
      BY <1>1, <3>2 DEF PruneTypeOK, Cap
    <3>4. counts(p, k)'
      BY <1>1, <3>2, <3>3 DEF counts, Cap
    <3>5. QED
      BY <3>4
  <2>5. QED
    BY <2>3, <2>4
<1>7. ASSUME NEW k \in {4, 5}, NEW S, S \subseteq counted(k)'
      PROVE  covered(k, S)'
  <2>1. k \in Cap
    BY DEF Cap
  <2>2. CASE at_cap = k
    <3>1. p \in before_cap(k) /\ before_cap(k)' = before_cap(k) \ {p}
      <4>1. /\ at'[p] = IF k = 5 THEN 1 ELSE 5
            /\ pc'[p] = IF k = 5 THEN "idle" ELSE "prune"
        BY <1>1, <2>2 DEF PruneTypeOK
      <4>2. p \in before_cap(k) /\ p \notin before_cap(k)'
        <5>1. pc[p] = "prune" /\ at[p] = k /\ k <= k
          BY <1>1, <2>2
        <5>2. ~(pc'[p] = "flush" \/ (pc'[p] = "prune" /\ at'[p] <= k))
          BY <4>1
        <5>3. QED
          BY <5>1, <5>2 DEF before_cap
      <4>3. ASSUME NEW q \in Proc \ {p} PROVE q \in before_cap(k)' <=> q \in before_cap(k)
        <5>1. pc'[q] = pc[q] /\ at'[q] = at[q]
          BY <1>1 DEF PruneTypeOK
        <5>2. QED
          BY <5>1 DEF before_cap
      <4>4. before_cap(k) \subseteq Proc /\ before_cap(k)' \subseteq Proc
        BY DEF before_cap
      <4>5. QED
        BY <4>2, <4>3, <4>4
    <3>2. /\ overage(caps[k])' = Cardinality(held(k)') - caps[k].keep
          /\ overage(caps[k]) = Cardinality(held(k)) - caps[k].keep
          /\ Cardinality(held(k)') \in Nat
          /\ Cardinality(held(k)) \in Nat /\ caps[k].keep \in Nat
      BY <2>1, OverageType, OverageNext
    <3>3. CASE over[p] > Cardinality(held(k))
      <4>1. overage(caps[k])' <= 0 /\ overage(caps[k])' \in Int
        BY <1>1, <1>3, <1>4, <2>2, <3>2, <3>3
      <4>2. budget(k, S)' \in Nat
        BY BudgetNext
      <4>3. overage(caps[k])' <= budget(k, S)'
        BY <4>1, <4>2
      <4>4. QED
        BY <4>3 DEF covered
    <3>4. CASE ~(over[p] > Cardinality(held(k)))
      <4>1. overage(caps[k])' = overage(caps[k]) - over[p]
        BY <1>1, <1>3, <1>4, <2>2, <3>2, <3>4
      <4>2. S \subseteq counted(k) \ {p}
        BY <1>1, <1>7, <3>1 DEF counted, before_cap, PruneTypeOK
      <4>3. p \in counted(k)
        BY <1>1, <2>2, <3>1 DEF counted
      <4>4. covered(k, S \cup {p})
        BY <4>2, <4>3 DEF DrainInv, DrainAt
      <4>5. before_cap(k)' \ S = before_cap(k) \ (S \cup {p})
        BY <3>1
      <4>6. budget(k, S)' = budget(k, S \cup {p})
        BY <1>1, <4>5 DEF budget
      <4>7. budget(k, S)' \in Nat
        BY BudgetNext
      <4>8. overage(caps[k]) \in Int
        BY <3>2
      <4>9. CASE overage(caps[k]) <= over[p] + budget(k, S)'
        <5>1. overage(caps[k])' <= budget(k, S)'
          BY <1>1, <4>1, <4>7, <4>8, <4>9
        <5>2. QED
          BY <5>1 DEF covered
      <4>10. ASSUME NEW q \in S, overage(caps[k]) <= over[q] + budget(k, S)'
             PROVE  covered(k, S)'
        <5>1. over'[q] = over[q] /\ over[q] \in Nat
          BY <1>1, <4>2 DEF counted, before_cap, PruneTypeOK
        <5>2. overage(caps[k])' <= over'[q] + budget(k, S)'
          BY <1>1, <4>1, <4>7, <4>8, <4>10, <5>1
        <5>3. QED
          BY <5>2 DEF covered
      <4>11. CASE overage(caps[k]) <= budget(k, S)'
        BY <1>1, <4>7, <4>8, <4>9, <4>11
      <4>12. QED
        BY <4>4, <4>6, <4>9, <4>10, <4>11 DEF covered
    <3>5. QED
      BY <3>3, <3>4
  <2>3. CASE at_cap # k
    <3>1. before_cap(k)' = before_cap(k)
      BY <1>1, <2>3, SameBefore
    <3>2. ASSUME NEW q \in S PROVE q \in counted(k) /\ over'[q] = over[q]
      <4>1. q \in before_cap(k) /\ at'[q] = k /\ over'[q] > 0 /\ q \in Proc
        BY <1>7, <3>1, <3>2 DEF counted, before_cap
      <4>2. q # p
        BY <1>1, <4>1 DEF PruneTypeOK
      <4>3. QED
        BY <1>1, <4>1, <4>2 DEF counted, PruneTypeOK
    <3>3. QED
      BY <1>1, <1>2, <2>1, <3>1, <3>2, SameDrain
  <2>4. QED
    BY <2>2, <2>3
<1>8. StaleDeleteIsSmall'
  <2> SUFFICES ASSUME NEW q \in Proc, at'[q] >= 4
               PROVE  over'[q] <= MaxBatch * (Cardinality(Proc) + crashes')
    BY DEF StaleDeleteIsSmall
  <2>1. CASE q # p
    BY <1>1, <2>1 DEF StaleDeleteIsSmall, PruneTypeOK
  <2>2. CASE q = p
    <3>1. over'[q] = 0
      BY <1>1, <2>2 DEF PruneTypeOK
    <3>2. QED
      BY <3>1, BoundNext
  <2>3. QED
    BY <2>1, <2>2
<1>9. QED
  BY <1>6, <1>7, <1>8 DEF DrainInv, DrainAt

-----------------------------------------------------------------------------
\* No step.
LEMMA StutterStep ==
    ASSUME PruneInv, UNCHANGED vars
    PROVE  CapInv' /\ DrainInv' /\ StaleDeleteIsSmall'
<1> USE DEF PruneInv
<1>1. \A k \in Cap : overage(caps[k])' = overage(caps[k])
  BY SameRows DEF vars
<1>2. \A k \in {4, 5} : k \in Cap /\ before_cap(k)' = before_cap(k) /\ counted(k)' = counted(k)
  BY DEF before_cap, counted, vars, Cap
<1>3. \A k \in Cap, p \in Proc : /\ counts(p, k)' <=> counts(p, k)
                                 /\ clears(p, k)' <=> clears(p, k)
  BY <1>1 DEF counts, clears, vars
<1>4. CapInv'
  BY <1>1, <1>3 DEF CapInv, vars
<1>5. \A k \in {4, 5} : \A S : covered(k, S)' <=> covered(k, S)
  <2>1. \A k \in {4, 5} : \A S : budget(k, S)' = budget(k, S)
    BY <1>2 DEF budget, vars
  <2>2. QED
    BY <1>1, <1>2, <2>1 DEF covered, vars
<1>6. DrainInv'
  BY <1>2, <1>5 DEF DrainInv, DrainAt
<1>7. StaleDeleteIsSmall'
  BY DEF StaleDeleteIsSmall, vars
<1>8. QED
  BY <1>4, <1>6, <1>7

\* The inductive invariant.
THEOREM PruneInvariant == ASSUME PruneConstants PROVE PruneSpec => []PruneInv
<1>1. PruneInit => PruneInv
  BY InitPrune
<1>2. PruneInv /\ [PruneNext]_vars => PruneInv'
  <2> SUFFICES ASSUME PruneInv, [PruneNext]_vars PROVE PruneInv'
    OBVIOUS
  <2>1. PruneTypeOK' /\ PlaceInv'
    BY TypeStep, PlaceStep DEF PruneInv
  <2>2. CapInv' /\ DrainInv' /\ StaleDeleteIsSmall'
    BY <2>1, InsertStep, FlushStep, CountStep, DeleteStep, CrashStep, StutterStep
       DEF PruneNext, Inserts
  <2>3. QED
    BY <2>1, <2>2 DEF PruneInv
<1>3. QED
  BY <1>1, <1>2, PTL DEF PruneSpec

\* However the COUNTs and DELETEs of the processes are mixed, every cap holds once
\* all of them are through, unless one was killed before it pruned.
THEOREM CapsAlwaysHold == ASSUME PruneConstants PROVE PruneSpec => []CapsHold
<1>1. PruneInv => CapsHold
  <2> SUFFICES ASSUME PruneInv, resting, crashes = 0, NEW k \in Cap
               PROVE  Cardinality(of_kind(caps[k].kinds)) <= caps[k].keep
    BY Caps DEF CapsHold
  <2>1. /\ overage(caps[k]) = Cardinality(held(k)) - caps[k].keep
        /\ Cardinality(held(k)) \in Nat /\ caps[k].keep \in Nat
    BY OverageType DEF PruneInv
  <2>2. \A p \in Proc : ~counts(p, k) /\ over[p] = 0
    BY DEF counts, resting, PruneInv, PlaceInv
  <2>3. ~(overage(caps[k]) > 0)
    BY <2>1, <2>2 DEF PruneInv, CapInv, clears
  <2>4. QED
    BY <2>1, <2>3 DEF held
<1>2. QED
  BY <1>1, PruneInvariant, PTL

\* A DELETE that reaches rows which can still be uploaded takes no more of them than a
\* transaction inserts for each process at work or killed, however old its COUNT is.
THEOREM StaleDeletesAreSmall ==
    ASSUME PruneConstants PROVE PruneSpec => []StaleDeleteIsSmall
<1>1. PruneInv => StaleDeleteIsSmall
  BY DEF PruneInv
<1>2. QED
  BY <1>1, PruneInvariant, PTL

-----------------------------------------------------------------------------
(***************************************************************************)
(* One process.                                                            *)
(***************************************************************************)
\* Without another process a count stays true until its DELETE, and the caps that are
\* through hold.
SoleInv == \A p \in Proc : pc[p] = "prune" =>
    /\ over[p] > 0 => over[p] = overage(caps[at[p]])
    /\ \A k \in Cap : k < at[p] => overage(caps[k]) <= 0

\* A DELETE of the only process leaves its cap exactly full.
LEMMA SoleDelete ==
    ASSUME PruneConstants, PruneInv, PruneTypeOK', SoleInv, NEW p \in Proc, Delete(p),
           NEW c, c = at[p]
    PROVE  /\ pc[p] = "prune" /\ c \in Cap
           /\ \A k \in Cap : Cardinality(of_kind(caps[k].kinds)') <= Cardinality(held(k))
           /\ Cardinality(of_kind(caps[c].kinds)') = caps[c].keep
           /\ \A i \in DOMAIN rows \ DOMAIN rows' : i \in held(c)
<1> USE DEF PruneInv
<1> PICK taken : taken = first_rows(p, held(c))
  OBVIOUS
<1>1. over[p] \in Nat /\ over[p] > 0 /\ c \in Cap /\ pc[p] = "prune"
  BY DEF Delete, PruneTypeOK, PlaceInv
<1>2. over[p] = Cardinality(held(c)) - caps[c].keep /\ Cardinality(held(c)) \in Nat
  BY <1>1, OverageType DEF SoleInv
<1>3. \A k \in Cap : Cardinality(held(k)') <= Cardinality(held(k))
  BY <1>1, DeleteLeaves
<1>4. Cardinality(held(c)') = Cardinality(held(c)) - Cardinality(taken)
  BY <1>1, DeleteLeaves
<1>5. /\ taken \subseteq held(c)
      /\ Cardinality(taken) = IF over[p] <= Cardinality(held(c))
                              THEN over[p] ELSE Cardinality(held(c))
  BY <1>1, DeleteTakes
<1>6. caps[c].keep \in Nat
  BY <1>1, Caps
<1>7. Cardinality(held(c)') = caps[c].keep
  BY <1>1, <1>2, <1>4, <1>5, <1>6
<1>8. \A k \in Cap : held(k)' = of_kind(caps[k].kinds)'
  BY DEF held, caps
<1>9. rows' = [i \in DOMAIN rows \ taken |-> rows[i]]
  BY DEF Delete, held
<1>10. \A i \in DOMAIN rows \ DOMAIN rows' : i \in held(c)
  BY <1>5, <1>9
<1>11. /\ \A k \in Cap : Cardinality(of_kind(caps[k].kinds)') <= Cardinality(held(k))
       /\ Cardinality(of_kind(caps[c].kinds)') = caps[c].keep
  BY <1>1, <1>3, <1>7, <1>8
<1>12. QED
  BY <1>1, <1>2, <1>10, <1>11

\* The only process keeps what it has counted.
LEMMA SoleStep ==
    ASSUME PruneConstants, PruneInv, PruneTypeOK', SoleInv, [PruneNext]_vars,
           \A p, q \in Proc : p = q
    PROVE  SoleInv'
<1> USE DEF PruneInv
<1>1. ASSUME NEW p \in Proc, pc'[p] # "prune" \/ (at'[p] = 1 /\ over'[p] = 0) PROVE SoleInv'
  <2> SUFFICES ASSUME NEW q \in Proc, pc'[q] = "prune"
               PROVE  /\ over'[q] > 0 => over'[q] = overage(caps[at[q]])'
                      /\ \A k \in Cap : k < at'[q] => overage(caps[k])' <= 0
    BY DEF SoleInv
  <2>1. at'[q] = 1 /\ over'[q] = 0
    BY <1>1
  <2>2. QED
    BY <2>1 DEF Cap
<1>2. ASSUME NEW p \in Proc, Inserts(p) PROVE SoleInv'
  <2>1. at'[p] = 1 /\ over'[p] = 0
    BY <1>2, InsertsBatch DEF AddsRows, PlaceInv
  <2>2. QED
    BY <1>1, <2>1
<1>3. ASSUME NEW p \in Proc, NEW done, NEW failed, Flush(p, done, failed) PROVE SoleInv'
  <2>1. at'[p] = 1 /\ over'[p] = 0
    BY <1>3 DEF Flush, PlaceInv
  <2>2. QED
    BY <1>1, <2>1
<1>4. ASSUME NEW p \in Proc, Crash(p) PROVE SoleInv'
  <2>1. pc'[p] # "prune"
    BY <1>4 DEF Crash, goto, PruneTypeOK
  <2>2. QED
    BY <1>1, <2>1
<1>5. ASSUME NEW p \in Proc, Count(p) PROVE SoleInv'
  <2>1. /\ pc[p] = "prune" /\ over[p] = 0 /\ at[p] \in Cap /\ rows' = rows
    BY <1>5 DEF Count, PruneTypeOK
  <2>2. \A k \in Cap : overage(caps[k])' = overage(caps[k]) /\ overage(caps[k]) \in Int
    BY <2>1, SameRows, OverageType
  <2>3. CASE overage(caps[at[p]]) > 0
    <3>1. pc' = pc /\ at' = at /\ over'[p] = overage(caps[at[p]])
      BY <1>5, <2>3 DEF Count, PruneTypeOK
    <3>2. overage(caps[at[p]])' = overage(caps[at[p]])
      <4>1. overage(caps[at[p]])' = Cardinality(of_kind(caps[at[p]].kinds)) - caps[at[p]].keep
        BY <2>1, <3>1 DEF overage, of_kind, caps
      <4>2. QED
        BY <4>1 DEF overage
    <3>3. QED
      BY <2>1, <2>2, <3>1, <3>2 DEF SoleInv
  <2>4. CASE ~(overage(caps[at[p]]) > 0)
    <3>1. /\ over'[p] = 0
          /\ at'[p] = IF at[p] = 5 THEN 1 ELSE at[p] + 1
          /\ pc'[p] = IF at[p] = 5 THEN "idle" ELSE "prune"
      BY <1>5, <2>1, <2>4, NextCap DEF Count, PruneTypeOK
    <3>2. ASSUME pc'[p] = "prune", NEW k \in Cap, k < at'[p] PROVE overage(caps[k])' <= 0
      <4>1. k < at[p] \/ k = at[p]
        BY <2>1, <3>1, <3>2 DEF Cap
      <4>2. CASE k < at[p]
        BY <2>1, <2>2, <4>2 DEF SoleInv
      <4>3. CASE k = at[p]
        BY <2>2, <2>4, <4>3
      <4>4. QED
        BY <4>1, <4>2, <4>3
    <3>3. QED
      BY <3>1, <3>2 DEF SoleInv
  <2>5. QED
    BY <2>3, <2>4
<1>6. ASSUME NEW p \in Proc, Delete(p) PROVE SoleInv'
  <2>1. /\ over'[p] = 0 /\ at[p] \in Cap
        /\ at'[p] = IF at[p] = 5 THEN 1 ELSE at[p] + 1
        /\ pc'[p] = IF at[p] = 5 THEN "idle" ELSE "prune"
    BY <1>6, NextCap DEF Delete, PruneTypeOK
  <2>2. ASSUME pc'[p] = "prune", NEW k \in Cap, k < at'[p] PROVE overage(caps[k])' <= 0
    <3>1. k < at[p] \/ k = at[p]
      BY <2>1, <2>2 DEF Cap
    <3>2. /\ overage(caps[k])' = Cardinality(of_kind(caps[k].kinds)') - caps[k].keep
          /\ Cardinality(of_kind(caps[k].kinds)') \in Nat
          /\ overage(caps[k]) = Cardinality(held(k)) - caps[k].keep
          /\ Cardinality(held(k)) \in Nat /\ caps[k].keep \in Nat
      <4>1. held(k)' = of_kind(caps[k].kinds)'
        BY DEF held, caps
      <4>2. QED
        BY <4>1, OverageType, OverageNext
    <3>3. CASE k < at[p]
      <4>1. overage(caps[k]) <= 0
        BY <1>6, <3>3, SoleDelete DEF SoleInv
      <4>2. Cardinality(of_kind(caps[k].kinds)') <= Cardinality(held(k))
        BY <1>6, SoleDelete
      <4>3. QED
        BY <3>2, <4>1, <4>2
    <3>4. CASE k = at[p]
      BY <1>6, <3>2, <3>4, SoleDelete
    <3>5. QED
      BY <3>1, <3>3, <3>4
  <2>3. QED
    BY <2>1, <2>2 DEF SoleInv
<1>7. CASE UNCHANGED vars
  <2>1. \A k \in Cap : overage(caps[k])' = overage(caps[k])
    BY <1>7, SameRows DEF vars
  <2>2. \A p \in Proc : at'[p] = at[p] /\ over'[p] = over[p] /\ pc'[p] = pc[p] /\ at[p] \in Cap
    BY <1>7 DEF vars, PruneTypeOK
  <2>3. \A p \in Proc : overage(caps[at[p]])' = overage(caps[at[p]])
    BY <1>7 DEF overage, of_kind, caps, vars
  <2>4. QED
    BY <2>1, <2>2, <2>3 DEF SoleInv
<1>8. QED
  BY <1>2, <1>3, <1>4, <1>5, <1>6, <1>7 DEF PruneNext, Inserts

\* All rows are the synced ones and the pending ones.
LEMMA NextHalves ==
    ASSUME PruneConstants, PruneTypeOK'
    PROVE  /\ Cardinality(of_kind({"synced"})') \in Nat /\ Cardinality(pending') \in Nat
           /\ Cardinality(of_kind(Kinds)') =
                Cardinality(of_kind({"synced"})') + Cardinality(pending')
<1>1. IsFiniteSet(1 .. last_id')
  <2>1. 1 \in Int /\ last_id' \in Int
    BY DEF PruneTypeOK
  <2>2. QED
    BY <2>1, FS_Interval
<1>2. of_kind({"synced"})' \subseteq 1 .. last_id' /\ pending' \subseteq 1 .. last_id'
  BY DEF of_kind, pending, PruneTypeOK
<1>3. /\ IsFiniteSet(of_kind({"synced"})') /\ IsFiniteSet(pending')
      /\ Cardinality(of_kind({"synced"})') \in Nat /\ Cardinality(pending') \in Nat
  BY <1>1, <1>2, FS_Subset, FS_CardinalityType
<1>4. /\ of_kind(Kinds)' = of_kind({"synced"})' \cup pending'
      /\ of_kind({"synced"})' \cap pending' = {}
  BY DEF of_kind, pending, Kinds, PruneTypeOK
<1>5. Cardinality(of_kind(Kinds)') =
        Cardinality(of_kind({"synced"})') + Cardinality(pending')
        - Cardinality(of_kind({"synced"})' \cap pending')
  BY <1>3, <1>4, FS_Union
<1>6. Cardinality(of_kind({"synced"})' \cap pending') = 0
  BY <1>4, FS_EmptySet
<1>7. QED
  BY <1>3, <1>5, <1>6

\* Without a second process a prune keeps the latest rows of its cap: a row goes only
\* when as many others as the cap stay, be it for the cap of its kind or for the total.
THEOREM PruneKeepsLatest ==
    ASSUME PruneConstants, \A p, q \in Proc : p = q PROVE PruneSpec => LatestStay
<1>1. PruneInit => SoleInv
  BY DEF PruneInit, SoleInv
<1>2. PruneInv /\ PruneInv' /\ SoleInv /\ [PruneNext]_vars => SoleInv'
  BY SoleStep DEF PruneInv
<1>3. PruneInv /\ PruneInv' /\ SoleInv /\ [PruneNext]_vars => [KeepsLatest]_vars
  <2> SUFFICES ASSUME PruneInv, PruneInv', SoleInv, PruneNext PROVE KeepsLatest
    OBVIOUS
  <2> USE DEF PruneInv
  <2>1. ASSUME DOMAIN rows \subseteq DOMAIN rows' PROVE KeepsLatest
    BY <2>1 DEF KeepsLatest, gone, of_kind
  <2>2. ASSUME NEW p \in Proc, Delete(p) PROVE KeepsLatest
    <3> DEFINE synced == of_kind({"synced"})
               all == of_kind(Kinds)
    <3>1. /\ Cardinality(synced) \in Nat /\ Cardinality(pending) \in Nat
          /\ Cardinality(synced') \in Nat /\ Cardinality(pending') \in Nat
          /\ Cardinality(all') = Cardinality(synced') + Cardinality(pending')
      BY Overages, NextHalves DEF pending
    <3> PICK c : c = at[p]
      OBVIOUS
    <3>2. /\ c \in Cap /\ pc[p] = "prune"
          /\ \A k \in Cap : Cardinality(of_kind(caps[k].kinds)') <= Cardinality(held(k))
          /\ Cardinality(of_kind(caps[c].kinds)') = caps[c].keep
          /\ \A i \in DOMAIN rows \ DOMAIN rows' : i \in held(c)
      BY <2>2, SoleDelete
    <3>3. /\ caps[1].kinds = {"synced"} /\ caps[1].keep = MaxSynced
          /\ caps[4].kinds = Kinds \ {"synced"} /\ caps[4].keep = MaxPending
          /\ caps[5].kinds = Kinds /\ caps[5].keep = MaxSynced + MaxPending
          /\ MaxSynced \in Nat /\ MaxPending \in Nat
          /\ 1 \in Cap /\ 4 \in Cap /\ 5 \in Cap
      BY Caps DEF Cap, PruneConstants
    <3>4. caps[2].kinds = {"spent"} /\ caps[3].kinds = {"dead"}
      BY DEF caps
    <3>5. CASE c = 5
      <4>1. Cardinality(all') = MaxSynced + MaxPending
        BY <3>2, <3>3, <3>5
      <4>2. overage(caps[1]) <= 0 /\ overage(caps[4]) <= 0
        <5>1. \A k \in Cap : k < 5 => overage(caps[k]) <= 0
          BY <3>2, <3>5 DEF SoleInv
        <5>2. QED
          BY <3>3, <5>1
      <4>3. /\ Cardinality(held(1)) <= MaxSynced /\ Cardinality(held(4)) <= MaxPending
            /\ Cardinality(held(1)) \in Nat /\ Cardinality(held(4)) \in Nat
        BY <3>3, <4>2, OverageType
      <4>4. /\ Cardinality(synced') <= Cardinality(held(1))
            /\ Cardinality(pending') <= Cardinality(held(4))
        BY <3>2, <3>3 DEF pending
      <4>5. Cardinality(synced') >= MaxSynced /\ Cardinality(pending') >= MaxPending
        BY <3>1, <3>3, <4>1, <4>3, <4>4
      <4>6. QED
        BY <4>5 DEF KeepsLatest
    <3>6. CASE c = 1
      <4>1. Cardinality(synced') = MaxSynced
        BY <3>2, <3>3, <3>6
      <4>2. ~gone("live")
        BY <3>2, <3>3, <3>6 DEF gone, of_kind, held
      <4>3. QED
        BY <3>3, <4>1, <4>2 DEF KeepsLatest
    <3>7. CASE c = 4
      <4>1. Cardinality(pending') = MaxPending
        BY <3>2, <3>3, <3>7 DEF pending
      <4>2. ~gone("synced")
        BY <3>2, <3>3, <3>7 DEF gone, of_kind, held
      <4>3. QED
        BY <3>3, <4>1, <4>2 DEF KeepsLatest
    <3>8. CASE c \in {2, 3}
      BY <3>2, <3>4, <3>8 DEF KeepsLatest, gone, of_kind, held
    <3>9. QED
      BY <3>2, <3>5, <3>6, <3>7, <3>8 DEF Cap
  <2>3. ASSUME NEW p \in Proc, Inserts(p) PROVE KeepsLatest
    BY <2>1, <2>3, InsertsBatch DEF AddsRows
  <2>4. ASSUME NEW p \in Proc, NEW done, NEW failed, Flush(p, done, failed) PROVE KeepsLatest
    BY <2>1, <2>4 DEF Flush
  <2>5. ASSUME NEW p \in Proc, Count(p) \/ Crash(p) PROVE KeepsLatest
    BY <2>1, <2>5 DEF Count, Crash
  <2>6. QED
    BY <2>2, <2>3, <2>4, <2>5 DEF PruneNext, Inserts
<1>4. QED
  BY <1>1, <1>2, <1>3, PruneInvariant, PTL DEF PruneSpec, LatestStay
=============================================================================
