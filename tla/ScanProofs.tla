------------------------------ MODULE ScanProofs ------------------------------
(***************************************************************************)
(* Proofs about the scan of local usage.                                   *)
(*                                                                         *)
(* MonitoringEvents: what a cached file holds was offered to records.db,   *)
(* the keys of usage.sqlite and the rows of records.db agree but for the   *)
(* transactions that failed, and a line with a time stamp has one row.     *)
(* The invariant has three layers: what any row, key and event in hand     *)
(* says of its file (EventsInv), which rows a transaction sees (part of    *)
(* EventsInv: no signature twice), and, as long as no cap cuts rows, how a *)
(* transaction's snapshot relates to the table (AccountInv).               *)
(*                                                                         *)
(* UsageRollups (as Rollups, from "Sums over finite sets" on): every total *)
(* is the sum of its sources, old sessions are folded in before any scan,  *)
(* and a file the default scan skips is counted.                           *)
(*                                                                         *)
(* CodexRollout (as Rollout, from "CodexRollout" on): a log that is read   *)
(* whole is counted exactly, and no log is counted twice.                  *)
(***************************************************************************)
EXTENDS MonitoringEvents, SequenceTheorems, FiniteSetTheorems, TLAPS

CONSTANTS
    Day, Today0, Content, Position, First, Upgraded, Explicit, Lookback, Retention,
    MaxEntries, MaxCandidates, MaxFiles, MaxRollups, MaxSources, MaxCache, MaxWrites,    \* Rollups's
    Model, Unknown, Window, Unsplit, Cumulative, MaxTokens  \* Rollout's

VARIABLES
    logs, today, sessions, rollup, sources, scanned_files, rpc, rjob, writes, rcrashes,
                                                    \* Rollups's
    log, model, session, used                       \* Rollout's

Rollups == INSTANCE UsageRollups WITH
    disk <- logs, cache <- scanned_files, pc <- rpc, job <- rjob, crashes <- rcrashes
Rollout == INSTANCE CodexRollout

\* A window of at least one line, caps and bounds, and a None that is nothing else.
EventsAssumption ==
    /\ MaxWindow \in Nat \ {0}
    /\ {MaxLines, MaxSeen, MaxRecords} \subseteq Nat
    /\ Stamped \subseteq BOOLEAN
    /\ None \notin Proc /\ None \notin Seq(Event) /\ None \notin File \X (1 .. MaxLines)

-----------------------------------------------------------------------------
(* The invariant.                                                          *)

window_start(n) == IF n > MaxWindow THEN n - MaxWindow + 1 ELSE 1

\* The event of line l in the window of a file of n lines, and all of that window.
event_of(f, n, l) ==
    [file |-> f, line |-> l, index |-> l - window_start(n),
     mtime |-> IF disk[f][l] THEN 0 ELSE n]

events_of(f, n) == {event_of(f, n, l) : l \in window_start(n) .. n}

\* What the lines of its file say of an event: it was read from a line that is there;
\* with a time stamp it has that time; while the file fits the window, its index is
\* its line's.
real(e) ==
    /\ e.line <= Len(disk[e.file])
    /\ disk[e.file][e.line] => e.mtime = 0
    /\ Len(disk[e.file]) <= MaxWindow => e.index = e.line - 1

all_real(q) == \A e \in Range(q) : real(e)

\* No signature twice.
unique(q) == \A i, j \in DOMAIN q : record_sig(q[i]) = record_sig(q[j]) => i = j

at_work(p) == pc[p] \in {"seen", "check", "insert"}

\* Where a process is and what it holds there.
Placed(p) ==
    /\ pc[p] # "idle" => job[p] # None /\ job[p][2] <= Len(disk[job[p][1]])
    /\ ~at_work(p) => view[p] = None /\ todo[p] = <<>>
    /\ pc[p] \in {"check", "insert"} => todo[p] # <<>> /\ source_key(Head(todo[p])) \in ever_seen
    /\ pc[p] = "insert" => /\ view[p] # None
                           /\ record_sig(Head(todo[p])) \notin sigs(view[p])

\* The events of a file that is read are seen or in hand; those of one that was read
\* are seen.
Offered(p) ==
    /\ at_work(p) => events_of(job[p][1], job[p][2]) \subseteq ever_seen \cup Range(todo[p])
    /\ pc[p] \in {"prune", "cache"} => events_of(job[p][1], job[p][2]) \subseteq ever_seen

CachedIsOffered ==
    \A c \in cache : c[2] <= Len(disk[c[1]]) /\ events_of(c[1], c[2]) \subseteq ever_seen

Rows(q) == all_real(q) /\ unique(q)

ProcessInv(p) ==
    /\ Placed(p) /\ Offered(p)
    /\ all_real(todo[p])
    /\ view[p] # None => Rows(view[p])

TableInv ==
    /\ \A f \in File : Len(disk[f]) <= MaxLines
    /\ Range(seen) \subseteq ever_seen
    /\ CachedIsOffered
    /\ Rows(records)

EventsInv == TypeOK /\ TableInv /\ \A p \in Proc : ProcessInv(p)

-----------------------------------------------------------------------------
(* Sequences of events.                                                    *)

\* The greater one of two numbers.
LEMMA MaxOfTwo ==
    ASSUME NEW a \in Int, NEW b \in Int
    PROVE  Max({a, b}) = IF a >= b THEN a ELSE b
<1> DEFINE m == IF a >= b THEN a ELSE b
<1>1. m \in {a, b} /\ \A y \in {a, b} : m >= y
  OBVIOUS
<1>2. Max({a, b}) \in {a, b} /\ \A y \in {a, b} : Max({a, b}) >= y
  BY <1>1 DEF Max
<1>. QED  BY <1>2

\* The first and the other members of a sequence.
LEMMA HeadAndTail ==
    ASSUME NEW S, NEW s \in Seq(S), s # <<>>
    PROVE  /\ Head(s) \in S /\ Tail(s) \in Seq(S)
           /\ Range(s) = {Head(s)} \cup Range(Tail(s))
           /\ Len(s) \in Nat \ {0} /\ Head(s) = s[1] /\ Len(Tail(s)) = Len(s) - 1
           /\ \A i \in 1 .. Len(s) - 1 : Tail(s)[i] = s[i + 1]
<1>1. /\ Head(s) \in S /\ Tail(s) \in Seq(S) /\ Head(s) = s[1]
      /\ Len(s) \in Nat \ {0} /\ Len(Tail(s)) = Len(s) - 1
      /\ \A i \in 1 .. Len(s) - 1 : Tail(s)[i] = s[i + 1]
  OBVIOUS
<1>2. DOMAIN s = 1 .. Len(s) /\ DOMAIN Tail(s) = 1 .. Len(s) - 1
  BY <1>1
<1>3. Range(s) \subseteq {Head(s)} \cup Range(Tail(s))
  <2>1. SUFFICES ASSUME NEW i \in 1 .. Len(s) PROVE s[i] \in {Head(s)} \cup Range(Tail(s))
    BY <1>2 DEF Range
  <2>2. CASE i = 1
    BY <1>1, <2>2
  <2>3. CASE i # 1
    <3>1. i - 1 \in 1 .. Len(s) - 1 /\ Tail(s)[i - 1] = s[i]
      BY <1>1, <2>3
    <3>. QED  BY <1>2, <3>1 DEF Range
  <2>. QED  BY <2>2, <2>3
<1>4. Head(s) \in Range(s)
  BY <1>1, <1>2 DEF Range
<1>5. Range(Tail(s)) \subseteq Range(s)
  <2>1. \A i \in 1 .. Len(s) - 1 : i + 1 \in 1 .. Len(s) /\ Tail(s)[i] = s[i + 1]
    BY <1>1
  <2>. QED  BY <1>2, <2>1 DEF Range
<1>. QED  BY <1>1, <1>3, <1>4, <1>5

\* The members of a sequence and one more.
LEMMA Appended ==
    ASSUME NEW S, NEW s \in Seq(S), NEW e \in S
    PROVE  /\ Append(s, e) \in Seq(S)
           /\ Range(Append(s, e)) = Range(s) \cup {e}
           /\ Len(s) \in Nat /\ DOMAIN s = 1 .. Len(s)
           /\ DOMAIN Append(s, e) = 1 .. Len(s) + 1
           /\ \A i \in 1 .. Len(s) : Append(s, e)[i] = s[i]
           /\ Append(s, e)[Len(s) + 1] = e
<1>1. /\ Append(s, e) \in Seq(S) /\ Len(s) \in Nat /\ DOMAIN s = 1 .. Len(s)
      /\ DOMAIN Append(s, e) = 1 .. Len(s) + 1
      /\ \A i \in 1 .. Len(s) : Append(s, e)[i] = s[i]
      /\ Append(s, e)[Len(s) + 1] = e
  OBVIOUS
<1>2. Range(Append(s, e)) \subseteq Range(s) \cup {e}
  <2>1. SUFFICES ASSUME NEW i \in 1 .. Len(s) + 1 PROVE Append(s, e)[i] \in Range(s) \cup {e}
    BY <1>1 DEF Range
  <2>2. CASE i = Len(s) + 1
    BY <1>1, <2>2
  <2>3. CASE i # Len(s) + 1
    <3>1. i \in 1 .. Len(s)
      BY <1>1, <2>3
    <3>. QED  BY <1>1, <3>1 DEF Range
  <2>. QED  BY <2>2, <2>3
<1>3. Range(s) \subseteq Range(Append(s, e))
  <2>1. \A i \in 1 .. Len(s) : i \in 1 .. Len(s) + 1 /\ Append(s, e)[i] = s[i]
    BY <1>1
  <2>. QED  BY <1>1, <2>1 DEF Range
<1>4. e \in Range(Append(s, e))
  <2>1. Len(s) + 1 \in 1 .. Len(s) + 1
    BY <1>1
  <2>. QED  BY <1>1, <2>1 DEF Range
<1>. QED  BY <1>1, <1>2, <1>3, <1>4

\* The newest n members of a sequence are the last of it.
LEMMA NewestOf ==
    ASSUME NEW S, NEW q \in Seq(S), NEW n \in Nat
    PROVE  /\ newest(q, n) \in Seq(S)
           /\ Range(newest(q, n)) \subseteq Range(q)
           /\ \E m \in Nat : /\ Len(newest(q, n)) \in Nat
                             /\ Len(newest(q, n)) + m <= Len(q)
                             /\ \A i \in 1 .. Len(newest(q, n)) : newest(q, n)[i] = q[i + m]
<1> DEFINE a == IF Len(q) - n + 1 > 1 THEN Len(q) - n + 1 ELSE 1
           r == SubSeq(q, a, Len(q))
<1>1. Len(q) \in Nat /\ DOMAIN q = 1 .. Len(q)
  OBVIOUS
<1>2. newest(q, n) = r
  <2>1. Max({1, Len(q) - n + 1}) = a
    BY <1>1, MaxOfTwo
  <2>. QED  BY <2>1 DEF newest
<1>3. a \in Nat /\ a >= 1 /\ a - 1 \in Nat
  BY <1>1
<1> HIDE DEF a
<1>4. \A i \in a .. Len(q) : q[i] \in S
  BY <1>1, <1>3
<1>5. /\ r \in Seq(S)
      /\ Len(r) = IF a <= Len(q) THEN Len(q) - a + 1 ELSE 0
      /\ \A i \in 1 .. Len(q) - a + 1 : r[i] = q[a + i - 1]
  BY <1>1, <1>3, <1>4, SubSeqProperties
<1> HIDE DEF r
<1>6. Len(q) - a + 1 <= 0 => a > Len(q)
  BY <1>1, <1>3
<1>7. \A i \in 1 .. Len(r) : i \in 1 .. Len(q) - a + 1 /\ a + i - 1 = i + (a - 1)
  BY <1>1, <1>3, <1>5
<1>8. \A i \in 1 .. Len(r) : r[i] = q[i + (a - 1)] /\ i + (a - 1) \in 1 .. Len(q)
  BY <1>1, <1>3, <1>5, <1>7
<1>9. Range(r) \subseteq Range(q)
  <2>1. DOMAIN r = 1 .. Len(r)
    BY <1>5
  <2>. QED  BY <1>1, <1>8, <2>1 DEF Range
<1>10. Len(r) \in Nat /\ (Len(r) = 0 \/ Len(r) + (a - 1) <= Len(q))
  BY <1>1, <1>3, <1>5
<1>11. \E m \in Nat : /\ Len(r) \in Nat /\ Len(r) + m <= Len(q)
                      /\ \A i \in 1 .. Len(r) : r[i] = q[i + m]
  <2>1. CASE Len(r) = 0
    <3>1. Len(r) + 0 <= Len(q) /\ \A i \in 1 .. Len(r) : FALSE
      BY <1>1, <2>1
    <3>. QED  BY <1>10, <3>1
  <2>2. CASE Len(r) + (a - 1) <= Len(q)
    BY <1>3, <1>8, <1>10, <2>2
  <2>. QED  BY <1>10, <2>1, <2>2
<1>. QED  BY <1>2, <1>5, <1>9, <1>11

-----------------------------------------------------------------------------
(* Signatures.                                                             *)

\* Equal signatures are those of one line.
LEMMA SigFields ==
    ASSUME NEW a, NEW b, record_sig(a) = record_sig(b)
    PROVE  a.file = b.file /\ a.line = b.line
BY DEF record_sig

\* Two real events of one line with a time stamp have one signature.
LEMMA StampedSig ==
    ASSUME EventsAssumption, NEW a \in Event, NEW b \in Event, real(a), real(b),
           a.file = b.file, a.line = b.line, disk[a.file][a.line],
           InRepo \/ Len(disk[a.file]) <= MaxWindow
    PROVE  record_sig(a) = record_sig(b)
<1>1. a.mtime = b.mtime
  BY DEF real
<1>2. CASE InRepo
  BY <1>1, <1>2 DEF record_sig
<1>3. CASE ~InRepo
  <2>1. a.index = b.index
    BY <1>3 DEF real
  <2>2. a = b
    BY <1>1, <2>1 DEF Event
  <2>. QED  BY <2>2
<1>. QED  BY <1>2, <1>3

\* sigs of a sequence of events.
LEMMA SigsAre ==
    ASSUME NEW q, NEW s
    PROVE  s \in sigs(q) <=> \E i \in DOMAIN q : s = record_sig(q[i])
BY DEF sigs

\* A row whose signature is new keeps the others' unique.
LEMMA RowAppended ==
    ASSUME NEW q \in Seq(Event), NEW e \in Event, Rows(q), real(e), record_sig(e) \notin sigs(q)
    PROVE  /\ Append(q, e) \in Seq(Event)
           /\ Rows(Append(q, e))
           /\ sigs(Append(q, e)) = sigs(q) \cup {record_sig(e)}
<1> DEFINE r == Append(q, e)
           n == Len(q)
<1>1. /\ r \in Seq(Event) /\ Range(r) = Range(q) \cup {e}
      /\ n \in Nat /\ DOMAIN q = 1 .. n /\ DOMAIN r = 1 .. n + 1
      /\ \A i \in 1 .. n : r[i] = q[i]
      /\ r[n + 1] = e
  BY Appended
<1> HIDE DEF r, n
<1>2. all_real(r)
  BY <1>1 DEF all_real, Rows
<1>3. \A i \in 1 .. n : record_sig(q[i]) # record_sig(e)
  BY <1>1 DEF sigs
<1>4. \A i \in 1 .. n + 1 : i \in 1 .. n \/ i = n + 1
  BY <1>1
<1>5. unique(r)
  <2>1. SUFFICES ASSUME NEW i \in 1 .. n + 1, NEW j \in 1 .. n + 1,
                        record_sig(r[i]) = record_sig(r[j])
                 PROVE  i = j
    BY <1>1 DEF unique
  <2>2. CASE i \in 1 .. n /\ j \in 1 .. n
    <3>1. record_sig(q[i]) = record_sig(q[j])
      BY <1>1, <2>1, <2>2
    <3>. QED  BY <1>1, <2>2, <3>1 DEF Rows, unique
  <2>3. CASE i = n + 1 /\ j \in 1 .. n
    BY <1>1, <1>3, <2>1, <2>3
  <2>4. CASE j = n + 1 /\ i \in 1 .. n
    BY <1>1, <1>3, <2>1, <2>4
  <2>. QED  BY <1>4, <2>2, <2>3, <2>4
<1>6. sigs(r) = sigs(q) \cup {record_sig(e)}
  <2>1. ASSUME NEW s \in sigs(r) PROVE s \in sigs(q) \cup {record_sig(e)}
    <3>1. PICK i \in 1 .. n + 1 : s = record_sig(r[i])
      BY <1>1, <2>1 DEF sigs
    <3>2. CASE i \in 1 .. n
      BY <1>1, <3>1, <3>2 DEF sigs
    <3>3. CASE i = n + 1
      BY <1>1, <3>1, <3>3
    <3>. QED  BY <1>4, <3>2, <3>3
  <2>2. ASSUME NEW s \in sigs(q) PROVE s \in sigs(r)
    <3>1. PICK i \in 1 .. n : s = record_sig(q[i])
      BY <1>1, <2>2 DEF sigs
    <3>2. i \in 1 .. n + 1 /\ s = record_sig(r[i])
      BY <1>1, <3>1
    <3>. QED  BY <1>1, <3>2 DEF sigs
  <2>3. record_sig(e) \in sigs(r)
    <3>1. n + 1 \in 1 .. n + 1
      BY <1>1
    <3>. QED  BY <1>1, <3>1 DEF sigs
  <2>. QED  BY <2>1, <2>2, <2>3
<1>. QED  BY <1>1, <1>2, <1>5, <1>6 DEF Rows, r

\* The newest rows of a table are as good as the table.
LEMMA RowsNewest ==
    ASSUME NEW q \in Seq(Event), NEW n \in Nat, Rows(q)
    PROVE  newest(q, n) \in Seq(Event) /\ Rows(newest(q, n))
<1>1. newest(q, n) \in Seq(Event) /\ Range(newest(q, n)) \subseteq Range(q)
  BY NewestOf
<1>2. PICK m \in Nat : /\ Len(newest(q, n)) \in Nat
                       /\ Len(newest(q, n)) + m <= Len(q)
                       /\ \A i \in 1 .. Len(newest(q, n)) : newest(q, n)[i] = q[i + m]
  BY NewestOf
<1>3. unique(newest(q, n))
  <2>1. DOMAIN newest(q, n) = 1 .. Len(newest(q, n)) /\ DOMAIN q = 1 .. Len(q) /\ Len(q) \in Nat
    BY <1>1
  <2>2. SUFFICES ASSUME NEW i \in 1 .. Len(newest(q, n)), NEW j \in 1 .. Len(newest(q, n)),
                        record_sig(newest(q, n)[i]) = record_sig(newest(q, n)[j])
                 PROVE  i = j
    BY <2>1 DEF unique
  <2>3. i + m \in 1 .. Len(q) /\ j + m \in 1 .. Len(q)
    BY <1>2, <2>1
  <2>4. record_sig(q[i + m]) = record_sig(q[j + m])
    BY <1>2, <2>2
  <2>5. i + m = j + m
    BY <2>1, <2>3, <2>4 DEF Rows, unique
  <2>. QED  BY <1>2, <2>5
<1>. QED  BY <1>1, <1>3 DEF Rows, all_real

-----------------------------------------------------------------------------
(* Steps of EventsInv.                                                     *)

\* The events of a file as it is: one to a line of its window, in their order, and real.
LEMMA WindowIs ==
    ASSUME EventsAssumption, EventsInv, NEW f \in File, disk[f] # <<>>
    PROVE  /\ Len(disk[f]) \in 1 .. MaxLines
           /\ events(f) \in Seq(Event)
           /\ Range(events(f)) = events_of(f, Len(disk[f]))
           /\ all_real(events(f))
           /\ \A i \in DOMAIN events(f) : /\ events(f)[i].file = f
                                          /\ events(f)[i].line = window_start(Len(disk[f])) + i - 1
<1> DEFINE n == Len(disk[f])
           a == window_start(n)
<1>1. disk[f] \in Seq(BOOLEAN) /\ n \in 1 .. MaxLines
  BY DEF EventsInv, TypeOK, TableInv, EventsAssumption
<1>2. Max({1, n - MaxWindow + 1}) = a
  BY <1>1, MaxOfTwo DEF window_start, EventsAssumption
<1>3. a \in 1 .. n /\ n - a + 1 \in 1 .. MaxWindow /\ (n <= MaxWindow => a = 1)
  BY <1>1 DEF window_start, EventsAssumption
<1>4. events(f) = [k \in 1 .. (n - a + 1) |->
                     [file |-> f, line |-> a + k - 1, index |-> k - 1,
                      mtime |-> IF disk[f][a + k - 1] THEN 0 ELSE n]]
  BY <1>2 DEF events
<1>5. \A l \in a .. n : event_of(f, n, l) = [file |-> f, line |-> l, index |-> l - a,
                                             mtime |-> IF disk[f][l] THEN 0 ELSE n]
  BY DEF event_of
<1> HIDE DEF a, n
<1>6. \A k \in 1 .. (n - a + 1) :
        /\ a + k - 1 \in a .. n /\ (a + k - 1) - a = k - 1
        /\ k - 1 \in 0 .. MaxWindow - 1 /\ a + k - 1 \in 1 .. MaxLines
  BY <1>1, <1>3 DEF EventsAssumption
<1>7. \A k \in 1 .. (n - a + 1) : events(f)[k] = event_of(f, n, a + k - 1)
  BY <1>4, <1>5, <1>6
<1>8. DOMAIN events(f) = 1 .. (n - a + 1)
  BY <1>4
<1>9. \A k \in 1 .. (n - a + 1) : events(f)[k] \in Event
  <2>1. n \in 0 .. MaxLines /\ 0 \in 0 .. MaxLines
    BY <1>1 DEF EventsAssumption
  <2>. QED  BY <1>4, <1>6, <2>1 DEF Event
<1>10. events(f) \in Seq(Event)
  <2>1. n - a + 1 \in Nat
    BY <1>1, <1>3
  <2>2. events(f) \in [1 .. (n - a + 1) -> Event]
    BY <1>4, <1>9
  <2>. QED  BY <2>1, <2>2
<1>11. Range(events(f)) = events_of(f, n)
  <2>1. ASSUME NEW e \in Range(events(f)) PROVE e \in events_of(f, n)
    <3>1. PICK k \in 1 .. (n - a + 1) : e = events(f)[k]
      BY <1>8 DEF Range
    <3>. QED  BY <1>6, <1>7, <3>1 DEF events_of, a
  <2>2. ASSUME NEW l \in a .. n PROVE event_of(f, n, l) \in Range(events(f))
    <3>1. l - a + 1 \in 1 .. (n - a + 1) /\ a + (l - a + 1) - 1 = l
      BY <1>1, <1>3
    <3>. QED  BY <1>7, <1>8, <3>1 DEF Range
  <2>. QED  BY <2>1, <2>2 DEF events_of, a
<1>12. all_real(events(f))
  <2>1. SUFFICES ASSUME NEW k \in 1 .. (n - a + 1) PROVE real(events(f)[k])
    BY <1>8 DEF all_real, Range
  <2>2. /\ events(f)[k].file = f /\ events(f)[k].line = a + k - 1
        /\ events(f)[k].index = k - 1
        /\ disk[f][a + k - 1] => events(f)[k].mtime = 0
    BY <1>4
  <2>. QED  BY <1>1, <1>3, <1>6, <2>2 DEF real, n
<1>13. \A k \in DOMAIN events(f) : events(f)[k].file = f /\ events(f)[k].line = a + k - 1
  BY <1>4
<1>. QED  BY <1>1, <1>10, <1>11, <1>12, <1>13 DEF a, n

\* A process that a step leaves alone.
LEMMA OtherProcess ==
    ASSUME EventsInv, NEW q \in Proc, disk' = disk, ever_seen \subseteq ever_seen',
           pc'[q] = pc[q], job'[q] = job[q], todo'[q] = todo[q], view'[q] = view[q]
    PROVE  ProcessInv(q)'
<1>1. ProcessInv(q)
  BY DEF EventsInv
<1>2. Placed(q)'
  BY <1>1 DEF ProcessInv, Placed, at_work, sigs, record_sig, source_key
<1>3. Offered(q)'
  BY <1>1 DEF ProcessInv, Offered, at_work, events_of, event_of
<1>4. all_real(todo[q])' /\ (view[q] # None => Rows(view[q]))'
  BY <1>1 DEF ProcessInv, all_real, Rows, unique, real, record_sig, source_key
<1>. QED  BY <1>2, <1>3, <1>4 DEF ProcessInv

\* A table a step leaves alone, but for keys that are added.
LEMMA SameTables ==
    ASSUME EventsInv, disk' = disk, seen' = seen, cache' = cache, records' = records,
           ever_seen \subseteq ever_seen'
    PROVE  TableInv'
BY DEF EventsInv, TableInv, CachedIsOffered, events_of, event_of, Rows, all_real, unique, real,
       record_sig, source_key

LEMMA ScanFileEvents ==
    ASSUME EventsAssumption, EventsInv, NEW p \in Proc, NEW f \in File, ScanFile(p, f)
    PROVE  EventsInv'
<1> DEFINE n == Len(disk[f])
<1>1. /\ n \in 1 .. MaxLines /\ events(f) \in Seq(Event)
      /\ Range(events(f)) = events_of(f, n) /\ all_real(events(f))
  BY WindowIs DEF ScanFile
<1>2. /\ job' = [job EXCEPT ![p] = <<f, n>>] /\ todo' = [todo EXCEPT ![p] = events(f)]
      /\ pc' = [pc EXCEPT ![p] = "seen"] /\ pc[p] = "idle"
      /\ UNCHANGED <<disk, seen, cache, ever_seen, records, writer, stale, view, lost>>
  BY DEF ScanFile, goto, usage_db, records_db, env_vars
<1> HIDE DEF n
<1>3. TypeOK'
  <2>1. <<f, n>> \in File \X (1 .. MaxLines)
    BY <1>1
  <2>. QED  BY <1>1, <1>2, <2>1 DEF EventsInv, TypeOK, Event
<1>4. TableInv'
  BY <1>2, SameTables
<1>5. ASSUME NEW q \in Proc, q # p PROVE ProcessInv(q)'
  BY <1>2, <1>5, OtherProcess DEF EventsInv, TypeOK
<1>6. ProcessInv(p)'
  <2>1. pc'[p] = "seen" /\ job'[p] = <<f, n>> /\ todo'[p] = events(f) /\ view'[p] = None
    BY <1>2 DEF EventsInv, TypeOK, ProcessInv, Placed, at_work
  <2>2. <<f, n>> # None
    BY <1>1 DEF EventsAssumption
  <2>3. Placed(p)'
    BY <1>1, <1>2, <2>1, <2>2 DEF Placed, at_work, n
  <2>5. events_of(job[p][1], job[p][2])' \subseteq (ever_seen \cup Range(todo[p]))'
    BY <1>1, <1>2, <2>1 DEF events_of, event_of
  <2>6. Offered(p)'
    BY <2>1, <2>5 DEF Offered, at_work
  <2>7. all_real(todo[p])'
    BY <1>1, <1>2, <2>1 DEF all_real, real
  <2>. QED  BY <2>1, <2>3, <2>6, <2>7 DEF ProcessInv
<1>. QED  BY <1>3, <1>4, <1>5, <1>6 DEF EventsInv

LEMMA MarkSeenEvents ==
    ASSUME EventsAssumption, EventsInv, NEW p \in Proc, MarkSeen(p)
    PROVE  EventsInv'
<1> DEFINE k == Head(todo[p])
<1>1. /\ pc[p] = "seen" /\ todo[p] # <<>>
      /\ UNCHANGED <<disk, cache, records, writer, stale, job, view, lost>>
  BY DEF MarkSeen, usage_db, records_db, env_vars
<1>2. todo[p] \in Seq(Event) /\ k \in Event /\ Tail(todo[p]) \in Seq(Event)
      /\ Range(todo[p]) = {k} \cup Range(Tail(todo[p]))
  <2>1. todo[p] \in Seq(Event)
    BY DEF EventsInv, TypeOK
  <2>. QED  BY <1>1, <2>1, HeadAndTail
<1>3. ProcessInv(p) /\ at_work(p)
  BY <1>1 DEF EventsInv, at_work
<1>4. CASE k \in Range(seen)
  <2>1. /\ todo' = [todo EXCEPT ![p] = Tail(todo[p])]
        /\ UNCHANGED <<seen, ever_seen, pc>>
    BY <1>4 DEF MarkSeen, next_event, source_key, usage_db
  <2> HIDE DEF k
  <2>2. TypeOK'
    BY <1>1, <1>2, <2>1 DEF EventsInv, TypeOK, Event
  <2>3. TableInv'
    BY <1>1, <2>1, SameTables
  <2>4. ASSUME NEW q \in Proc, q # p PROVE ProcessInv(q)'
    BY <1>1, <2>1, <2>4, OtherProcess DEF EventsInv, TypeOK
  <2>5. ProcessInv(p)'
    <3>1. todo'[p] = Tail(todo[p])
      BY <2>1 DEF EventsInv, TypeOK
    <3>2. k \in ever_seen
      BY <1>4 DEF EventsInv, TableInv
    <3>3. Placed(p)'
      BY <1>1, <1>3, <2>1 DEF ProcessInv, Placed, at_work
    <3>4. Offered(p)'
      BY <1>1, <1>2, <1>3, <2>1, <3>1, <3>2 DEF ProcessInv, Offered, at_work, events_of, event_of
    <3>5. all_real(todo[p])'
      BY <1>1, <1>2, <1>3, <3>1 DEF ProcessInv, all_real, real
    <3>6. (view[p] # None => Rows(view[p]))'
      BY <1>1, <1>3 DEF ProcessInv, all_real, Rows, unique, real, record_sig, source_key
    <3>. QED  BY <3>3, <3>4, <3>5, <3>6 DEF ProcessInv
  <2>. QED  BY <2>2, <2>3, <2>4, <2>5 DEF EventsInv
<1>5. CASE k \notin Range(seen)
  <2>1. /\ seen' = Append(seen, k) /\ ever_seen' = ever_seen \cup {k}
        /\ pc' = [pc EXCEPT ![p] = "check"] /\ todo' = todo
    BY <1>5 DEF MarkSeen, goto, source_key
  <2> HIDE DEF k
  <2>2. seen' \in Seq(Event) /\ Range(seen') = Range(seen) \cup {k}
    BY <1>2, <2>1, Appended DEF EventsInv, TypeOK
  <2>3. TypeOK'
    BY <1>1, <1>2, <2>1, <2>2 DEF EventsInv, TypeOK, Event
  <2>4. TableInv'
    BY <1>1, <2>1, <2>2 DEF EventsInv, TableInv, CachedIsOffered, events_of, event_of, Rows,
       all_real, unique, real, record_sig, source_key
  <2>5. ASSUME NEW q \in Proc, q # p PROVE ProcessInv(q)'
    BY <1>1, <2>1, <2>5, OtherProcess DEF EventsInv, TypeOK
  <2>6. ProcessInv(p)'
    <3>1. pc'[p] = "check"
      BY <2>1 DEF EventsInv, TypeOK
    <3>2. Placed(p)'
      BY <1>1, <1>3, <2>1, <3>1 DEF ProcessInv, Placed, at_work, source_key, k
    <3>3. Offered(p)'
      BY <1>1, <1>3, <2>1, <3>1 DEF ProcessInv, Offered, at_work, events_of, event_of
    <3>4. all_real(todo[p])'
      BY <1>1, <1>3, <2>1 DEF ProcessInv, all_real, real
    <3>5. (view[p] # None => Rows(view[p]))'
      BY <1>1, <1>3 DEF ProcessInv, all_real, Rows, unique, real, record_sig, source_key
    <3>. QED  BY <3>2, <3>3, <3>4, <3>5 DEF ProcessInv
  <2>. QED  BY <2>3, <2>4, <2>5, <2>6 DEF EventsInv
<1>. QED  BY <1>4, <1>5

LEMMA CheckRecordEvents ==
    ASSUME EventsAssumption, EventsInv, NEW p \in Proc, CheckRecord(p)
    PROVE  EventsInv'
<1> DEFINE k == Head(todo[p])
           rows == IF view[p] = None THEN records ELSE view[p]
<1>1. /\ pc[p] = "check" /\ view' = [view EXCEPT ![p] = rows]
      /\ UNCHANGED <<disk, seen, cache, ever_seen, records, writer, stale, job, lost>>
  BY DEF CheckRecord, usage_db, records_db, env_vars
<1>2. ProcessInv(p) /\ at_work(p) /\ todo[p] # <<>> /\ k \in ever_seen
  BY <1>1 DEF EventsInv, at_work, ProcessInv, Placed, source_key
<1>3. todo[p] \in Seq(Event) /\ k \in Event /\ Tail(todo[p]) \in Seq(Event)
      /\ Range(todo[p]) = {k} \cup Range(Tail(todo[p]))
  <2>1. todo[p] \in Seq(Event)
    BY DEF EventsInv, TypeOK
  <2>. QED  BY <1>2, <2>1, HeadAndTail
<1>4. rows \in Seq(Event) /\ Rows(rows) /\ rows # None
  BY <1>2 DEF EventsInv, TypeOK, TableInv, ProcessInv, EventsAssumption
<1>5. \/ known_record(rows, k) /\ todo' = [todo EXCEPT ![p] = Tail(todo[p])]
         /\ pc' = [pc EXCEPT ![p] = "seen"]
      \/ ~known_record(rows, k) /\ todo' = todo /\ pc' = [pc EXCEPT ![p] = "insert"]
  BY DEF CheckRecord, next_event, goto
<1> HIDE DEF k, rows
<1>6. TypeOK'
  <2>1. /\ view' \in [Proc -> {None} \cup Seq(Event)] /\ view'[p] = rows
        /\ \A q \in Proc : view[q] # None => view'[q] # None
    BY <1>1, <1>4 DEF EventsInv, TypeOK
  <2>2. todo' \in [Proc -> Seq(Event)]
    BY <1>3, <1>5 DEF EventsInv, TypeOK
  <2>3. pc' \in [Proc -> {"idle", "seen", "check", "insert", "prune", "cache", "trim"}]
    BY <1>5 DEF EventsInv, TypeOK
  <2>. QED  BY <1>1, <2>1, <2>2, <2>3 DEF EventsInv, TypeOK, Event
<1>7. TableInv'
  BY <1>1, SameTables
<1>8. ASSUME NEW q \in Proc, q # p PROVE ProcessInv(q)'
  BY <1>1, <1>5, <1>8, OtherProcess DEF EventsInv, TypeOK
<1>9. ProcessInv(p)'
  <2>1. view'[p] = rows /\ pc'[p] \in {"seen", "insert"}
    BY <1>1, <1>5 DEF EventsInv, TypeOK
  <2>2. todo'[p] = Tail(todo[p]) \/ todo'[p] = todo[p]
    BY <1>5 DEF EventsInv, TypeOK
  <2>3. Placed(p)'
    <3>1. job[p] # None /\ job[p][2] <= Len(disk[job[p][1]])
      BY <1>1, <1>2 DEF ProcessInv, Placed
    <3>2. ASSUME pc'[p] = "insert"
          PROVE  todo'[p] = todo[p] /\ record_sig(k) \notin sigs(rows)
      BY <1>5, <3>2 DEF EventsInv, TypeOK, known_record
    <3>3. pc'[p] = "insert" => record_sig(Head(todo'[p])) \notin sigs(view'[p])
      BY <2>1, <3>2 DEF k
    <3>4. pc'[p] = "insert" => todo'[p] # <<>> /\ source_key(Head(todo'[p])) \in ever_seen
      BY <1>2, <3>2 DEF k, source_key
    <3>. QED  BY <1>1, <1>4, <2>1, <3>1, <3>3, <3>4 DEF Placed, at_work, source_key, sigs, record_sig
  <2>4. Offered(p)'
    <3>1. ever_seen \cup Range(todo[p]) \subseteq ever_seen \cup Range(todo'[p])
      BY <1>2, <1>3, <2>2
    <3>. QED  BY <1>1, <1>2, <2>1, <3>1 DEF ProcessInv, Offered, at_work, events_of, event_of
  <2>5. all_real(todo[p])'
    BY <1>1, <1>2, <1>3, <2>2 DEF ProcessInv, all_real, real
  <2>6. (view[p] # None => Rows(view[p]))'
    BY <1>1, <1>4, <2>1 DEF all_real, Rows, unique, real, record_sig, source_key
  <2>. QED  BY <2>3, <2>4, <2>5, <2>6 DEF ProcessInv
<1>. QED  BY <1>6, <1>7, <1>8, <1>9 DEF EventsInv

LEMMA InsertRecordEvents ==
    ASSUME EventsAssumption, EventsInv, NEW p \in Proc, InsertRecord(p)
    PROVE  EventsInv'
<1> DEFINE k == Head(todo[p])
           rows == Append(view[p], k)
<1>1. /\ pc[p] = "insert" /\ p \notin stale
      /\ writer' = p /\ view' = [view EXCEPT ![p] = Append(view[p], Head(todo[p]))]
      /\ todo' = [todo EXCEPT ![p] = Tail(todo[p])]
      /\ pc' = [pc EXCEPT ![p] = "seen"]
      /\ UNCHANGED <<disk, seen, cache, ever_seen, records, stale, job, lost>>
  <2>1. /\ view' = [view EXCEPT ![p] = Append(@, Head(todo[p]))]
        /\ pc[p] = "insert" /\ p \notin stale /\ writer' = p
    BY DEF InsertRecord, may_write
  <2>2. view' = [view EXCEPT ![p] = Append(view[p], Head(todo[p]))]
    BY <2>1 DEF EventsInv, TypeOK
  <2>3. /\ todo' = [todo EXCEPT ![p] = Tail(todo[p])] /\ pc' = [pc EXCEPT ![p] = "seen"]
        /\ UNCHANGED <<disk, seen, cache, ever_seen, records, stale, job, lost>>
    BY DEF InsertRecord, next_event, goto, usage_db, env_vars
  <2>. QED  BY <2>1, <2>2, <2>3
<1>2. /\ ProcessInv(p) /\ at_work(p) /\ todo[p] # <<>> /\ k \in ever_seen
      /\ view[p] # None /\ Rows(view[p]) /\ record_sig(k) \notin sigs(view[p])
  BY <1>1 DEF EventsInv, at_work, ProcessInv, Placed, source_key
<1>3. todo[p] \in Seq(Event) /\ k \in Event /\ Tail(todo[p]) \in Seq(Event)
      /\ Range(todo[p]) = {k} \cup Range(Tail(todo[p]))
  <2>1. todo[p] \in Seq(Event)
    BY DEF EventsInv, TypeOK
  <2>. QED  BY <1>2, <2>1, HeadAndTail
<1>4. real(k) /\ view[p] \in Seq(Event)
  BY <1>2, <1>3 DEF ProcessInv, all_real, EventsInv, TypeOK
<1>5. rows \in Seq(Event) /\ Rows(rows) /\ rows # None
  <2>1. rows \in Seq(Event) /\ Rows(rows)
    BY <1>2, <1>3, <1>4, RowAppended
  <2>. QED  BY <2>1 DEF EventsAssumption
<1>10. view' = [view EXCEPT ![p] = rows]
  BY <1>1
<1> HIDE DEF k, rows
<1>6. TypeOK'
  <2>1. /\ view' \in [Proc -> {None} \cup Seq(Event)] /\ view'[p] # None
        /\ \A q \in Proc : view[q] # None => view'[q] # None
    BY <1>5, <1>10 DEF EventsInv, TypeOK
  <2>2. todo' \in [Proc -> Seq(Event)]
    BY <1>1, <1>3 DEF EventsInv, TypeOK
  <2>3. pc' \in [Proc -> {"idle", "seen", "check", "insert", "prune", "cache", "trim"}]
    BY <1>1 DEF EventsInv, TypeOK
  <2>. QED  BY <1>1, <2>1, <2>2, <2>3 DEF EventsInv, TypeOK, Event
<1>7. TableInv'
  BY <1>1, SameTables
<1>8. ASSUME NEW q \in Proc, q # p PROVE ProcessInv(q)'
  BY <1>1, <1>8, OtherProcess DEF EventsInv, TypeOK
<1>9. ProcessInv(p)'
  <2>1. view'[p] = rows /\ pc'[p] = "seen" /\ todo'[p] = Tail(todo[p])
    BY <1>1, <1>10 DEF EventsInv, TypeOK
  <2>2. Placed(p)'
    BY <1>1, <1>2, <2>1 DEF ProcessInv, Placed, at_work
  <2>3. Offered(p)'
    <3>1. ever_seen \cup Range(todo[p]) \subseteq ever_seen \cup Range(todo'[p])
      BY <1>2, <1>3, <2>1
    <3>. QED  BY <1>1, <1>2, <2>1, <3>1 DEF ProcessInv, Offered, at_work, events_of, event_of
  <2>4. all_real(todo[p])'
    BY <1>1, <1>2, <1>3, <2>1 DEF ProcessInv, all_real, real
  <2>5. (view[p] # None => Rows(view[p]))'
    <3>1. disk' = disk
      BY <1>1
    <3>. QED  BY <1>5, <2>1, <3>1 DEF all_real, Rows, unique, real, record_sig, source_key
  <2>. QED  BY <2>2, <2>3, <2>4, <2>5 DEF ProcessInv
<1>. QED  BY <1>6, <1>7, <1>8, <1>9 DEF EventsInv

\* A scan that ends, by an error or a kill.
LEMMA EndScanEvents ==
    ASSUME EventsAssumption, EventsInv, NEW p \in Proc, end_scan(p),
           UNCHANGED <<usage_db, records, disk>>
    PROVE  EventsInv'
<1>1. /\ writer' = (IF writer = p THEN None ELSE writer) /\ stale' = stale \ {p}
      /\ view' = [view EXCEPT ![p] = None] /\ todo' = [todo EXCEPT ![p] = <<>>]
      /\ job' = [job EXCEPT ![p] = None] /\ pc' = [pc EXCEPT ![p] = "idle"]
      /\ lost' = lost \cup at_risk(p)
      /\ UNCHANGED <<disk, seen, cache, ever_seen, records>>
  BY DEF end_scan, goto, usage_db
<1>2. at_risk(p) \subseteq Event
  <2>1. pc[p] \in {"check", "insert"} => Head(todo[p]) \in Event
    <3>1. pc[p] \in {"check", "insert"} => todo[p] \in Seq(Event) /\ todo[p] # <<>>
      BY DEF EventsInv, ProcessInv, Placed, TypeOK
    <3>. QED  BY <3>1, HeadAndTail
  <2>2. writer = p => \A i \in DOMAIN view[p] : view[p][i] \in Event
    <3>1. writer = p => view[p] \in Seq(Event)
      BY DEF EventsInv, TypeOK, EventsAssumption
    <3>. QED  BY <3>1
  <2>. QED  BY <2>1, <2>2 DEF at_risk, source_key
<1>3. TypeOK'
  <2>1. view' \in [Proc -> {None} \cup Seq(Event)] /\ \A q \in Proc \ {p} : view'[q] = view[q]
    BY <1>1 DEF EventsInv, TypeOK
  <2>2. todo' \in [Proc -> Seq(Event)]
    BY <1>1 DEF EventsInv, TypeOK
  <2>3. stale' \subseteq {q \in Proc : view'[q] # None}
    BY <1>1, <2>1 DEF EventsInv, TypeOK
  <2>4. writer' # None => view'[writer'] # None /\ writer' \notin stale'
    BY <1>1, <2>1 DEF EventsInv, TypeOK
  <2>. QED  BY <1>1, <1>2, <2>1, <2>2, <2>3, <2>4 DEF EventsInv, TypeOK, Event
<1>4. TableInv'
  BY <1>1, SameTables
<1>5. ASSUME NEW q \in Proc, q # p PROVE ProcessInv(q)'
  BY <1>1, <1>5, OtherProcess DEF EventsInv, TypeOK
<1>6. ProcessInv(p)'
  <2>1. view'[p] = None /\ pc'[p] = "idle" /\ todo'[p] = <<>>
    BY <1>1 DEF EventsInv, TypeOK
  <2>2. Range(<<>>) = {}
    BY DEF Range
  <2>. QED  BY <2>1, <2>2 DEF ProcessInv, Placed, Offered, at_work, all_real
<1>. QED  BY <1>3, <1>4, <1>5, <1>6 DEF EventsInv

LEMMA CommitEvents ==
    ASSUME EventsAssumption, EventsInv, NEW p \in Proc, Commit(p)
    PROVE  EventsInv'
<1>1. /\ pc[p] = "seen" /\ todo[p] = <<>>
      /\ view' = [view EXCEPT ![p] = None] /\ pc' = [pc EXCEPT ![p] = "prune"]
      /\ UNCHANGED <<disk, seen, cache, ever_seen, job, todo, lost>>
  BY DEF Commit, goto, usage_db, env_vars
<1>2. \/ /\ writer = p /\ records' = view[p] /\ writer' = None
         /\ stale' = (stale \cup {q \in Proc : view[q] # None}) \ {p}
      \/ writer # p /\ stale' = stale \ {p} /\ UNCHANGED <<records, writer>>
  BY DEF Commit, commit
<1>3. ProcessInv(p) /\ at_work(p)
  BY <1>1 DEF EventsInv, at_work
<1>4. \A q \in Proc : q # p => view'[q] = view[q]
  BY <1>1 DEF EventsInv, TypeOK
<1>5. writer = p => view[p] \in Seq(Event) /\ Rows(view[p])
  <2>1. writer = p => view[p] # None
    BY DEF EventsInv, TypeOK, EventsAssumption
  <2>2. view[p] # None => view[p] \in Seq(Event)
    BY DEF EventsInv, TypeOK
  <2>3. view[p] # None => Rows(view[p])
    BY <1>3 DEF ProcessInv
  <2>. QED  BY <2>1, <2>2, <2>3
<1>6. TypeOK'
  <2>1. /\ view' \in [Proc -> {None} \cup Seq(Event)]
        /\ pc' \in [Proc -> {"idle", "seen", "check", "insert", "prune", "cache", "trim"}]
    BY <1>1 DEF EventsInv, TypeOK
  <2>2. records' \in Seq(Event) /\ writer' \in Proc \cup {None}
    BY <1>2, <1>5 DEF EventsInv, TypeOK
  <2>3. stale' \subseteq {q \in Proc : view'[q] # None}
    BY <1>2, <1>4 DEF EventsInv, TypeOK
  <2>4. writer' # None => view'[writer'] # None /\ writer' \notin stale'
    BY <1>2, <1>4 DEF EventsInv, TypeOK
  <2>. QED  BY <1>1, <2>1, <2>2, <2>3, <2>4 DEF EventsInv, TypeOK, Event
<1>7. TableInv'
  <2>1. Rows(records)'
    <3>1. Rows(records')
      BY <1>2, <1>5 DEF EventsInv, TableInv
    <3>2. disk' = disk
      BY <1>1
    <3>. QED  BY <3>1, <3>2 DEF all_real, Rows, unique, real, record_sig, source_key
  <2>. QED  BY <1>1, <2>1 DEF EventsInv, TableInv, CachedIsOffered, events_of, event_of
<1>8. ASSUME NEW q \in Proc, q # p PROVE ProcessInv(q)'
  BY <1>1, <1>8, OtherProcess DEF EventsInv, TypeOK
<1>9. ProcessInv(p)'
  <2>1. view'[p] = None /\ pc'[p] = "prune"
    BY <1>1 DEF EventsInv, TypeOK
  <2>2. Range(<<>>) = {}
    BY DEF Range
  <2>3. Placed(p)'
    BY <1>1, <1>3, <2>1 DEF ProcessInv, Placed, at_work
  <2>4. Offered(p)'
    BY <1>1, <1>3, <2>1, <2>2 DEF ProcessInv, Offered, at_work, events_of, event_of
  <2>5. all_real(todo[p])'
    BY <1>1, <2>2 DEF all_real
  <2>. QED  BY <2>1, <2>3, <2>4, <2>5 DEF ProcessInv
<1>. QED  BY <1>6, <1>7, <1>8, <1>9 DEF EventsInv

LEMMA PruneRecordsEvents ==
    ASSUME EventsAssumption, EventsInv, NEW p \in Proc, PruneRecords(p)
    PROVE  EventsInv'
<1>1. /\ pc[p] = "prune" /\ pc' = [pc EXCEPT ![p] = "cache"]
      /\ UNCHANGED <<disk, seen, cache, ever_seen, writer, job, todo, view, lost>>
      /\ writer \in {None, p}
  BY DEF PruneRecords, may_write, goto, usage_db, env_vars
<1>2. \/ /\ records' = newest(records, MaxRecords)
         /\ stale' = (stale \cup {q \in Proc : view[q] # None}) \ {p}
      \/ UNCHANGED <<records, stale>>
  BY DEF PruneRecords, commit
<1>3. ProcessInv(p) /\ ~at_work(p) /\ view[p] = None /\ todo[p] = <<>>
  BY <1>1 DEF EventsInv, at_work, ProcessInv, Placed
<1>4. records' \in Seq(Event) /\ Rows(records')
  <2>1. records \in Seq(Event) /\ Rows(records) /\ MaxRecords \in Nat
    BY DEF EventsInv, TableInv, TypeOK, EventsAssumption
  <2>2. newest(records, MaxRecords) \in Seq(Event) /\ Rows(newest(records, MaxRecords))
    BY <2>1, RowsNewest
  <2>. QED  BY <1>2, <2>1, <2>2
<1>5. TypeOK'
  <2>1. writer = None
    BY <1>1, <1>3 DEF EventsInv, TypeOK
  <2>2. stale' \subseteq {q \in Proc : view[q] # None}
    BY <1>2 DEF EventsInv, TypeOK
  <2>. QED  BY <1>1, <1>4, <2>1, <2>2 DEF EventsInv, TypeOK, Event
<1>6. TableInv'
  <2>1. Rows(records)'
    <3>1. disk' = disk
      BY <1>1
    <3>. QED  BY <1>4, <3>1 DEF all_real, Rows, unique, real, record_sig, source_key
  <2>. QED  BY <1>1, <2>1 DEF EventsInv, TableInv, CachedIsOffered, events_of, event_of
<1>7. ASSUME NEW q \in Proc, q # p PROVE ProcessInv(q)'
  BY <1>1, <1>7, OtherProcess DEF EventsInv, TypeOK
<1>8. ProcessInv(p)'
  <2>1. pc'[p] = "cache"
    BY <1>1 DEF EventsInv, TypeOK
  <2>2. Range(<<>>) = {}
    BY DEF Range
  <2>3. Placed(p)'
    BY <1>1, <1>3, <2>1 DEF ProcessInv, Placed, at_work
  <2>4. Offered(p)'
    BY <1>1, <1>3, <2>1 DEF ProcessInv, Offered, at_work, events_of, event_of
  <2>. QED  BY <1>1, <1>3, <2>2, <2>3, <2>4 DEF ProcessInv, all_real
<1>. QED  BY <1>5, <1>6, <1>7, <1>8 DEF EventsInv

LEMMA MarkSourceFileScannedEvents ==
    ASSUME EventsAssumption, EventsInv, NEW p \in Proc, MarkSourceFileScanned(p)
    PROVE  EventsInv'
<1>1. /\ pc[p] = "cache" /\ pc' = [pc EXCEPT ![p] = "trim"] /\ cache' = cache \cup {job[p]}
      /\ UNCHANGED <<disk, seen, ever_seen, records, stale, writer, job, todo, view, lost>>
  BY DEF MarkSourceFileScanned, scanned, goto, records_db, env_vars
<1>2. ProcessInv(p) /\ ~at_work(p) /\ view[p] = None /\ todo[p] = <<>>
  BY <1>1 DEF EventsInv, at_work, ProcessInv, Placed
<1>3. /\ job[p] \in File \X (1 .. MaxLines)
      /\ job[p][2] <= Len(disk[job[p][1]])
      /\ events_of(job[p][1], job[p][2]) \subseteq ever_seen
  BY <1>1, <1>2 DEF ProcessInv, Placed, Offered, EventsInv, TypeOK
<1>4. TypeOK'
  BY <1>1, <1>3 DEF EventsInv, TypeOK, Event
<1>5. TableInv'
  <2>1. CachedIsOffered'
    BY <1>1, <1>3 DEF EventsInv, TableInv, CachedIsOffered, events_of, event_of
  <2>. QED  BY <1>1, <2>1 DEF EventsInv, TableInv, all_real, Rows, unique, real, record_sig, source_key
<1>6. ASSUME NEW q \in Proc, q # p PROVE ProcessInv(q)'
  BY <1>1, <1>6, OtherProcess DEF EventsInv, TypeOK
<1>7. ProcessInv(p)'
  <2>1. pc'[p] = "trim"
    BY <1>1 DEF EventsInv, TypeOK
  <2>2. Range(<<>>) = {}
    BY DEF Range
  <2>. QED  BY <1>1, <1>2, <2>1, <2>2 DEF ProcessInv, Placed, Offered, at_work, all_real
<1>. QED  BY <1>4, <1>5, <1>6, <1>7 DEF EventsInv

LEMMA TrimSeenEvents ==
    ASSUME EventsAssumption, EventsInv, NEW p \in Proc, TrimSeen(p)
    PROVE  EventsInv'
<1>1. /\ pc[p] = "trim" /\ pc' = [pc EXCEPT ![p] = "idle"]
      /\ seen' = newest(seen, MaxSeen) /\ job' = [job EXCEPT ![p] = None]
      /\ UNCHANGED <<disk, cache, ever_seen, records, stale, writer, todo, view, lost>>
  BY DEF TrimSeen, goto, records_db, env_vars
<1>2. ProcessInv(p) /\ ~at_work(p) /\ view[p] = None /\ todo[p] = <<>>
  BY <1>1 DEF EventsInv, at_work, ProcessInv, Placed
<1>3. seen' \in Seq(Event) /\ Range(seen') \subseteq ever_seen
  BY <1>1, NewestOf DEF EventsInv, TypeOK, TableInv, EventsAssumption
<1>4. TypeOK'
  BY <1>1, <1>3 DEF EventsInv, TypeOK, Event
<1>5. TableInv'
  BY <1>1, <1>3 DEF EventsInv, TableInv, CachedIsOffered, events_of, event_of, all_real, Rows, unique,
     real, record_sig, source_key
<1>6. ASSUME NEW q \in Proc, q # p PROVE ProcessInv(q)'
  BY <1>1, <1>6, OtherProcess DEF EventsInv, TypeOK
<1>7. ProcessInv(p)'
  <2>1. pc'[p] = "idle"
    BY <1>1 DEF EventsInv, TypeOK
  <2>2. Range(<<>>) = {}
    BY DEF Range
  <2>. QED  BY <1>1, <1>2, <2>1, <2>2 DEF ProcessInv, Placed, Offered, at_work, all_real
<1>. QED  BY <1>4, <1>5, <1>6, <1>7 DEF EventsInv

LEMMA CaptureEvents ==
    ASSUME EventsAssumption, EventsInv, Capture
    PROVE  EventsInv'
<1>1. /\ writer = None /\ stale' = {q \in Proc : view[q] # None}
      /\ UNCHANGED <<disk, seen, cache, ever_seen, records, writer, pc, job, todo, view, lost>>
  BY DEF Capture, usage_db, proc_vars
<1>2. TypeOK'
  BY <1>1 DEF EventsInv, TypeOK, Event
<1>3. TableInv'
  BY <1>1, SameTables
<1>4. ASSUME NEW q \in Proc PROVE ProcessInv(q)'
  BY <1>1, OtherProcess
<1>. QED  BY <1>2, <1>3, <1>4 DEF EventsInv

\* A file grows: what was read of it stays true.
LEMMA GrowEvents ==
    ASSUME EventsAssumption, EventsInv, NEW f \in File, NEW s \in Stamped, Grow(f, s)
    PROVE  EventsInv'
<1>1. /\ Len(disk[f]) < MaxLines /\ disk' = [disk EXCEPT ![f] = Append(disk[f], s)]
      /\ UNCHANGED <<seen, cache, ever_seen, records, stale, writer, pc, job, todo, view, lost>>
  <2>1. disk' = [disk EXCEPT ![f] = Append(@, s)] /\ Len(disk[f]) < MaxLines
    BY DEF Grow
  <2>2. disk' = [disk EXCEPT ![f] = Append(disk[f], s)]
    BY <2>1 DEF EventsInv, TypeOK
  <2>. QED  BY <2>1, <2>2 DEF Grow, usage_db, records_db, proc_vars
<1>2. disk[f] \in Seq(BOOLEAN) /\ s \in BOOLEAN
  BY DEF EventsInv, TypeOK, EventsAssumption
<1>3. /\ Append(disk[f], s) \in Seq(BOOLEAN)
      /\ Len(disk[f]) \in Nat
      /\ Len(Append(disk[f], s)) = Len(disk[f]) + 1
      /\ \A l \in 1 .. Len(disk[f]) : Append(disk[f], s)[l] = disk[f][l]
  BY <1>2
<1>4. \A g \in File : /\ disk'[g] \in Seq(BOOLEAN)
                      /\ Len(disk[g]) \in Nat /\ Len(disk'[g]) \in Nat
                      /\ Len(disk[g]) <= Len(disk'[g]) /\ Len(disk'[g]) <= MaxLines
                      /\ \A l \in 1 .. Len(disk[g]) : disk'[g][l] = disk[g][l]
  <2>1. SUFFICES ASSUME NEW g \in File
                 PROVE  /\ disk'[g] \in Seq(BOOLEAN)
                        /\ Len(disk[g]) \in Nat /\ Len(disk'[g]) \in Nat
                        /\ Len(disk[g]) <= Len(disk'[g]) /\ Len(disk'[g]) <= MaxLines
                        /\ \A l \in 1 .. Len(disk[g]) : disk'[g][l] = disk[g][l]
    OBVIOUS
  <2>2. CASE g = f
    <3>1. disk'[g] = Append(disk[f], s)
      BY <1>1, <2>2 DEF EventsInv, TypeOK
    <3>2. Len(disk[f]) + 1 <= MaxLines
      BY <1>1, <1>3 DEF EventsAssumption
    <3>. QED  BY <1>3, <2>2, <3>1, <3>2
  <2>3. CASE g # f
    <3>1. disk'[g] = disk[g] /\ disk[g] \in Seq(BOOLEAN) /\ Len(disk[g]) <= MaxLines
      BY <1>1, <2>3 DEF EventsInv, TypeOK, TableInv
    <3>2. Len(disk[g]) \in Nat
      BY <3>1
    <3>. QED  BY <3>1, <3>2
  <2>. QED  BY <2>2, <2>3
<1>5. \A e \in Event : real(e) => real(e)'
  <2>1. SUFFICES ASSUME NEW e \in Event, real(e) PROVE real(e)'
    OBVIOUS
  <2>2. e.file \in File /\ e.line \in 1 .. MaxLines
    BY DEF Event
  <2>3. e.line \in 1 .. Len(disk[e.file])
    BY <1>4, <2>1, <2>2 DEF real, EventsAssumption
  <2>4. disk'[e.file][e.line] = disk[e.file][e.line]
    BY <1>4, <2>2, <2>3
  <2>5. e.line <= Len(disk'[e.file]) /\ Len(disk[e.file]) <= Len(disk'[e.file])
        /\ Len(disk[e.file]) \in Nat /\ Len(disk'[e.file]) \in Nat
    BY <1>4, <2>2, <2>3
  <2>6. Len(disk'[e.file]) <= MaxWindow => Len(disk[e.file]) <= MaxWindow
    BY <2>5 DEF EventsAssumption
  <2>. QED  BY <2>1, <2>4, <2>5, <2>6 DEF real
<1>6. \A g \in File, n \in 1 .. MaxLines : n <= Len(disk[g]) => events_of(g, n)' = events_of(g, n)
  <2>1. SUFFICES ASSUME NEW g \in File, NEW n \in 1 .. MaxLines, n <= Len(disk[g])
                 PROVE  events_of(g, n)' = events_of(g, n)
    OBVIOUS
  <2>2. window_start(n) \in 1 .. n
    BY DEF window_start, EventsAssumption
  <2>3. \A l \in window_start(n) .. n : disk'[g][l] = disk[g][l]
    <3>1. \A l \in window_start(n) .. n : l \in 1 .. Len(disk[g])
      BY <1>4, <2>1, <2>2 DEF EventsAssumption
    <3>. QED  BY <1>4, <3>1
  <2>4. \A l \in window_start(n) .. n : event_of(g, n, l)' = event_of(g, n, l)
    BY <2>3 DEF event_of, window_start
  <2>. QED  BY <2>4 DEF events_of, window_start
<1>7. \A q \in Seq(Event) : /\ all_real(q) => all_real(q)'
                            /\ Rows(q) => Rows(q)'
  <2>1. \A q \in Seq(Event) : Range(q) \subseteq Event
    BY RangeOfSeq
  <2>2. \A q \in Seq(Event) : all_real(q) => all_real(q)'
    BY <1>5, <2>1 DEF all_real
  <2>3. \A q \in Seq(Event) : unique(q) => unique(q)'
    BY DEF unique, record_sig, source_key
  <2>. QED  BY <2>2, <2>3 DEF Rows
<1>8. TypeOK'
  <2>1. disk' \in [File -> Seq(BOOLEAN)]
    BY <1>1, <1>3 DEF EventsInv, TypeOK
  <2>. QED  BY <1>1, <2>1 DEF EventsInv, TypeOK, Event
<1>9. TableInv'
  <2>1. CachedIsOffered'
    <3>1. SUFFICES ASSUME NEW c \in cache
                   PROVE  c[2] <= Len(disk'[c[1]]) /\ events_of(c[1], c[2])' \subseteq ever_seen
      BY <1>1 DEF CachedIsOffered
    <3>2. c[1] \in File /\ c[2] \in 1 .. MaxLines
      BY DEF EventsInv, TypeOK
    <3>3. c[2] <= Len(disk[c[1]]) /\ events_of(c[1], c[2]) \subseteq ever_seen
      BY DEF EventsInv, TableInv, CachedIsOffered
    <3>4. events_of(c[1], c[2])' = events_of(c[1], c[2])
      BY <1>6, <3>2, <3>3
    <3>5. c[2] <= Len(disk'[c[1]])
      BY <1>4, <3>2, <3>3 DEF EventsAssumption
    <3>. QED  BY <3>3, <3>4, <3>5
  <2>2. Rows(records)'
    <3>1. Rows(records) /\ records \in Seq(Event) /\ records' = records
      BY <1>1 DEF EventsInv, TableInv, TypeOK
    <3>2. PICK r \in Seq(Event) : r = records
      BY <3>1
    <3>3. Rows(r)' /\ records' = r
      BY <1>7, <3>1, <3>2
    <3>. QED  BY <3>3 DEF Rows, all_real, unique
  <2>. QED  BY <1>1, <1>4, <2>1, <2>2 DEF EventsInv, TableInv
<1>10. ASSUME NEW p \in Proc PROVE ProcessInv(p)'
  <2>1. ProcessInv(p) /\ todo[p] \in Seq(Event) /\ view[p] \in {None} \cup Seq(Event)
    BY DEF EventsInv, TypeOK
  <2>2. job[p] # None => job[p][1] \in File /\ job[p][2] \in 1 .. MaxLines
    BY DEF EventsInv, TypeOK
  <2>3. pc[p] # "idle" => job[p] # None /\ job[p][2] <= Len(disk[job[p][1]])
    BY <2>1 DEF ProcessInv, Placed
  <2>4. ASSUME pc[p] # "idle" PROVE job[p][2] <= Len(disk'[job[p][1]])
    <3>1. PICK g \in File, n \in 1 .. MaxLines : g = job[p][1] /\ n = job[p][2]
      BY <2>2, <2>3, <2>4
    <3>2. n <= Len(disk[g])
      BY <2>3, <2>4, <3>1
    <3>3. n <= Len(disk'[g])
      BY <1>4, <3>2 DEF EventsAssumption
    <3>. QED  BY <3>1, <3>3
  <2>5. pc[p] # "idle" => events_of(job[p][1], job[p][2])' = events_of(job[p][1], job[p][2])
    <3>1. PICK g, n : g = job[p][1] /\ n = job[p][2]
      OBVIOUS
    <3>2. pc[p] # "idle" => events_of(g, n)' = events_of(g, n)
      BY <1>6, <2>2, <2>3, <3>1
    <3>3. job' = job
      BY <1>1
    <3>. QED  BY <3>1, <3>2, <3>3 DEF events_of, event_of
  <2>6. Placed(p)'
    BY <1>1, <2>1, <2>4 DEF ProcessInv, Placed, at_work, sigs, record_sig, source_key
  <2>7. Offered(p)'
    BY <1>1, <2>1, <2>5 DEF ProcessInv, Offered, at_work
  <2>8. all_real(todo[p])'
    <3>1. PICK r \in Seq(Event) : r = todo[p]
      BY <2>1
    <3>2. all_real(r)' /\ todo'[p] = r
      BY <1>1, <1>7, <2>1, <3>1 DEF ProcessInv
    <3>. QED  BY <3>2 DEF all_real
  <2>9. (view[p] # None => Rows(view[p]))'
    <3>1. SUFFICES ASSUME view'[p] # None PROVE Rows(view[p])'
      OBVIOUS
    <3>2. PICK r \in Seq(Event) : r = view[p]
      BY <1>1, <2>1, <3>1
    <3>3. Rows(r)' /\ view'[p] = r
      BY <1>1, <1>7, <2>1, <3>1, <3>2 DEF ProcessInv
    <3>. QED  BY <3>3 DEF Rows, all_real, unique
  <2>. QED  BY <2>6, <2>7, <2>8, <2>9 DEF ProcessInv
<1>. QED  BY <1>8, <1>9, <1>10 DEF EventsInv

LEMMA EventsInit == EventsAssumption /\ Init => EventsInv
<1>. SUFFICES ASSUME EventsAssumption, Init PROVE EventsInv
  OBVIOUS
<1>1. Range(<<>>) = {} /\ Len(<<>>) = 0 /\ \A S : <<>> \in Seq(S)
  BY DEF Range
<1>2. TypeOK
  BY <1>1 DEF Init, TypeOK
<1>3. TableInv
  BY <1>1 DEF Init, TableInv, CachedIsOffered, Rows, all_real, unique, EventsAssumption
<1>4. ASSUME NEW p \in Proc PROVE ProcessInv(p)
  BY <1>1 DEF Init, ProcessInv, Placed, Offered, at_work, all_real
<1>. QED  BY <1>2, <1>3, <1>4 DEF EventsInv

LEMMA EventsStep ==
    ASSUME EventsAssumption, EventsInv, [Next]_vars
    PROVE  EventsInv'
<1>1. CASE UNCHANGED vars
  <2>1. UNCHANGED <<disk, seen, cache, ever_seen, records, writer, stale, pc, job, todo, view, lost>>
    BY <1>1 DEF vars, usage_db, records_db, proc_vars, env_vars
  <2>2. TypeOK'
    BY <2>1 DEF EventsInv, TypeOK, Event
  <2>3. TableInv'
    BY <2>1, SameTables
  <2>4. ASSUME NEW q \in Proc PROVE ProcessInv(q)'
    BY <2>1, OtherProcess
  <2>. QED  BY <2>2, <2>3, <2>4 DEF EventsInv
<1>2. ASSUME NEW p \in Proc, Scan(p) PROVE EventsInv'
  <2>1. ASSUME Busy(p) PROVE EventsInv'
    BY <2>1, EndScanEvents DEF Busy, env_vars
  <2>. QED
    BY <1>2, <2>1, ScanFileEvents, MarkSeenEvents, CheckRecordEvents, InsertRecordEvents, CommitEvents,
       PruneRecordsEvents, MarkSourceFileScannedEvents, TrimSeenEvents DEF Scan
<1>3. ASSUME NEW p \in Proc, Crash(p) PROVE EventsInv'
  BY <1>3, EndScanEvents DEF Crash
<1>4. CASE Next
  BY <1>2, <1>3, <1>4, CaptureEvents, GrowEvents DEF Next
<1>. QED  BY <1>1, <1>4

-----------------------------------------------------------------------------
(* What EventsInv says of the tables.                                      *)

\* A cached file has had each of its events offered.
LEMMA CachedSeen ==
    ASSUME EventsAssumption, EventsInv
    PROVE  CachedIsSeen
<1>1. SUFFICES ASSUME NEW f \in File, is_cached(f), NEW k \in DOMAIN events(f)
               PROVE  events(f)[k] \in ever_seen
  BY DEF CachedIsSeen, source_key
<1> DEFINE n == Len(disk[f])
<1>2. <<f, n>> \in cache
  BY <1>1 DEF is_cached
<1>3. n \in 1 .. MaxLines
  BY <1>2 DEF EventsInv, TypeOK
<1>4. events_of(f, n) \subseteq ever_seen
  BY <1>2 DEF EventsInv, TableInv, CachedIsOffered
<1>5. Range(events(f)) = events_of(f, n)
  BY <1>3, WindowIs DEF EventsInv, TypeOK
<1>. QED  BY <1>4, <1>5 DEF Range

\* A line with a time stamp has one row.
LEMMA StampedOnce ==
    ASSUME EventsAssumption, EventsInv
    PROVE  StampedEventIsRecordedOnce
<1>1. SUFFICES ASSUME NEW i \in DOMAIN records, NEW j \in DOMAIN records,
                      records[i].file = records[j].file, records[i].line = records[j].line,
                      disk[records[i].file][records[i].line],
                      InRepo \/ Len(disk[records[i].file]) <= MaxWindow
               PROVE  i = j
  BY DEF StampedEventIsRecordedOnce
<1>2. records[i] \in Event /\ records[j] \in Event
  BY DEF EventsInv, TypeOK
<1>3. real(records[i]) /\ real(records[j])
  BY DEF EventsInv, TableInv, Rows, all_real, Range
<1>4. record_sig(records[i]) = record_sig(records[j])
  BY <1>1, <1>2, <1>3, StampedSig
<1>. QED  BY <1>4 DEF EventsInv, TableInv, Rows, unique

-----------------------------------------------------------------------------
(* Theorems.                                                               *)

\* EventsInv always holds.
THEOREM EventsInvariant == ASSUME EventsAssumption PROVE Spec => []EventsInv
<1>1. Init => EventsInv
  BY EventsInit
<1>2. EventsInv /\ [Next]_vars => EventsInv'
  BY EventsStep
<1>. QED  BY <1>1, <1>2, PTL DEF Spec

\* Tables, transactions and processes keep their types.
THEOREM EventsTypeCorrect == ASSUME EventsAssumption PROVE Spec => []TypeOK
<1>1. EventsInv => TypeOK
  BY DEF EventsInv
<1>. QED  BY <1>1, EventsInvariant, PTL

\* A file that no scan opens again has had each of its events offered to records.db,
\* the lines written while it was being scanned included.
THEOREM CachedFilesAreSeen == ASSUME EventsAssumption PROVE Spec => []CachedIsSeen
<1>1. EventsInv => CachedIsSeen
  BY CachedSeen
<1>. QED  BY <1>1, EventsInvariant, PTL

\* However many processes scan a file together, crash, and forget its keys, a line with
\* a time stamp has one row, while its file fits the window or names a repository.
THEOREM StampedEventsRecordedOnce ==
    ASSUME EventsAssumption PROVE Spec => []StampedEventIsRecordedOnce
<1>1. EventsInv => StampedEventIsRecordedOnce
  BY StampedOnce
<1>. QED  BY <1>1, EventsInvariant, PTL

-----------------------------------------------------------------------------
(* Keys and rows: what is accounted for while no cap cuts rows.            *)

\* The events in hand are those of one file, line by line.
Ordered(p) ==
    /\ \A i \in DOMAIN todo[p] : todo[p][i].file = job[p][1]
    /\ \A i, j \in DOMAIN todo[p] : i < j => todo[p][i].line < todo[p][j].line

\* A line of the process's file that it is past.
passed(p, e) == e.file = job[p][1] /\ \A i \in DOMAIN todo[p] : e.line < todo[p][i].line

\* What a transaction sees: before its first INSERT the table as it is, or, once it is
\* stale, was; then the table and rows of its own, of the lines it is past.
SnapshotOK(p) ==
    /\ view[p] # None /\ writer # p => sigs(view[p]) \subseteq sigs(records)
    /\ view[p] # None /\ writer # p /\ p \notin stale => view[p] = records
    /\ writer = p => sigs(records) \subseteq sigs(view[p])
    /\ writer = p => \A i \in DOMAIN view[p] : \/ record_sig(view[p][i]) \in sigs(records)
                                               \/ passed(p, view[p][i])

AccountInv ==
    /\ \A p \in Proc : Ordered(p) /\ SnapshotOK(p)
    /\ SeenIsAccountedFor

\* What a step leaves of a process's part.
LEMMA SameProcess ==
    ASSUME NEW q \in Proc, Ordered(q), SnapshotOK(q),
           todo'[q] = todo[q], job'[q] = job[q], view'[q] = view[q],
           writer' = q <=> writer = q, records' = records,
           q \in stale => q \in stale' \/ view[q] = None
    PROVE  Ordered(q)' /\ SnapshotOK(q)'
<1>1. Ordered(q)'
  BY DEF Ordered
<1>2. SnapshotOK(q)'
  BY DEF SnapshotOK, passed, sigs, record_sig, source_key
<1>. QED  BY <1>1, <1>2

\* What a step leaves of what a process may lose.
LEMMA SameAtRisk ==
    ASSUME NEW q \in Proc, pc'[q] = pc[q], todo'[q] = todo[q], view'[q] = view[q],
           writer' = q <=> writer = q, writer = q => records' = records
    PROVE  at_risk(q)' = at_risk(q)
<1>1. CASE writer = q
  BY <1>1 DEF at_risk, source_key
<1>2. CASE writer # q
  BY <1>2 DEF at_risk, source_key
<1>. QED  BY <1>1, <1>2

\* When all keys stay accounted for.
LEMMA StillAccountedFor ==
    ASSUME SeenIsAccountedFor, lost \subseteq lost', sigs(records) \subseteq sigs(records)',
           \A k \in ever_seen' \ ever_seen : \E q \in Proc : k \in at_risk(q)',
           \A q \in Proc : \A k \in at_risk(q) :
               \/ k \in lost'
               \/ record_sig(k) \in sigs(records)'
               \/ \E r \in Proc : k \in at_risk(r)'
    PROVE  SeenIsAccountedFor'
<1>1. SUFFICES ASSUME NEW k \in ever_seen' \ lost'
               PROVE  record_sig(k) \in sigs(records)' \/ \E q \in Proc : k \in at_risk(q)'
  BY DEF SeenIsAccountedFor
<1>2. CASE k \in ever_seen
  <2>1. record_sig(k) \in sigs(records) \/ \E q \in Proc : k \in at_risk(q)
    BY <1>1, <1>2 DEF SeenIsAccountedFor
  <2>. QED  BY <1>1, <2>1
<1>3. CASE k \notin ever_seen
  BY <1>1, <1>3
<1>. QED  BY <1>2, <1>3

LEMMA ScanFileAccount ==
    ASSUME EventsAssumption, EventsInv, AccountInv, NEW p \in Proc, NEW f \in File, ScanFile(p, f)
    PROVE  AccountInv'
<1>1. /\ pc[p] = "idle" /\ disk[f] # <<>>
      /\ job' = [job EXCEPT ![p] = <<f, Len(disk[f])>>]
      /\ todo' = [todo EXCEPT ![p] = events(f)]
      /\ pc' = [pc EXCEPT ![p] = "seen"]
      /\ UNCHANGED <<ever_seen, records, writer, stale, view, lost>>
  BY DEF ScanFile, goto, usage_db, records_db
<1>2. view[p] = None /\ writer # p
  <2>1. view[p] = None
    BY <1>1 DEF EventsInv, ProcessInv, Placed, at_work
  <2>2. writer = p => view[p] # None
    BY DEF EventsInv, TypeOK, EventsAssumption
  <2>. QED  BY <2>1, <2>2
<1>3. \A q \in Proc : q # p => pc'[q] = pc[q] /\ todo'[q] = todo[q] /\ job'[q] = job[q]
  BY <1>1 DEF EventsInv, TypeOK
<1>4. ASSUME NEW q \in Proc, q # p PROVE Ordered(q)' /\ SnapshotOK(q)'
  BY <1>1, <1>3, <1>4, SameProcess DEF AccountInv
<1>5. SnapshotOK(p)'
  BY <1>1, <1>2 DEF SnapshotOK
<1>6. Ordered(p)'
  <2>1. job'[p] = <<f, Len(disk[f])>> /\ todo'[p] = events(f)
    BY <1>1 DEF EventsInv, TypeOK
  <2>2. /\ Len(disk[f]) \in 1 .. MaxLines /\ events(f) \in Seq(Event)
        /\ \A i \in DOMAIN events(f) : /\ events(f)[i].file = f
                                       /\ events(f)[i].line = window_start(Len(disk[f])) + i - 1
    BY <1>1, WindowIs
  <2>3. window_start(Len(disk[f])) \in Int
    BY <2>2 DEF window_start, EventsAssumption
  <2>4. DOMAIN events(f) = 1 .. Len(events(f)) /\ Len(events(f)) \in Nat
    BY <2>2
  <2>5. \A i, j \in DOMAIN events(f) : i < j => events(f)[i].line < events(f)[j].line
    BY <2>2, <2>3, <2>4
  <2>. QED  BY <2>1, <2>2, <2>5 DEF Ordered
<1>7. SeenIsAccountedFor'
  <2>1. \A q \in Proc : q # p => at_risk(q)' = at_risk(q)
    BY <1>1, <1>3, SameAtRisk
  <2>2. at_risk(p) = {}
    BY <1>1, <1>2 DEF at_risk
  <2>3. sigs(records)' = sigs(records)
    BY <1>1 DEF sigs, record_sig, source_key
  <2>. QED  BY <1>1, <2>1, <2>2, <2>3, StillAccountedFor DEF AccountInv
<1>. QED  BY <1>4, <1>5, <1>6, <1>7 DEF AccountInv

\* Going on to the next event.
LEMMA NextEventOrdered ==
    ASSUME NEW p \in Proc, EventsInv, Ordered(p), todo[p] # <<>>,
           todo'[p] = Tail(todo[p]), job'[p] = job[p]
    PROVE  /\ Ordered(p)'
           /\ \A e : e = Head(todo[p]) \/ passed(p, e) => passed(p, e)'
<1> DEFINE t == Tail(todo[p])
           n == Len(todo[p])
<1>1. /\ todo[p] \in Seq(Event) /\ n \in Nat \ {0} /\ DOMAIN todo[p] = 1 .. n
      /\ t \in Seq(Event) /\ DOMAIN t = 1 .. n - 1 /\ Head(todo[p]) = todo[p][1]
      /\ \A i \in 1 .. n - 1 : t[i] = todo[p][i + 1]
  BY HeadAndTail DEF EventsInv, TypeOK
<1>2. todo'[p] = t
  OBVIOUS
<1> HIDE DEF t, n
<1>3. \A i \in 1 .. n - 1 : i + 1 \in 1 .. n /\ 1 < i + 1
  BY <1>1
<1>4. \A i, j \in 1 .. n - 1 : i < j => i + 1 < j + 1
  BY <1>1
<1>5. Ordered(p)'
  <2>1. \A i \in 1 .. n - 1 : t[i].file = job[p][1]
    BY <1>1, <1>3 DEF Ordered
  <2>2. ASSUME NEW i \in 1 .. n - 1, NEW j \in 1 .. n - 1, i < j PROVE t[i].line < t[j].line
    BY <1>1, <1>3, <1>4, <2>2 DEF Ordered
  <2>. QED  BY <1>1, <1>2, <2>1, <2>2 DEF Ordered
<1>6. ASSUME NEW e, e = Head(todo[p]) PROVE passed(p, e)'
  <2>1. 1 \in 1 .. n
    BY <1>1
  <2>2. todo[p][1].file = job[p][1] /\ \A i \in 1 .. n - 1 : todo[p][1].line < t[i].line
    BY <1>1, <1>3, <2>1 DEF Ordered
  <2>. QED  BY <1>1, <1>2, <1>6, <2>2 DEF passed
<1>7. ASSUME NEW e, passed(p, e) PROVE passed(p, e)'
  BY <1>1, <1>2, <1>3, <1>7 DEF passed
<1>. QED  BY <1>5, <1>6, <1>7

LEMMA MarkSeenAccount ==
    ASSUME EventsAssumption, EventsInv, AccountInv, NEW p \in Proc, MarkSeen(p)
    PROVE  AccountInv'
<1> DEFINE h == Head(todo[p])
<1>1. /\ pc[p] = "seen" /\ todo[p] # <<>>
      /\ UNCHANGED <<records, writer, stale, job, view, lost>>
  BY DEF MarkSeen, records_db
<1>2. \/ /\ todo' = [todo EXCEPT ![p] = Tail(todo[p])] /\ UNCHANGED <<ever_seen, pc>>
      \/ /\ ever_seen' = ever_seen \cup {h} /\ pc' = [pc EXCEPT ![p] = "check"] /\ todo' = todo
  BY DEF MarkSeen, next_event, usage_db, source_key, goto
<1>3. \A q \in Proc : q # p => pc'[q] = pc[q] /\ todo'[q] = todo[q]
  BY <1>2 DEF EventsInv, TypeOK
<1>4. ASSUME NEW q \in Proc, q # p PROVE Ordered(q)' /\ SnapshotOK(q)'
  BY <1>1, <1>3, <1>4, SameProcess DEF AccountInv
<1>5. sigs(records)' = sigs(records)
  BY <1>1 DEF sigs, record_sig, source_key
<1>6. \A q \in Proc : q # p => at_risk(q)' = at_risk(q)
  BY <1>1, <1>3, SameAtRisk
<1>7. CASE todo' = [todo EXCEPT ![p] = Tail(todo[p])] /\ UNCHANGED <<ever_seen, pc>>
  <2>1. todo'[p] = Tail(todo[p])
    BY <1>7 DEF EventsInv, TypeOK
  <2>2. Ordered(p)' /\ \A e : passed(p, e) => passed(p, e)'
    BY <1>1, <2>1, NextEventOrdered DEF AccountInv
  <2>3. SnapshotOK(p)'
    <3>1. SnapshotOK(p)
      BY DEF AccountInv
    <3>. QED  BY <1>1, <2>2, <3>1 DEF SnapshotOK, sigs, record_sig, source_key
  <2>4. at_risk(p)' = at_risk(p)
    BY <1>1, <1>7 DEF at_risk, source_key
  <2>5. SeenIsAccountedFor'
    BY <1>1, <1>5, <1>6, <1>7, <2>4, StillAccountedFor DEF AccountInv
  <2>. QED  BY <1>4, <2>2, <2>3, <2>5 DEF AccountInv
<1>8. CASE ever_seen' = ever_seen \cup {h} /\ pc' = [pc EXCEPT ![p] = "check"] /\ todo' = todo
  <2>1. Ordered(p)' /\ SnapshotOK(p)'
    BY <1>1, <1>8, SameProcess DEF AccountInv
  <2>2. pc'[p] = "check" /\ todo'[p] = todo[p]
    BY <1>8 DEF EventsInv, TypeOK
  <2>3. h \in at_risk(p)'
    BY <2>2 DEF at_risk, source_key
  <2>4. at_risk(p) \subseteq at_risk(p)'
    BY <1>1, <2>2 DEF at_risk, source_key
  <2>5. \A k \in ever_seen' \ ever_seen : k = h
    BY <1>8
  <2> HIDE DEF h
  <2>6. SeenIsAccountedFor'
    BY <1>1, <1>5, <1>6, <2>3, <2>4, <2>5, StillAccountedFor DEF AccountInv
  <2>. QED  BY <1>4, <2>1, <2>6 DEF AccountInv
<1>. QED  BY <1>2, <1>7, <1>8

LEMMA CheckRecordAccount ==
    ASSUME EventsAssumption, EventsInv, AccountInv, NEW p \in Proc, CheckRecord(p)
    PROVE  AccountInv'
<1> DEFINE h == Head(todo[p])
           rows == IF view[p] = None THEN records ELSE view[p]
<1>1. /\ pc[p] = "check" /\ view' = [view EXCEPT ![p] = rows]
      /\ UNCHANGED <<ever_seen, records, writer, stale, job, lost>>
  BY DEF CheckRecord, usage_db, records_db
<1>2. todo[p] # <<>>
  BY <1>1 DEF EventsInv, ProcessInv, Placed
<1>3. \/ known_record(rows, h) /\ todo' = [todo EXCEPT ![p] = Tail(todo[p])]
         /\ pc' = [pc EXCEPT ![p] = "seen"]
      \/ todo' = todo /\ pc' = [pc EXCEPT ![p] = "insert"]
  BY DEF CheckRecord, next_event, goto
<1>4. h \in Event /\ rows # None
  <2>1. todo[p] \in Seq(Event) /\ records \in Seq(Event)
    BY DEF EventsInv, TypeOK
  <2>. QED  BY <1>2, <2>1, HeadAndTail DEF EventsAssumption
<1>5. writer = p => view[p] # None
  BY DEF EventsInv, TypeOK, EventsAssumption
<1>6. SnapshotOK(p) /\ Ordered(p)
  BY DEF AccountInv
<1>7. known_record(rows, h) => record_sig(h) \in sigs(records)
  <2>1. SUFFICES ASSUME record_sig(h) \in sigs(rows) PROVE record_sig(h) \in sigs(records)
    BY DEF known_record
  <2>2. CASE writer = p
    <3>1. PICK i \in DOMAIN view[p] : record_sig(h) = record_sig(view[p][i])
      BY <1>5, <2>1, <2>2 DEF sigs
    <3>2. ~passed(p, view[p][i])
      <4>1. view[p][i].line = h.line
        BY <3>1, SigFields
      <4>2. 1 \in DOMAIN todo[p] /\ h = todo[p][1]
        <5>1. todo[p] \in Seq(Event)
          BY DEF EventsInv, TypeOK
        <5>. QED  BY <1>2, <5>1
      <4>3. h.line \in Int
        BY <1>4 DEF Event
      <4>. QED  BY <4>1, <4>2, <4>3 DEF passed
    <3>. QED  BY <1>6, <2>2, <3>1, <3>2 DEF SnapshotOK
  <2>3. CASE writer # p
    BY <1>6, <2>1, <2>3 DEF SnapshotOK
  <2>. QED  BY <2>2, <2>3
<1>8. view'[p] = rows /\ \A q \in Proc : q # p => /\ pc'[q] = pc[q] /\ todo'[q] = todo[q]
                                                  /\ view'[q] = view[q]
  BY <1>1, <1>3 DEF EventsInv, TypeOK
<1> HIDE DEF h
<1>9. ASSUME NEW q \in Proc, q # p PROVE Ordered(q)' /\ SnapshotOK(q)'
  BY <1>1, <1>8, <1>9, SameProcess DEF AccountInv
<1>10. Ordered(p)' /\ \A e : passed(p, e) => passed(p, e)'
  <2>1. CASE todo'[p] = Tail(todo[p])
    BY <1>1, <1>2, <1>6, <2>1, NextEventOrdered
  <2>2. CASE todo'[p] = todo[p]
    BY <1>1, <1>6, <2>2 DEF Ordered, passed
  <2>3. todo'[p] = Tail(todo[p]) \/ todo'[p] = todo[p]
    BY <1>3 DEF EventsInv, TypeOK
  <2>. QED  BY <2>1, <2>2, <2>3
<1>11. sigs(records)' = sigs(records) /\ sigs(view[p])' = sigs(rows)
  BY <1>1, <1>8 DEF sigs, record_sig, source_key
<1>12. SnapshotOK(p)'
  <2>1. CASE view[p] = None
    <3>1. writer' # p /\ rows = records
      BY <1>1, <1>5, <2>1
    <3>. QED  BY <1>1, <1>8, <1>11, <3>1 DEF SnapshotOK
  <2>2. CASE view[p] # None
    <3>1. rows = view[p]
      BY <2>2
    <3>. QED  BY <1>1, <1>6, <1>8, <1>10, <1>11, <3>1 DEF SnapshotOK
  <2>. QED  BY <2>1, <2>2
<1>13. SeenIsAccountedFor'
  <2>1. \A q \in Proc : q # p => at_risk(q)' = at_risk(q)
    BY <1>1, <1>8, SameAtRisk
  <2>2. ASSUME NEW k \in at_risk(p)
        PROVE  record_sig(k) \in sigs(records) \/ k \in at_risk(p)'
    <3>1. CASE k = h
      <4>1. CASE known_record(rows, h)
        BY <1>7, <3>1, <4>1
      <4>2. CASE ~known_record(rows, h)
        <5>1. pc'[p] = "insert" /\ todo'[p] = todo[p]
          BY <1>3, <4>2 DEF EventsInv, TypeOK
        <5>. QED  BY <3>1, <5>1 DEF at_risk, source_key, h
      <4>. QED  BY <4>1, <4>2
    <3>2. CASE k # h
      <4>1. /\ writer = p /\ \E i \in DOMAIN view[p] : k = view[p][i]
            /\ k \notin {source_key(records[i]) : i \in DOMAIN records}
        BY <2>2, <3>2 DEF at_risk, source_key, h
      <4>2. rows = view[p]
        BY <1>5, <4>1
      <4>. QED  BY <1>1, <1>8, <4>1, <4>2 DEF at_risk, source_key
    <3>. QED  BY <3>1, <3>2
  <2>3. ASSUME NEW q \in Proc, NEW k \in at_risk(q)
        PROVE  record_sig(k) \in sigs(records)' \/ \E r \in Proc : k \in at_risk(r)'
    BY <1>11, <2>1, <2>2, <2>3
  <2>4. ever_seen' = ever_seen /\ lost' = lost /\ SeenIsAccountedFor
    BY <1>1 DEF AccountInv
  <2>. QED  BY <1>11, <2>3, <2>4, StillAccountedFor
<1>. QED  BY <1>9, <1>10, <1>12, <1>13 DEF AccountInv

LEMMA InsertRecordAccount ==
    ASSUME EventsAssumption, EventsInv, AccountInv, NEW p \in Proc, InsertRecord(p)
    PROVE  AccountInv'
<1> DEFINE h == Head(todo[p])
           old == view[p]
           rows == Append(view[p], h)
<1>1. /\ pc[p] = "insert" /\ p \notin stale /\ writer \in {None, p} /\ writer' = p
      /\ todo' = [todo EXCEPT ![p] = Tail(todo[p])] /\ pc' = [pc EXCEPT ![p] = "seen"]
      /\ UNCHANGED <<ever_seen, records, stale, job, lost>>
  BY DEF InsertRecord, may_write, next_event, goto, usage_db
<1>2. todo[p] # <<>> /\ old # None
  BY <1>1 DEF EventsInv, ProcessInv, Placed
<1>3. h \in Event /\ old \in Seq(Event)
  <2>1. todo[p] \in Seq(Event) /\ old \in Seq(Event)
    BY <1>2 DEF EventsInv, TypeOK
  <2>. QED  BY <1>2, <2>1, HeadAndTail
<1>4. /\ rows \in Seq(Event) /\ Len(old) \in Nat
      /\ DOMAIN old = 1 .. Len(old) /\ DOMAIN rows = 1 .. Len(old) + 1
      /\ \A i \in 1 .. Len(old) : rows[i] = old[i]
      /\ rows[Len(old) + 1] = h
  BY <1>3, Appended
<1>5. view'[p] = rows /\ \A q \in Proc : q # p => view'[q] = view[q]
  BY DEF InsertRecord, EventsInv, TypeOK
<1>6. /\ pc'[p] = "seen" /\ todo'[p] = Tail(todo[p])
      /\ \A q \in Proc : q # p => pc'[q] = pc[q] /\ todo'[q] = todo[q]
  BY <1>1 DEF EventsInv, TypeOK
<1>7. Ordered(p) /\ SnapshotOK(p)
  BY DEF AccountInv
<1>8. Ordered(p)' /\ \A e : e = Head(todo[p]) \/ passed(p, e) => passed(p, e)'
  BY <1>1, <1>2, <1>6, <1>7, NextEventOrdered
<1>9. sigs(records)' = sigs(records)
  BY <1>1 DEF sigs, record_sig, source_key
<1>10. sigs(records) \subseteq sigs(old)
  <2>1. CASE writer = p
    BY <1>7, <2>1 DEF SnapshotOK
  <2>2. CASE writer # p
    BY <1>1, <1>2, <1>7, <2>2 DEF SnapshotOK
  <2>. QED  BY <2>1, <2>2
<1>11. \A i \in DOMAIN old : record_sig(old[i]) \in sigs(records) \/ passed(p, old[i])
  <2>1. CASE writer = p
    BY <1>7, <2>1 DEF SnapshotOK
  <2>2. CASE writer # p
    <3>1. old = records
      BY <1>1, <1>2, <1>7, <2>2 DEF SnapshotOK
    <3>. QED  BY <3>1 DEF sigs
  <2>. QED  BY <2>1, <2>2
<1>12. h = Head(todo[p])
  OBVIOUS
<1> HIDE DEF h, rows, old
<1>13. \A i \in 1 .. Len(old) + 1 : i \in 1 .. Len(old) \/ i = Len(old) + 1
  BY <1>4
<1>14. sigs(old) \subseteq sigs(rows)
  <2>1. \A i \in 1 .. Len(old) : i \in 1 .. Len(old) + 1
    BY <1>4
  <2>. QED  BY <1>4, <2>1 DEF sigs
<1>15. \A e : e = h \/ passed(p, e) => passed(p, e)'
  BY <1>8, <1>12
<1>16. SnapshotOK(p)'
  <2>1. sigs(view[p])' = sigs(rows)
    BY <1>5 DEF sigs, record_sig, source_key
  <2> PICK r : r = rows
    OBVIOUS
  <2>2. ASSUME NEW i \in DOMAIN r
        PROVE  record_sig(r[i]) \in sigs(records) \/ passed(p, r[i])'
    <3>1. CASE i \in 1 .. Len(old)
      <4>1. r[i] = old[i] /\ (record_sig(old[i]) \in sigs(records) \/ passed(p, old[i]))
        BY <1>4, <1>11, <3>1
      <4>2. record_sig(r[i]) \in sigs(records) \/ passed(p, r[i])
        BY <4>1
      <4>. QED  BY <1>15, <4>2
    <3>2. CASE i = Len(old) + 1
      <4>1. r[i] = h
        BY <1>4, <3>2
      <4>. QED  BY <1>15, <4>1
    <3>. QED  BY <1>4, <1>13, <3>1, <3>2
  <2>3. view'[p] = r /\ sigs(records) \subseteq sigs(r) /\ writer' = p
    BY <1>1, <1>5, <1>10, <1>14
  <2>4. sigs(view[p])' = sigs(r)
    BY <2>1
  <2>. QED  BY <1>9, <2>2, <2>3, <2>4 DEF SnapshotOK, record_sig, source_key
<1>17. ASSUME NEW q \in Proc, q # p PROVE Ordered(q)' /\ SnapshotOK(q)'
  <2>1. writer # q /\ writer' # q
    <3>1. q # None
      BY DEF EventsAssumption
    <3>. QED  BY <1>1, <1>17, <3>1
  <2>. QED  BY <1>1, <1>5, <1>6, <1>17, <2>1, SameProcess DEF AccountInv
<1>18. SeenIsAccountedFor'
  <2>1. ASSUME NEW q \in Proc, q # p PROVE at_risk(q)' = at_risk(q)
    <3>1. q # None
      BY DEF EventsAssumption
    <3>2. writer # q /\ writer' # q
      BY <1>1, <2>1, <3>1
    <3>. QED  BY <1>5, <1>6, <2>1, <3>2, SameAtRisk
  <2>2. at_risk(p)' = {rows[i] : i \in DOMAIN rows} \ {records[i] : i \in DOMAIN records}
    BY <1>1, <1>5, <1>6 DEF at_risk, source_key
  <2>3. ASSUME NEW k \in at_risk(p)
        PROVE  record_sig(k) \in sigs(records) \/ k \in at_risk(p)'
    <3>1. k = h \/ \E i \in DOMAIN old : k = old[i]
      BY <2>3 DEF at_risk, source_key, h, old
    <3>2. \E i \in DOMAIN rows : k = rows[i]
      <4>1. Len(old) + 1 \in 1 .. Len(old) + 1 /\ \A i \in 1 .. Len(old) : i \in 1 .. Len(old) + 1
        BY <1>4
      <4>. QED  BY <1>4, <3>1, <4>1
    <3>3. CASE \E i \in DOMAIN records : k = records[i]
      BY <3>3 DEF sigs
    <3>4. CASE ~\E i \in DOMAIN records : k = records[i]
      BY <2>2, <3>2, <3>4
    <3>. QED  BY <3>3, <3>4
  <2>4. ASSUME NEW q \in Proc, NEW k \in at_risk(q)
        PROVE  record_sig(k) \in sigs(records)' \/ \E r \in Proc : k \in at_risk(r)'
    BY <1>9, <2>1, <2>3, <2>4
  <2>5. ever_seen' = ever_seen /\ lost' = lost /\ SeenIsAccountedFor
    BY <1>1 DEF AccountInv
  <2>. QED  BY <1>9, <2>4, <2>5, StillAccountedFor
<1>. QED  BY <1>8, <1>16, <1>17, <1>18 DEF AccountInv

LEMMA EndScanAccount ==
    ASSUME EventsAssumption, EventsInv, AccountInv, NEW p \in Proc, end_scan(p),
           UNCHANGED <<ever_seen, records>>
    PROVE  AccountInv'
<1>1. /\ writer' = (IF writer = p THEN None ELSE writer) /\ stale' = stale \ {p}
      /\ view' = [view EXCEPT ![p] = None] /\ todo' = [todo EXCEPT ![p] = <<>>]
      /\ job' = [job EXCEPT ![p] = None] /\ pc' = [pc EXCEPT ![p] = "idle"]
      /\ lost' = lost \cup at_risk(p)
  BY DEF end_scan, goto
<1>2. \A q \in Proc : q # p => /\ pc'[q] = pc[q] /\ todo'[q] = todo[q] /\ job'[q] = job[q]
                               /\ view'[q] = view[q]
  BY <1>1 DEF EventsInv, TypeOK
<1>3. \A q \in Proc : q # p => (writer' = q <=> writer = q)
  BY <1>1 DEF EventsAssumption
<1>4. ASSUME NEW q \in Proc, q # p PROVE Ordered(q)' /\ SnapshotOK(q)'
  BY <1>1, <1>2, <1>3, <1>4, SameProcess DEF AccountInv
<1>5. Ordered(p)' /\ SnapshotOK(p)'
  <2>1. view'[p] = None /\ todo'[p] = <<>> /\ writer' # p
    BY <1>1 DEF EventsInv, TypeOK, EventsAssumption
  <2>. QED  BY <2>1 DEF Ordered, SnapshotOK
<1>6. SeenIsAccountedFor'
  <2>1. \A q \in Proc : q # p => at_risk(q)' = at_risk(q)
    BY <1>2, <1>3, SameAtRisk
  <2>2. sigs(records)' = sigs(records)
    BY DEF sigs, record_sig, source_key
  <2>. QED  BY <1>1, <2>1, <2>2, StillAccountedFor DEF AccountInv
<1>. QED  BY <1>4, <1>5, <1>6 DEF AccountInv

LEMMA CommitAccount ==
    ASSUME EventsAssumption, EventsInv, AccountInv, NEW p \in Proc, Commit(p)
    PROVE  AccountInv'
<1>1. /\ pc[p] = "seen" /\ todo[p] = <<>>
      /\ view' = [view EXCEPT ![p] = None] /\ pc' = [pc EXCEPT ![p] = "prune"]
      /\ UNCHANGED <<ever_seen, job, todo, lost>>
  BY DEF Commit, goto, usage_db
<1>2. \/ /\ writer = p /\ records' = view[p] /\ writer' = None
         /\ stale' = (stale \cup {q \in Proc : view[q] # None}) \ {p}
      \/ writer # p /\ stale' = stale \ {p} /\ UNCHANGED <<records, writer>>
  BY DEF Commit, commit
<1>3. /\ view'[p] = None /\ writer' # p
      /\ \A q \in Proc : q # p => pc'[q] = pc[q] /\ view'[q] = view[q] /\ (writer' = q <=> writer = q)
  BY <1>1, <1>2 DEF EventsInv, TypeOK, EventsAssumption
<1>4. sigs(records) \subseteq sigs(records)'
  <2>1. CASE writer = p
    <3>1. sigs(records)' = sigs(view[p])
      BY <1>2, <2>1 DEF sigs, record_sig, source_key
    <3>. QED  BY <2>1, <3>1 DEF AccountInv, SnapshotOK
  <2>2. CASE writer # p
    BY <1>2, <2>2 DEF sigs, record_sig, source_key
  <2>. QED  BY <2>1, <2>2
<1>5. ASSUME NEW q \in Proc PROVE Ordered(q)'
  BY <1>1 DEF AccountInv, Ordered
<1>6. SnapshotOK(p)'
  BY <1>3 DEF SnapshotOK
<1>7. ASSUME NEW q \in Proc, q # p PROVE SnapshotOK(q)'
  <2>1. CASE writer = p
    <3>1. writer # q /\ writer' # q
      BY <1>3, <1>7, <2>1
    <3>2. view[q] # None => q \in stale'
      BY <1>2, <1>7, <2>1
    <3>3. SnapshotOK(q) /\ sigs(view[q])' = sigs(view[q])
      BY <1>3, <1>7 DEF AccountInv, sigs, record_sig, source_key
    <3>. QED  BY <1>3, <1>4, <1>7, <3>1, <3>2, <3>3 DEF SnapshotOK
  <2>2. CASE writer # p
    BY <1>1, <1>2, <1>3, <1>7, <2>2, SameProcess DEF AccountInv
  <2>. QED  BY <2>1, <2>2
<1>8. SeenIsAccountedFor'
  <2>1. ASSUME NEW q \in Proc, q # p PROVE at_risk(q)' = at_risk(q)
    <3>1. writer = q => records' = records
      BY <1>2, <2>1
    <3>. QED  BY <1>1, <1>3, <2>1, <3>1, SameAtRisk
  <2>2. ASSUME NEW k \in at_risk(p) PROVE record_sig(k) \in sigs(records)'
    <3>1. writer = p /\ \E i \in DOMAIN view[p] : k = view[p][i]
      BY <1>1, <2>2 DEF at_risk, source_key
    <3>2. records' = view[p]
      BY <1>2, <3>1
    <3>. QED  BY <3>1, <3>2 DEF sigs
  <2>3. ASSUME NEW q \in Proc, NEW k \in at_risk(q)
        PROVE  record_sig(k) \in sigs(records)' \/ \E r \in Proc : k \in at_risk(r)'
    BY <2>1, <2>2, <2>3
  <2>4. ever_seen' = ever_seen /\ lost' = lost /\ SeenIsAccountedFor
    BY <1>1 DEF AccountInv
  <2>. QED  BY <1>4, <2>3, <2>4, StillAccountedFor
<1>. QED  BY <1>5, <1>6, <1>7, <1>8 DEF AccountInv

\* Steps that leave the records, the transactions and the events in hand alone.
LEMMA QuietAccount ==
    ASSUME EventsAssumption, EventsInv, AccountInv,
           UNCHANGED <<ever_seen, records, writer, view, todo, lost>>, stale \subseteq stale',
           \A q \in Proc : job'[q] = job[q] \/ (view[q] = None /\ writer # q /\ todo[q] = <<>>),
           \A q \in Proc : pc'[q] = pc[q] \/ {pc[q], pc'[q]} \cap {"check", "insert"} = {}
    PROVE  AccountInv'
<1>1. ASSUME NEW q \in Proc PROVE Ordered(q)'
  <2>1. CASE todo[q] = <<>>
    BY <2>1 DEF Ordered
  <2>2. CASE job'[q] = job[q]
    BY <1>1, <2>2 DEF AccountInv, Ordered
  <2>. QED  BY <2>1, <2>2
<1>2. ASSUME NEW q \in Proc PROVE SnapshotOK(q)'
  <2>1. SnapshotOK(q)
    BY DEF AccountInv
  <2>2. sigs(records)' = sigs(records) /\ sigs(view[q])' = sigs(view[q])
    BY DEF sigs, record_sig, source_key
  <2>3. CASE job'[q] # job[q]
    <3>1. view[q] = None /\ writer # q
      BY <2>3
    <3>. QED  BY <3>1 DEF SnapshotOK
  <2>4. CASE job'[q] = job[q]
    BY <2>1, <2>2, <2>4 DEF SnapshotOK, passed
  <2>. QED  BY <2>3, <2>4
<1>3. SeenIsAccountedFor'
  <2>1. ASSUME NEW q \in Proc PROVE at_risk(q)' = at_risk(q)
    BY DEF at_risk, source_key
  <2>2. sigs(records)' = sigs(records)
    BY DEF sigs, record_sig, source_key
  <2>. QED  BY <2>1, <2>2, StillAccountedFor DEF AccountInv
<1>. QED  BY <1>1, <1>2, <1>3 DEF AccountInv

LEMMA AfterCommitAccount ==
    ASSUME EventsAssumption, EventsInv, AccountInv, NEW p \in Proc, Len(records) <= MaxRecords,
           PruneRecords(p) \/ MarkSourceFileScanned(p) \/ TrimSeen(p)
    PROVE  AccountInv'
<1>1. /\ pc[p] \in {"prune", "cache", "trim"}
      /\ \E place \in {"cache", "trim", "idle"} : pc' = [pc EXCEPT ![p] = place]
      /\ job' = job \/ job' = [job EXCEPT ![p] = None]
      /\ UNCHANGED <<ever_seen, records, stale, writer, view, todo, lost>>
  <2>1. ~(Len(records) > MaxRecords)
    BY DEF EventsInv, TypeOK, EventsAssumption
  <2>2. CASE PruneRecords(p)
    BY <2>1, <2>2 DEF PruneRecords, goto, usage_db
  <2>3. CASE MarkSourceFileScanned(p)
    BY <2>3 DEF MarkSourceFileScanned, goto, records_db
  <2>4. CASE TrimSeen(p)
    BY <2>4 DEF TrimSeen, goto, records_db
  <2>. QED  BY <2>2, <2>3, <2>4
<1>2. view[p] = None /\ todo[p] = <<>> /\ writer # p
  <2>1. view[p] = None /\ todo[p] = <<>>
    BY <1>1 DEF EventsInv, ProcessInv, Placed, at_work
  <2>2. writer = p => view[p] # None
    BY DEF EventsInv, TypeOK, EventsAssumption
  <2>. QED  BY <2>1, <2>2
<1>3. \A q \in Proc : job'[q] = job[q] \/ (view[q] = None /\ writer # q /\ todo[q] = <<>>)
  BY <1>1, <1>2 DEF EventsInv, TypeOK
<1>4. \A q \in Proc : pc'[q] = pc[q] \/ {pc[q], pc'[q]} \cap {"check", "insert"} = {}
  BY <1>1 DEF EventsInv, TypeOK
<1>. QED  BY <1>1, <1>3, <1>4, QuietAccount

LEMMA CaptureAccount ==
    ASSUME EventsAssumption, EventsInv, AccountInv, Capture
    PROVE  AccountInv'
<1>1. /\ stale' = {q \in Proc : view[q] # None}
      /\ UNCHANGED <<ever_seen, records, writer, pc, job, view, todo, lost>>
  BY DEF Capture, usage_db, proc_vars
<1>2. stale \subseteq stale'
  BY <1>1 DEF EventsInv, TypeOK
<1>. QED  BY <1>1, <1>2, QuietAccount

LEMMA GrowAccount ==
    ASSUME EventsAssumption, EventsInv, AccountInv, NEW f \in File, NEW s \in Stamped, Grow(f, s)
    PROVE  AccountInv'
<1>1. UNCHANGED <<ever_seen, records, writer, stale, pc, job, view, todo, lost>>
  BY DEF Grow, usage_db, records_db, proc_vars
<1>. QED  BY <1>1, QuietAccount

LEMMA AccountInit == EventsAssumption /\ Init => AccountInv
<1>. SUFFICES ASSUME EventsAssumption, Init PROVE AccountInv
  OBVIOUS
<1>1. ASSUME NEW p \in Proc PROVE Ordered(p) /\ SnapshotOK(p)
  BY DEF Init, Ordered, SnapshotOK, EventsAssumption
<1>2. SeenIsAccountedFor
  BY DEF Init, SeenIsAccountedFor
<1>. QED  BY <1>1, <1>2 DEF AccountInv

LEMMA AccountStep ==
    ASSUME EventsAssumption, EventsInv, AccountInv, Len(records) <= MaxRecords, [Next]_vars
    PROVE  AccountInv'
<1>1. CASE UNCHANGED vars
  <2>1. UNCHANGED <<ever_seen, records, writer, stale, pc, job, view, todo, lost>>
    BY <1>1 DEF vars, usage_db, records_db, proc_vars
  <2>. QED  BY <2>1, QuietAccount
<1>2. ASSUME NEW p \in Proc, Scan(p) PROVE AccountInv'
  <2>1. ASSUME Busy(p) PROVE AccountInv'
    BY <2>1, EndScanAccount DEF Busy, usage_db
  <2>. QED
    BY <1>2, <2>1, ScanFileAccount, MarkSeenAccount, CheckRecordAccount, InsertRecordAccount,
       CommitAccount, AfterCommitAccount DEF Scan
<1>3. ASSUME NEW p \in Proc, Crash(p) PROVE AccountInv'
  BY <1>3, EndScanAccount DEF Crash, usage_db
<1>4. CASE Next
  BY <1>2, <1>3, <1>4, CaptureAccount, GrowAccount DEF Next
<1>. QED  BY <1>1, <1>4

\* As long as no cap removes a row, no key is forgotten: each one that was ever put into
\* usage_monitoring_seen belongs to a row of records.db, is at work, or was in a
\* transaction that failed (lost); and a cached file has had each of its events offered.
THEOREM EventsAccountedFor ==
    ASSUME EventsAssumption
    PROVE  Spec /\ [](Len(records) <= MaxRecords) => []EventsAreAccountedFor
<1>1. EventsAssumption /\ Init => EventsInv /\ AccountInv
  BY EventsInit, AccountInit
<1>2. EventsInv /\ AccountInv /\ Len(records) <= MaxRecords /\ [Next]_vars => EventsInv' /\ AccountInv'
  BY EventsStep, AccountStep
<1>3. EventsInv /\ AccountInv => EventsAreAccountedFor
  BY CachedSeen DEF EventsAreAccountedFor, AccountInv
<1>. QED  BY <1>1, <1>2, <1>3, PTL DEF Spec

-----------------------------------------------------------------------------
(* Sums over finite sets.                                                  *)

\* A set of numbers has a least one.
LEMMA Least ==
    ASSUME NEW S, S \subseteq Nat, S # {}
    PROVE  \E n \in S : \A m \in S : n <= m
<1>1. IsWellFoundedOn(OpToRel(<, Nat), Nat)
  BY NatLessThanWellFounded
<1>2. PICK n \in S : \A m \in S : ~(<<m, n>> \in OpToRel(<, Nat))
  BY <1>1, WFMin
<1>3. \A m \in S : ~(m < n) /\ m \in Nat /\ n \in Nat
  BY <1>2 DEF OpToRel
<1>. QED  BY <1>3

\* Induction over the subsets of a finite set.
LEMMA SubsetInduction ==
    ASSUME NEW I, IsFiniteSet(I), NEW Good,
           \A s \in SUBSET I : (\A t \in SUBSET s : t # s => t \in Good) => s \in Good
    PROVE  \A s \in SUBSET I : s \in Good
<1> DEFINE Bad == {k \in Nat : \E s \in SUBSET I : Cardinality(s) = k /\ s \notin Good}
<1>1. SUFFICES ASSUME Bad # {} PROVE FALSE
  <2>1. \A s \in SUBSET I : Cardinality(s) \in Nat
    BY FS_Subset, FS_CardinalityType
  <2>. QED  BY <2>1
<1>2. PICK k \in Bad : \A m \in Bad : k <= m
  <2>1. Bad \subseteq Nat
    OBVIOUS
  <2> HIDE DEF Bad
  <2>. QED  BY <1>1, <2>1, Least
<1>3. PICK s \in SUBSET I : Cardinality(s) = k /\ s \notin Good
  OBVIOUS
<1>4. ASSUME NEW t \in SUBSET s, t # s PROVE t \in Good
  <2>1. IsFiniteSet(s) /\ IsFiniteSet(t)
    BY FS_Subset
  <2>2. Cardinality(t) \in Nat /\ Cardinality(t) < k
    BY <1>3, <1>4, <2>1, FS_Subset, FS_CardinalityType
  <2>3. Cardinality(t) \notin Bad
    BY <1>2, <2>2
  <2>. QED  BY <2>2, <2>3
<1>. QED  BY <1>3, <1>4

some(s) == CHOOSE x \in s : TRUE

LEMMA SomeIsIn == ASSUME NEW s, s # {} PROVE some(s) \in s /\ s \ {some(s)} # s
BY DEF some

\* What a fold adds up, on the way.
IsTally(h, n, I) ==
    h = [s \in SUBSET I |-> IF s = {} THEN 0 ELSE n[some(s)] + h[s \ {some(s)}]]

LEMMA TallyAt ==
    ASSUME NEW I, NEW n, NEW h, IsTally(h, n, I), NEW s \in SUBSET I
    PROVE  h[s] = IF s = {} THEN 0 ELSE n[some(s)] + h[s \ {some(s)}]
BY DEF IsTally

\* Tallies of the same numbers are the same.
LEMMA TallySame ==
    ASSUME NEW I, IsFiniteSet(I), NEW J, NEW n, NEW m, NEW h, NEW g,
           IsTally(h, n, I), IsTally(g, m, J), I \subseteq J, \A x \in I : n[x] = m[x]
    PROVE  h[I] = g[I]
<1> DEFINE Good == {s \in SUBSET I : h[s] = g[s]}
<1>1. ASSUME NEW s \in SUBSET I, \A t \in SUBSET s : t # s => t \in Good PROVE s \in Good
  <2>1. CASE s = {}
    BY <2>1, TallyAt
  <2>2. CASE s # {}
    <3>1. some(s) \in I /\ s \ {some(s)} \in Good
      BY <1>1, <2>2, SomeIsIn
    <3> HIDE DEF Good
    <3>2. h[s] = n[some(s)] + h[s \ {some(s)}]
      <4>1. IsTally(h, n, I) /\ s \in SUBSET I
        OBVIOUS
      <4>2. h[s] = IF s = {} THEN 0 ELSE n[some(s)] + h[s \ {some(s)}]
        BY <4>1 DEF IsTally
      <4>. QED  BY <2>2, <4>2
    <3>3. g[s] = m[some(s)] + g[s \ {some(s)}]
      <4>1. s \in SUBSET J
        OBVIOUS
      <4>. QED  BY <2>2, <4>1, TallyAt
    <3> USE DEF Good
    <3>. QED  BY <3>1, <3>2, <3>3
  <2>. QED  BY <2>1, <2>2
<1> HIDE DEF Good
<1>2. I \in Good
  BY <1>1, SubsetInduction
<1>. QED  BY <1>2 DEF Good

LEMMA TallyExists ==
    ASSUME NEW I, IsFiniteSet(I), NEW n
    PROVE  \E h : IsTally(h, n, I)
<1> DEFINE Good == {s \in SUBSET I : \E h : IsTally(h, n, s)}
           v == [s \in SUBSET I |-> (CHOOSE h : IsTally(h, n, s))[s]]
<1>1. ASSUME NEW s \in SUBSET I, \A t \in SUBSET s : t # s => t \in Good PROVE s \in Good
  <2> DEFINE g == [t \in SUBSET s |-> IF t = {} THEN 0 ELSE n[some(t)] + v[t \ {some(t)}]]
  <2>1. ASSUME NEW t \in SUBSET s, t # s PROVE g[t] = v[t]
    <3>1. t \in Good /\ t \in SUBSET I
      BY <1>1, <2>1
    <3> DEFINE h == CHOOSE f : IsTally(f, n, t)
    <3>2. IsTally(h, n, t)
      BY <3>1
    <3>3. v[t] = h[t]
      BY <3>1
    <3> HIDE DEF h
    <3>4. CASE t = {}
      BY <3>2, <3>3, <3>4, TallyAt
    <3>5. CASE t # {}
      <4> DEFINE u == t \ {some(t)}
                 f == CHOOSE k : IsTally(k, n, u)
      <4>1. u \in SUBSET s /\ u # s /\ u \in SUBSET t /\ u \in SUBSET I /\ u \in Good
        BY <1>1, <2>1, <3>5, SomeIsIn
      <4>2. IsTally(f, n, u)
        BY <4>1
      <4>3. v[u] = f[u]
        BY <4>1
      <4> HIDE DEF f
      <4>4. f[u] = h[u]
        <5>1. IsFiniteSet(u)
          BY <4>1, FS_Subset
        <5> HIDE DEF u
        <5>. QED  BY <3>2, <4>1, <4>2, <5>1, TallySame
      <4>5. h[t] = n[some(t)] + h[u]
        BY <3>2, <3>5, TallyAt
      <4>. QED  BY <3>3, <3>5, <4>3, <4>4, <4>5
    <3>. QED  BY <3>4, <3>5
  <2>2. ASSUME NEW t \in SUBSET s
        PROVE  g[t] = IF t = {} THEN 0 ELSE n[some(t)] + g[t \ {some(t)}]
    <3>1. CASE t # {}
      <4>1. t \ {some(t)} \in SUBSET s /\ t \ {some(t)} # s
        BY <3>1, SomeIsIn
      <4> HIDE DEF v
      <4>2. g[t \ {some(t)}] = v[t \ {some(t)}]
        BY <2>1, <4>1
      <4>3. g[t] = n[some(t)] + v[t \ {some(t)}]
        BY <3>1
      <4>. QED  BY <3>1, <4>2, <4>3
    <3>. QED  BY <3>1
  <2> HIDE DEF v
  <2>3. g = [t \in SUBSET s |-> g[t]]
    OBVIOUS
  <2>4. IsTally(g, n, s)
    <3> HIDE DEF g
    <3>. QED  BY <2>2, <2>3 DEF IsTally
  <2>. QED  BY <2>4
<1> HIDE DEF Good
<1>2. I \in Good
  BY <1>1, SubsetInduction
<1>. QED  BY <1>2 DEF Good

\* A tally counts its elements in any order.
LEMMA TallyTakes ==
    ASSUME NEW I, IsFiniteSet(I), NEW n, \A x \in I : n[x] \in Int, NEW h, IsTally(h, n, I)
    PROVE  \A s \in SUBSET I : h[s] \in Int /\ \A x \in s : h[s] = n[x] + h[s \ {x}]
<1> DEFINE Good == {s \in SUBSET I : h[s] \in Int /\ \A x \in s : h[s] = n[x] + h[s \ {x}]}
<1>1. ASSUME NEW s \in SUBSET I, \A t \in SUBSET s : t # s => t \in Good PROVE s \in Good
  <2>1. CASE s = {}
    BY <2>1, TallyAt
  <2>2. CASE s # {}
    <3> DEFINE c == some(s)
    <3>1. c \in s /\ c \in I /\ s \ {c} \in Good
      BY <1>1, <2>2, SomeIsIn
    <3>2. h[s] = n[c] + h[s \ {c}]
      BY <2>2, TallyAt
    <3>3. h[s] \in Int
      BY <3>1, <3>2
    <3> HIDE DEF c
    <3>4. ASSUME NEW x \in s PROVE h[s] = n[x] + h[s \ {x}]
      <4>1. CASE x = c
        BY <3>2, <4>1
      <4>2. CASE x # c
        <5>1. s \ {x} \in Good /\ s \ {x, c} \in Good
          BY <1>1, <3>1
        <5>2. h[s \ {c}] = n[x] + h[(s \ {c}) \ {x}]
          BY <3>1, <4>2
        <5>3. h[s \ {x}] = n[c] + h[(s \ {x}) \ {c}]
          BY <3>1, <4>2, <5>1
        <5>4. (s \ {c}) \ {x} = s \ {x, c} /\ (s \ {x}) \ {c} = s \ {x, c}
          OBVIOUS
        <5>6. h[s \ {c}] = n[x] + h[s \ {x, c}] /\ h[s \ {x}] = n[c] + h[s \ {x, c}]
          BY <5>2, <5>3, <5>4
        <5>5. n[x] \in Int /\ n[c] \in Int /\ h[s \ {x, c}] \in Int
          BY <3>1, <5>1
        <5> HIDE DEF Good
        <5>. QED  BY <3>2, <5>5, <5>6
      <4>. QED  BY <4>1, <4>2
    <3>. QED  BY <3>3, <3>4
  <2>. QED  BY <2>1, <2>2
<1> HIDE DEF Good
<1>2. \A s \in SUBSET I : s \in Good
  BY <1>1, SubsetInduction
<1>. QED  BY <1>2 DEF Good

\* The sum of n over I.
Sum(n, I) == Rollups!MapThenSumSet(LAMBDA k : n[k], I)

LEMMA SumIsTally ==
    ASSUME NEW I, IsFiniteSet(I), NEW n
    PROVE  \E h : IsTally(h, n, I) /\ Sum(n, I) = h[I]
<1> DEFINE tally == CHOOSE h : IsTally(h, n, I)
<1>1. IsTally(tally, n, I)
  BY TallyExists
<1>2. Sum(n, I) = tally[I]
  BY DEF Sum, Rollups!MapThenSumSet, Rollups!MapThenFoldSet, IsTally, some
<1>. QED  BY <1>1, <1>2

\* The sum of the numbers in the rows of q.
LEMMA RowsSum ==
    ASSUME NEW q, NEW I, IsFiniteSet(I)
    PROVE  Rollups!MapThenSumSet(LAMBDA k : q[k].n, I) = Sum([k \in I |-> q[k].n], I)
<1> DEFINE n == [k \in I |-> q[k].n]
           IsRows(h) == h = [s \in SUBSET I |-> IF s = {} THEN 0
                                               ELSE q[some(s)].n + h[s \ {some(s)}]]
           rows == CHOOSE h : IsRows(h)
<1>1. Rollups!MapThenSumSet(LAMBDA k : q[k].n, I) = rows[I]
  BY DEF Rollups!MapThenSumSet, Rollups!MapThenFoldSet, some
<1>2. \A h : IsTally(h, n, I) <=> IsRows(h)
  <2>1. \A s \in SUBSET I : s # {} => n[some(s)] = q[some(s)].n
    BY SomeIsIn
  <2> HIDE DEF n
  <2>. QED  BY <2>1 DEF IsTally
<1> HIDE DEF n, IsRows
<1>3. IsRows(rows)
  BY <1>2, TallyExists
<1> HIDE DEF rows
<1>4. PICK h : IsTally(h, n, I) /\ Sum(n, I) = h[I]
  BY SumIsTally
<1>5. h[I] = rows[I]
  BY <1>2, <1>3, <1>4, TallySame
<1>. QED  BY <1>1, <1>4, <1>5 DEF n

total(q, I) == Rollups!MapThenSumSet(LAMBDA k : q[k].n, I)

LEMMA TotalIsTally ==
    ASSUME NEW q, NEW I, IsFiniteSet(I)
    PROVE  \E h : IsTally(h, [k \in I |-> q[k].n], I) /\ total(q, I) = h[I]
<1>1. PICK h : IsTally(h, [k \in I |-> q[k].n], I) /\ Sum([k \in I |-> q[k].n], I) = h[I]
  BY SumIsTally
<1>2. total(q, I) = Sum([k \in I |-> q[k].n], I)
  BY RowsSum DEF total
<1>. QED  BY <1>1, <1>2

LEMMA TotalEmpty == ASSUME NEW q PROVE total(q, {}) = 0
<1>1. IsFiniteSet({})
  BY FS_EmptySet
<1>2. PICK h : IsTally(h, [k \in {} |-> q[k].n], {}) /\ total(q, {}) = h[{}]
  BY <1>1, TotalIsTally
<1>. QED  BY <1>2 DEF IsTally

LEMMA TotalTakes ==
    ASSUME NEW q, NEW I, IsFiniteSet(I), \A x \in I : q[x].n \in Int
    PROVE  total(q, I) \in Int /\ \A x \in I : total(q, I) = q[x].n + total(q, I \ {x})
<1> DEFINE n == [k \in I |-> q[k].n]
<1>1. PICK h : IsTally(h, n, I) /\ total(q, I) = h[I]
  BY TotalIsTally
<1>2. \A x \in I : n[x] \in Int /\ n[x] = q[x].n
  OBVIOUS
<1> HIDE DEF n
<1>3. h[I] \in Int /\ \A x \in I : h[I] = n[x] + h[I \ {x}]
  <2>1. \A s \in SUBSET I : h[s] \in Int /\ \A x \in s : h[s] = n[x] + h[s \ {x}]
    BY <1>1, <1>2, TallyTakes
  <2>. QED  BY <2>1
<1>4. ASSUME NEW x \in I PROVE h[I \ {x}] = total(q, I \ {x})
  <2> DEFINE J == I \ {x}
             m == [k \in J |-> q[k].n]
  <2>1. IsFiniteSet(J) /\ J \subseteq I
    BY FS_Subset
  <2>2. PICK g : IsTally(g, m, J) /\ total(q, J) = g[J]
    BY <2>1, TotalIsTally
  <2>3. \A y \in J : m[y] = n[y]
    BY <1>2
  <2> HIDE DEF J, m
  <2>4. g[J] = h[J]
    BY <1>1, <2>1, <2>2, <2>3, TallySame
  <2>. QED  BY <2>2, <2>4 DEF J
<1>. QED  BY <1>1, <1>2, <1>3, <1>4

countable(q, I) == IsFiniteSet(I) /\ \A x \in I : q[x].n \in Int

LEMMA TotalOfOne ==
    ASSUME NEW q, NEW i, q[i].n \in Int
    PROVE  total(q, {i}) = q[i].n
<1> DEFINE one == {i}
<1>1. IsFiniteSet(one) /\ one \ {i} = {} /\ i \in one /\ \A j \in one : q[j].n \in Int
  BY FS_Singleton
<1> HIDE DEF one
<1>2. total(q, one) = q[i].n + total(q, one \ {i})
  BY <1>1, TotalTakes
<1>. QED  BY <1>1, <1>2, TotalEmpty DEF one

LEMMA TotalIsNat ==
    ASSUME NEW q, NEW I, IsFiniteSet(I), \A x \in I : q[x].n \in Nat
    PROVE  total(q, I) \in Nat
<1> DEFINE Good == {s \in SUBSET I : total(q, s) \in Nat}
<1>1. ASSUME NEW s \in SUBSET I, \A t \in SUBSET s : t # s => t \in Good PROVE s \in Good
  <2>1. CASE s = {}
    BY <2>1, TotalEmpty
  <2>2. CASE s # {}
    <3>1. PICK x \in s : TRUE
      BY <2>2
    <3> DEFINE t == s \ {x}
    <3>2. IsFiniteSet(s) /\ \A y \in s : q[y].n \in Int
      BY FS_Subset
    <3>3. t \in Good
      BY <1>1
    <3>4. total(q, s) = q[x].n + total(q, t)
      BY <3>2, TotalTakes
    <3> HIDE DEF t
    <3>. QED  BY <3>3, <3>4
  <2>. QED  BY <2>1, <2>2
<1> HIDE DEF Good
<1>2. I \in Good
  BY <1>1, SubsetInduction
<1>. QED  BY <1>2 DEF Good

\* Rows that move keep their sum,
LEMMA TotalMoves ==
    ASSUME NEW q, NEW I, IsFiniteSet(I), \A x \in I : q[x].n \in Int,
           NEW r, NEW b, \A x, y \in I : b[x] = b[y] => x = y, \A x \in I : r[b[x]].n = q[x].n
    PROVE  total(r, {b[x] : x \in I}) = total(q, I)
<1> DEFINE at(s) == {b[x] : x \in s}
           Good == {s \in SUBSET I : total(r, at(s)) = total(q, s)}
<1>1. ASSUME NEW s \in SUBSET I, \A t \in SUBSET s : t # s => t \in Good PROVE s \in Good
  <2>1. CASE s = {}
    <3>1. at(s) = {}
      BY <2>1
    <3>. QED  BY <2>1, <3>1, TotalEmpty
  <2>2. CASE s # {}
    <3>1. PICK x \in s : TRUE
      BY <2>2
    <3> DEFINE t == s \ {x}
    <3>2. IsFiniteSet(s) /\ IsFiniteSet(at(s))
      <4>1. IsFiniteSet(s)
        BY FS_Subset
      <4>2. [z \in s |-> b[z]] \in Surjection(s, at(s))
        BY DEF Surjection
      <4> HIDE DEF at
      <4>. QED  BY <4>1, <4>2, FS_Surjection
    <3>3. t \in Good
      BY <1>1
    <3>4. b[x] \in at(s) /\ at(s) \ {b[x]} = at(t)
      OBVIOUS
    <3>5. \A y \in at(s) : r[y].n \in Int
      OBVIOUS
    <3>6. total(q, s) = q[x].n + total(q, t)
      BY <3>2, TotalTakes
    <3> HIDE DEF at
    <3>7. total(r, at(s)) = r[b[x]].n + total(r, at(s) \ {b[x]})
      BY <3>2, <3>4, <3>5, TotalTakes
    <3>. QED  BY <3>3, <3>4, <3>6, <3>7
  <2>. QED  BY <2>1, <2>2
<1> HIDE DEF Good
<1>2. I \in Good
  BY <1>1, SubsetInduction
<1>. QED  BY <1>2 DEF Good

part(I, K) == I \cap K
rest(I, K) == I \ K

\* and the sum of a part and that of the rest add up.
LEMMA TotalSplits ==
    ASSUME NEW q, NEW I, countable(q, I), NEW K
    PROVE  total(q, I) = total(q, part(I, K)) + total(q, rest(I, K))
<1>. IsFiniteSet(I) /\ \A x \in I : q[x].n \in Int
  BY DEF countable
<1> DEFINE in(s) == part(s, K)
           out(s) == rest(s, K)
           Good == {s \in SUBSET I : total(q, s) = total(q, in(s)) + total(q, out(s))}
<1>1. ASSUME NEW s \in SUBSET I, \A t \in SUBSET s : t # s => t \in Good PROVE s \in Good
  <2>1. CASE s = {}
    <3>1. in(s) = {} /\ out(s) = {}
      BY <2>1 DEF part, rest
    <3>. QED  BY <2>1, <3>1, TotalEmpty
  <2>2. CASE s # {}
    <3>1. PICK x \in s : TRUE
      BY <2>2
    <3> DEFINE t == s \ {x}
    <3>2. IsFiniteSet(s) /\ IsFiniteSet(in(s)) /\ IsFiniteSet(out(s)) /\ IsFiniteSet(t)
      BY FS_Subset DEF part, rest
    <3>3. total(q, t) = total(q, in(t)) + total(q, out(t))
      BY <1>1
    <3>4. total(q, s) = q[x].n + total(q, t) /\ q[x].n \in Int
      BY <3>2, TotalTakes
    <3>5. total(q, in(t)) \in Int /\ total(q, out(t)) \in Int
      <4>1. IsFiniteSet(in(t)) /\ IsFiniteSet(out(t))
        BY <3>2, FS_Subset DEF part, rest
      <4>. QED  BY <4>1, TotalTakes DEF part, rest
    <3>6. CASE x \in K
      <4>1. in(s) \ {x} = in(t) /\ out(s) = out(t)
        BY <3>6 DEF part, rest
      <4>2. total(q, in(s)) = q[x].n + total(q, in(s) \ {x})
        BY <3>2, <3>6, TotalTakes DEF part, rest
      <4>3. total(q, in(s)) = q[x].n + total(q, in(t)) /\ total(q, out(s)) = total(q, out(t))
        <5> HIDE DEF t, in, out
        <5>. QED  BY <4>1, <4>2
      <4>4. total(q, s) = total(q, in(s)) + total(q, out(s))
        <5> HIDE DEF t, in, out
        <5>. QED  BY <3>3, <3>4, <3>5, <4>3
      <4>. QED  BY <4>4
    <3>7. CASE x \notin K
      <4>1. out(s) \ {x} = out(t) /\ in(s) = in(t)
        BY <3>7 DEF part, rest
      <4>2. total(q, out(s)) = q[x].n + total(q, out(s) \ {x})
        BY <3>2, <3>7, TotalTakes DEF part, rest
      <4>3. total(q, out(s)) = q[x].n + total(q, out(t)) /\ total(q, in(s)) = total(q, in(t))
        <5> HIDE DEF t, in, out
        <5>. QED  BY <4>1, <4>2
      <4>4. total(q, s) = total(q, in(s)) + total(q, out(s))
        <5> HIDE DEF t, in, out
        <5>. QED  BY <3>3, <3>4, <3>5, <4>3
      <4>. QED  BY <4>4
    <3>. QED  BY <3>6, <3>7
  <2>. QED  BY <2>1, <2>2
<1> HIDE DEF Good
<1>2. I \in Good
  BY <1>1, SubsetInduction
<1>. QED  BY <1>2 DEF Good, part, rest

-----------------------------------------------------------------------------
(* Sequences of rows.                                                      *)

LEMMA SameCardinality == ASSUME NEW S PROVE Rollups!Cardinality(S) = Cardinality(S)
BY DEF Cardinality, Rollups!Cardinality

\* A finite set as a sequence has each element once.
LEMMA SetToSeqLists ==
    ASSUME NEW S, IsFiniteSet(S)
    PROVE  /\ Rollups!SetToSeq(S) \in [1 .. Cardinality(S) -> S]
           /\ Cardinality(S) \in Nat
           /\ \A x \in S : \E i \in 1 .. Cardinality(S) : Rollups!SetToSeq(S)[i] = x
           /\ \A i, j \in 1 .. Cardinality(S) :
                  Rollups!SetToSeq(S)[i] = Rollups!SetToSeq(S)[j] => i = j
<1> DEFINE N == Cardinality(S)
           lists(f) == f \in [1 .. N -> S] /\ \A a, b \in DOMAIN f : f[a] = f[b] => a = b
           q == CHOOSE f : lists(f)
<1>1. N \in Nat /\ IsFiniteSet(1 .. N) /\ Cardinality(1 .. N) = N
  BY FS_CardinalityType, FS_Interval
<1>2. PICK f : lists(f)
  <2>1. ExistsBijection(1 .. N, S)
    BY FS_CardinalityType
  <2>. QED  BY <2>1 DEF ExistsBijection, Bijection, Injection, IsInjective
<1>3. lists(q)
  BY <1>2
<1>4. Rollups!SetToSeq(S) = q
  BY SameCardinality DEF Rollups!SetToSeq, Rollups!IsInjective
<1> HIDE DEF q, N
<1>5. q \in Injection(1 .. N, S)
  BY <1>3 DEF Injection, IsInjective
<1>6. q \in Surjection(1 .. N, S)
  BY <1>1, <1>5, FS_Injection DEF N
<1>7. \A x \in S : \E i \in 1 .. N : q[i] = x
  BY <1>6 DEF Surjection
<1>. QED  BY <1>1, <1>3, <1>4, <1>7 DEF N

rank(ks) == [k \in ks |-> Cardinality({j \in ks : j <= k})]

\* The positions of a set of positions are counted 1, 2, ..
LEMMA Ranks ==
    ASSUME NEW ks, IsFiniteSet(ks), ks \subseteq Nat
    PROVE  /\ Cardinality(ks) \in Nat
           /\ rank(ks) \in [ks -> 1 .. Cardinality(ks)]
           /\ \A k, j \in ks : rank(ks)[k] = rank(ks)[j] => k = j
           /\ \A n \in 1 .. Cardinality(ks) : \E k \in ks : rank(ks)[k] = n
<1> DEFINE N == Cardinality(ks)
           upto(k) == {j \in ks : j <= k}
           r == rank(ks)
<1>1. N \in Nat
  BY FS_CardinalityType
<1>2. ASSUME NEW k \in ks PROVE IsFiniteSet(upto(k)) /\ r[k] = Cardinality(upto(k)) /\ r[k] \in 1 .. N
  <2>1. upto(k) \subseteq ks /\ k \in upto(k)
    OBVIOUS
  <2>2. r[k] = Cardinality(upto(k))
    BY DEF rank
  <2> HIDE DEF upto, r
  <2>3. IsFiniteSet(upto(k)) /\ Cardinality(upto(k)) <= N
    BY <2>1, FS_Subset
  <2>4. Cardinality(upto(k)) \in Nat /\ Cardinality(upto(k)) # 0
    BY <2>1, <2>3, FS_CardinalityType, FS_EmptySet
  <2>. QED  BY <1>1, <2>2, <2>3, <2>4
<1>3. ASSUME NEW k \in ks, NEW j \in ks, j < k PROVE r[j] < r[k]
  <2>1. upto(j) \subseteq upto(k) /\ k \in upto(k) \ upto(j)
    <3>1. \A x \in ks : x \in Int
      OBVIOUS
    <3>2. \A x \in ks : x <= j => x <= k
      BY <1>3, <3>1
    <3>3. k <= k /\ ~(k <= j)
      BY <1>3, <3>1
    <3>. QED  BY <3>2, <3>3
  <2> HIDE DEF upto, r
  <2>2. Cardinality(upto(j)) < Cardinality(upto(k))
    <3>1. Cardinality(upto(j)) <= Cardinality(upto(k))
      BY <1>2, <2>1, FS_Subset
    <3>2. Cardinality(upto(j)) # Cardinality(upto(k))
      BY <1>2, <2>1, FS_Subset
    <3>. QED  BY <1>1, <1>2, <3>1, <3>2
  <2>. QED  BY <1>2, <2>2
<1>4. ASSUME NEW k \in ks, NEW j \in ks, r[k] = r[j] PROVE k = j
  <2> HIDE DEF r, N
  <2>1. k \in Nat /\ j \in Nat
    OBVIOUS
  <2>2. \A i \in 1 .. N : i \in Int
    BY <1>1
  <2>3. r[k] \in Int /\ r[j] \in Int
    BY <1>2, <2>2
  <2>. QED  BY <1>3, <1>4, <2>1, <2>3
<1>5. r \in [ks -> 1 .. N]
  BY <1>2 DEF rank
<1> HIDE DEF r
<1>6. r \in Injection(ks, 1 .. N)
  BY <1>4, <1>5 DEF Injection, IsInjective
<1>7. IsFiniteSet(1 .. N) /\ Cardinality(1 .. N) = N
  BY <1>1, FS_Interval
<1>8. r \in Surjection(ks, 1 .. N)
  BY <1>6, <1>7, FS_Injection
<1>9. \A n \in 1 .. N : \E k \in ks : r[k] = n
  BY <1>8 DEF Surjection
<1>. QED  BY <1>1, <1>4, <1>5, <1>9 DEF r

\* keep: what is kept, and where.
LEMMA Keeps ==
    ASSUME NEW q, NEW ks, IsFiniteSet(ks), ks \subseteq Nat
    PROVE  /\ DOMAIN Rollups!keep(q, ks) = 1 .. Cardinality(ks)
           /\ \A k \in ks : Rollups!keep(q, ks)[rank(ks)[k]] = q[k]
<1> DEFINE N == Cardinality(ks)
           r == rank(ks)
           at(n) == CHOOSE k \in ks : Cardinality({j \in ks : j <= k}) = n
<1>1. Rollups!keep(q, ks) = [n \in 1 .. N |-> q[at(n)]]
  BY DEF Rollups!keep, Cardinality, Rollups!Cardinality
<1>2. \A k \in ks : r[k] = Cardinality({j \in ks : j <= k})
  BY DEF rank
<1>3. ASSUME NEW k \in ks PROVE r[k] \in 1 .. N /\ k = at(r[k])
  <2>1. r[k] \in 1 .. N /\ \A j \in ks : r[k] = r[j] => k = j
    <3>1. /\ rank(ks) \in [ks -> 1 .. N]
          /\ \A i, j \in ks : rank(ks)[i] = rank(ks)[j] => i = j
      BY Ranks
    <3>. QED  BY <3>1
  <2> HIDE DEF r
  <2>. QED  BY <1>2, <2>1
<1> HIDE DEF r, at
<1>4. ASSUME NEW k \in ks PROVE Rollups!keep(q, ks)[r[k]] = q[k]
  BY <1>1, <1>3
<1>. QED  BY <1>1, <1>4 DEF r

Row == [file : File, day : Day, n : Nat]

pos(q, M) == {k \in DOMAIN q : q[k] \in M}

\* What the rows of M in q count.
amount(q, M) == total(q, pos(q, M))

LEMMA AmountType ==
    ASSUME NEW q \in Seq(Row), NEW ks, ks \subseteq DOMAIN q
    PROVE  /\ IsFiniteSet(ks) /\ ks \subseteq Nat /\ Cardinality(ks) \in Nat
           /\ \A k \in ks : q[k] \in Row /\ q[k].n \in Int
           /\ total(q, ks) \in Nat
<1>1. Len(q) \in Nat /\ DOMAIN q = 1 .. Len(q)
  OBVIOUS
<1>2. IsFiniteSet(DOMAIN q)
  BY <1>1, FS_Interval
<1>3. IsFiniteSet(ks) /\ ks \subseteq Nat
  BY <1>1, <1>2, FS_Subset
<1>4. ASSUME NEW k \in ks PROVE q[k] \in Row /\ q[k].n \in Nat
  <2>1. q[k] \in Row
    BY <1>1
  <2>. QED  BY <2>1 DEF Row
<1>5. total(q, ks) \in Nat
  BY <1>3, <1>4, TotalIsNat
<1>. QED  BY <1>3, <1>4, <1>5, FS_CardinalityType

\* Rows that are kept count what they counted,
LEMMA KeepAmount ==
    ASSUME NEW q \in Seq(Row), NEW ks, ks \subseteq DOMAIN q
    PROVE  /\ Rollups!keep(q, ks) \in Seq(Row)
           /\ \A i \in DOMAIN Rollups!keep(q, ks) : \E k \in ks : Rollups!keep(q, ks)[i] = q[k]
           /\ \A M : amount(Rollups!keep(q, ks), M) = total(q, {k \in ks : q[k] \in M})
<1> DEFINE r == Rollups!keep(q, ks)
           b == rank(ks)
           N == Cardinality(ks)
<1>1. IsFiniteSet(ks) /\ ks \subseteq Nat /\ N \in Nat /\ \A k \in ks : q[k] \in Row /\ q[k].n \in Int
  BY AmountType
<1>2. DOMAIN r = 1 .. N /\ \A k \in ks : r[b[k]] = q[k]
  BY <1>1, Keeps
<1>3. /\ b \in [ks -> 1 .. N]
      /\ \A k, j \in ks : b[k] = b[j] => k = j
      /\ \A n \in 1 .. N : \E k \in ks : b[k] = n
  BY <1>1, Ranks
<1>4. r = [i \in 1 .. N |-> r[i]]
  BY DEF Rollups!keep, Cardinality, Rollups!Cardinality
<1> HIDE DEF r, b, N
<1>5. \A i \in 1 .. N : \E k \in ks : r[i] = q[k]
  BY <1>2, <1>3
<1>6. r \in Seq(Row)
  <2>1. \A i \in 1 .. N : r[i] \in Row
    BY <1>1, <1>5
  <2>. QED  BY <1>1, <1>4, <2>1
<1>7. ASSUME NEW M PROVE amount(r, M) = total(q, {k \in ks : q[k] \in M})
  <2> DEFINE I == {k \in ks : q[k] \in M}
  <2>1. pos(r, M) = {b[k] : k \in I}
    BY <1>2, <1>3 DEF pos
  <2>2. IsFiniteSet(I) /\ I \subseteq ks
    BY <1>1, FS_Subset
  <2>5. \A x \in I : q[x].n \in Int /\ r[b[x]].n = q[x].n
    BY <1>1, <1>2
  <2>6. \A x, y \in I : b[x] = b[y] => x = y
    BY <1>3
  <2> HIDE DEF I
  <2>3. total(r, {b[k] : k \in I}) = total(q, I)
    BY <2>2, <2>5, <2>6, TotalMoves
  <2>4. amount(r, M) = total(r, pos(r, M))
    BY DEF amount
  <2>. QED  BY <2>1, <2>3, <2>4 DEF I
<1>. QED  BY <1>2, <1>5, <1>6, <1>7 DEF r

\* and rows that follow others what they count alone.
LEMMA ConcatAmount ==
    ASSUME NEW q \in Seq(Row), NEW r \in Seq(Row), NEW M
    PROVE  amount(q \o r, M) = amount(q, M) + amount(r, M)
<1> DEFINE s == q \o r
           n == Len(q)
           b == [k \in DOMAIN r |-> n + k]
           id == [k \in DOMAIN q |-> k]
           I == pos(s, M)
<1>1. /\ n \in Nat /\ Len(r) \in Nat /\ DOMAIN q = 1 .. n /\ DOMAIN r = 1 .. Len(r)
      /\ s \in Seq(Row) /\ DOMAIN s = 1 .. (n + Len(r))
      /\ \A k \in DOMAIN q : s[k] = q[k]
      /\ \A k \in DOMAIN r : s[n + k] = r[k]
  OBVIOUS
<1> HIDE DEF s, n
<1>2. countable(s, I)
  BY <1>1, AmountType DEF pos, countable
<1>3. total(s, I) = total(s, part(I, 1 .. n)) + total(s, rest(I, 1 .. n))
  <2> HIDE DEF I, b, id
  <2>. QED  BY <1>2, TotalSplits
<1>4. total(s, part(I, 1 .. n)) = amount(q, M)
  <2>1. part(I, 1 .. n) = {id[k] : k \in pos(q, M)}
    BY <1>1 DEF pos, part
  <2>2. IsFiniteSet(pos(q, M)) /\ \A k \in pos(q, M) : q[k].n \in Int
    BY <1>1, AmountType DEF pos
  <2>3. \A k \in pos(q, M) : s[id[k]].n = q[k].n
    BY <1>1 DEF pos
  <2>4. \A j, k \in pos(q, M) : id[j] = id[k] => j = k
    BY DEF pos
  <2> HIDE DEF id, I
  <2>5. total(s, {id[k] : k \in pos(q, M)}) = total(q, pos(q, M))
    BY <2>2, <2>3, <2>4, TotalMoves
  <2>. QED  BY <2>1, <2>5 DEF amount
<1>5. total(s, rest(I, 1 .. n)) = amount(r, M)
  <2>1. rest(I, 1 .. n) = {b[k] : k \in pos(r, M)}
    <3>1. ASSUME NEW k \in I \ (1 .. n) PROVE k - n \in pos(r, M) /\ b[k - n] = k
      <4>1. k \in 1 .. (n + Len(r)) /\ k \notin 1 .. n
        BY <1>1 DEF pos
      <4>2. k - n \in 1 .. Len(r) /\ n + (k - n) = k
        BY <1>1, <4>1
      <4>. QED  BY <1>1, <4>2 DEF pos
    <3>2. ASSUME NEW k \in pos(r, M) PROVE b[k] \in I \ (1 .. n)
      <4>1. k \in 1 .. Len(r) /\ r[k] \in M
        BY <1>1 DEF pos
      <4>2. n + k \in 1 .. (n + Len(r)) /\ n + k \notin 1 .. n
        BY <1>1, <4>1
      <4>. QED  BY <1>1, <4>1, <4>2 DEF pos
    <3> HIDE DEF b, I
    <3>. QED  BY <3>1, <3>2 DEF rest
  <2>2. IsFiniteSet(pos(r, M)) /\ \A k \in pos(r, M) : r[k].n \in Int
    BY <1>1, AmountType DEF pos
  <2>3. \A k \in pos(r, M) : s[b[k]].n = r[k].n
    BY <1>1 DEF pos
  <2>4. \A j, k \in pos(r, M) : b[j] = b[k] => j = k
    BY <1>1 DEF pos
  <2> HIDE DEF b, I
  <2>5. total(s, {b[k] : k \in pos(r, M)}) = total(r, pos(r, M))
    BY <2>2, <2>3, <2>4, TotalMoves
  <2>. QED  BY <2>1, <2>5 DEF amount
<1>. QED  BY <1>3, <1>4, <1>5 DEF amount, s

\* A sequence is its beginning and the rest.
LEMMA CutRows ==
    ASSUME NEW q \in Seq(Row), NEW c \in 0 .. Len(q)
    PROVE  /\ SubSeq(q, 1, c) \in Seq(Row) /\ SubSeq(q, c + 1, Len(q)) \in Seq(Row)
           /\ DOMAIN SubSeq(q, 1, c) = 1 .. c
           /\ q = SubSeq(q, 1, c) \o SubSeq(q, c + 1, Len(q))
<1> DEFINE h == SubSeq(q, 1, c)
           t == SubSeq(q, c + 1, Len(q))
<1>1. Len(q) \in Nat /\ c \in Nat /\ c <= Len(q) /\ q = [i \in 1 .. Len(q) |-> q[i]]
  BY LenProperties
<1>2. /\ h \in Seq(Row) /\ Len(h) = c /\ DOMAIN h = 1 .. c
      /\ \A i \in 1 .. c : h[i] = q[i]
  BY <1>1
<1>3. /\ t \in Seq(Row) /\ Len(t) = Len(q) - c
      /\ \A i \in 1 .. (Len(q) - c) : t[i] = q[c + i]
  <2>1. c + 1 \in Int /\ Len(q) \in Int /\ \A i \in c + 1 .. Len(q) : q[i] \in Row
    BY <1>1
  <2>2. /\ t \in Seq(Row) /\ Len(t) = (IF c + 1 <= Len(q) THEN Len(q) - (c + 1) + 1 ELSE 0)
        /\ \A i \in 1 .. Len(q) - (c + 1) + 1 : t[i] = q[(c + 1) + i - 1]
    BY <2>1, SubSeqProperties
  <2> HIDE DEF t
  <2>3. Len(t) = Len(q) - c
    BY <1>1, <2>2
  <2>4. \A i \in 1 .. (Len(q) - c) : t[i] = q[c + i]
    <3> SUFFICES ASSUME NEW i \in 1 .. (Len(q) - c) PROVE t[i] = q[c + i]
      OBVIOUS
    <3>1. i \in Int /\ Len(q) - (c + 1) + 1 = Len(q) - c /\ (c + 1) + i - 1 = c + i
      BY <1>1
    <3>2. i \in 1 .. Len(q) - (c + 1) + 1
      BY <3>1
    <3>3. t[i] = q[(c + 1) + i - 1]
      BY <2>2, <3>2
    <3>. QED  BY <3>1, <3>3
  <2>. QED  BY <2>2, <2>3, <2>4
<1> DEFINE w == h \o t
<1>4. w \in Seq(Row) /\ Len(w) = Len(q)
  <2> HIDE DEF h, t
  <2>1. w \in Seq(Row) /\ Len(w) = Len(h) + Len(t)
    BY <1>2, <1>3, ConcatProperties
  <2>. QED  BY <1>1, <1>2, <1>3, <2>1
<1>5. ASSUME NEW i \in 1 .. Len(q) PROVE w[i] = q[i]
  <2> HIDE DEF h, t
  <2>1. CASE i <= c
    BY <1>1, <1>2, <1>3, <2>1
  <2>2. CASE ~(i <= c)
    <3>1. i - c \in 1 .. (Len(q) - c) /\ c + (i - c) = i
      BY <1>1, <2>2
    <3>2. w[i] = t[i - c]
      BY <1>1, <1>2, <1>3, <2>2
    <3>. QED  BY <1>3, <3>1, <3>2
  <2>. QED  BY <2>1, <2>2
<1> HIDE DEF w
<1>6. w = [i \in 1 .. Len(q) |-> w[i]]
  BY <1>4
<1>7. w = q
  BY <1>1, <1>5, <1>6
<1>. QED  BY <1>2, <1>3, <1>7 DEF w

day_rows(d) == {r \in Row : r.day = d}
file_rows(f, d) == {r \in Row : r.file = f /\ r.day = d}

rows_of(f, use) == {[file |-> f, day |-> d, n |-> use[d]] : d \in {x \in Day : use[x] # 0}}

\* The rows of one file's contribution, as they are inserted.
LEMMA NewRows ==
    ASSUME IsFiniteSet(Day), NEW f \in File, NEW use \in [Day -> Nat]
    PROVE  /\ Rollups!SetToSeq(rows_of(f, use)) \in Seq(Row)
           /\ \A d \in Day : amount(Rollups!SetToSeq(rows_of(f, use)), day_rows(d)) = use[d]
           /\ \A i \in DOMAIN Rollups!SetToSeq(rows_of(f, use)) :
                  Rollups!SetToSeq(rows_of(f, use))[i].file = f
<1> DEFINE S == rows_of(f, use)
           q == Rollups!SetToSeq(S)
           N == Cardinality(S)
<1>1. IsFiniteSet(S) /\ S \subseteq Row /\ \A r \in S : r.file = f /\ use[r.day] = r.n /\ r.n # 0
  <2> DEFINE D == {x \in Day : use[x] # 0}
             row == [d \in D |-> [file |-> f, day |-> d, n |-> use[d]]]
  <2>1. IsFiniteSet(D)
    BY FS_Subset
  <2>2. row \in Surjection(D, S)
    BY DEF Surjection, rows_of
  <2>3. IsFiniteSet(S)
    <3> HIDE DEF D, row, S
    <3>. QED  BY <2>1, <2>2, FS_Surjection
  <2>4. S \subseteq Row
    BY DEF rows_of, Row
  <2>. QED  BY <2>3, <2>4 DEF rows_of
<1>2. /\ q \in [1 .. N -> S] /\ N \in Nat
      /\ \A x \in S : \E i \in 1 .. N : q[i] = x
      /\ \A i, j \in 1 .. N : q[i] = q[j] => i = j
  <2> HIDE DEF S
  <2>. QED  BY <1>1, SetToSeqLists
<1> HIDE DEF q, N
<1>3. q \in Seq(Row) /\ DOMAIN q = 1 .. N
  BY <1>1, <1>2
<1>4. ASSUME NEW d \in Day PROVE amount(q, day_rows(d)) = use[d]
  <2>1. CASE use[d] = 0
    <3>1. pos(q, day_rows(d)) = {}
      <4> HIDE DEF S
      <4>. QED  BY <1>1, <1>2, <1>3, <2>1 DEF pos, day_rows
    <3>. QED  BY <2>1, <3>1, TotalEmpty DEF amount
  <2>2. CASE use[d] # 0
    <3> DEFINE r == [file |-> f, day |-> d, n |-> use[d]]
    <3>1. r \in S /\ \A x \in S : x.day = d => x = r
      BY <2>2 DEF rows_of
    <3>2. PICK i \in 1 .. N : q[i] = r
      BY <1>2, <3>1
    <3>3. pos(q, day_rows(d)) = {i}
      <4>1. \A j \in 1 .. N : q[j] \in day_rows(d) => j = i
        <5> HIDE DEF S, r
        <5>. QED  BY <1>1, <1>2, <3>1, <3>2 DEF day_rows
      <4>2. q[i] \in day_rows(d)
        BY <1>1, <3>1, <3>2 DEF day_rows
      <4>. QED  BY <1>3, <4>1, <4>2 DEF pos
    <3>4. q[i].n = use[d] /\ q[i].n \in Int
      BY <3>2
    <3>5. total(q, {i}) = q[i].n
      <4> HIDE DEF r
      <4>. QED  BY <3>4, TotalOfOne
    <3>6. amount(q, day_rows(d)) = total(q, {i})
      BY <3>3 DEF amount
    <3> HIDE DEF r
    <3>. QED  BY <3>4, <3>5, <3>6, Zenon
  <2>. QED  BY <2>1, <2>2
<1>5. \A i \in DOMAIN q : q[i].file = f
  BY <1>1, <1>2, <1>3
<1>. QED  BY <1>3, <1>4, <1>5 DEF q

-----------------------------------------------------------------------------
(* Types and places of a scan.                                             *)

FileContent == [use : [Day -> Nat], big : BOOLEAN, bad : BOOLEAN]

\* Finitely many files and days, and numbers for the windows and caps.
RollupsAssumption ==
    /\ IsFiniteSet(File) /\ IsFiniteSet(Day)
    /\ Day \subseteq Int /\ Today0 \in Day
    /\ First \in [File -> FileContent] /\ Content \subseteq FileContent
    /\ Explicit \subseteq [from : Int, to : Int]
    /\ MaxFiles \in Nat
    /\ {Lookback, Retention, MaxRollups, MaxSources, MaxCache} \subseteq Int

Span == [from : Int, to : Int]
Due == [file : File, mtime : Nat, big : BOOLEAN]
Cached == [file : File, mtime : Nat, window : Span]
Job == [window : Span, explicit : BOOLEAN, due : Seq(Due), left : Nat,
        use : [Day -> Nat], over : Nat]
Stage == {"idle", "rebuild", "clear", "list", "scan", "replace", "mark", "retain",
          "count_rollups", "cap_rollups", "cap_cache", "count_sources", "cap_sources"}

ScanTypes ==
    /\ logs \in [File -> [use : [Day -> Nat], big : BOOLEAN, bad : BOOLEAN, mtime : Nat, day : Day]]
    /\ today \in Day
    /\ sources \in Seq(Row)
    /\ scanned_files \in Seq(Cached)
    /\ rpc \in [Proc -> Stage]
    /\ rjob \in [Proc -> Job]
    /\ \A p \in Proc : rpc[p] \in {"replace", "mark"} => rjob[p].due # <<>>

LEMMA CapIsNat ==
    ASSUME NEW n \in Int, NEW c \in Int
    PROVE  Rollups!over(n, c) \in Nat
<1> DEFINE S == {0, n - c}
<1>1. Rollups!over(n, c) = CHOOSE x \in S : \A y \in S : x >= y
  BY DEF Rollups!over, Rollups!Max
<1>2. \E x \in S : \A y \in S : x >= y
  <2>1. CASE n - c >= 0
    BY <2>1
  <2>2. CASE ~(n - c >= 0)
    BY <2>2
  <2>. QED  BY <2>1, <2>2
<1> DEFINE x == CHOOSE x \in S : \A y \in S : x >= y
<1>3. x \in S /\ \A y \in S : x >= y
  BY <1>2
<1> HIDE DEF x
<1>4. x \in Int /\ x >= 0
  BY <1>3
<1>. QED  BY <1>1, <1>4 DEF x

LEMMA CutIsBounded ==
    ASSUME NEW a \in Nat, NEW b \in Nat
    PROVE  Rollups!Min({a, b}) \in 0 .. b
<1> DEFINE S == {a, b}
           x == CHOOSE x \in S : \A y \in S : x <= y
<1>1. Rollups!Min({a, b}) = x
  BY DEF Rollups!Min
<1>2. \E m \in S : \A y \in S : m <= y
  <2>1. CASE a <= b
    BY <2>1
  <2>2. CASE ~(a <= b)
    BY <2>2
  <2>. QED  BY <2>1, <2>2
<1>3. x \in S /\ \A y \in S : x <= y
  BY <1>2
<1> HIDE DEF x
<1>. QED  BY <1>1, <1>3

\* The newest rows are some of the rows.
LEMMA NewestRows ==
    ASSUME NEW T, NEW q \in Seq(T), NEW n \in Int
    PROVE  /\ Rollups!newest(q, n) \in Seq(T)
           /\ \A i \in DOMAIN Rollups!newest(q, n) : \E k \in DOMAIN q : Rollups!newest(q, n)[i] = q[k]
<1> DEFINE S == {1, Len(q) - n + 1}
           m == CHOOSE x \in S : \A y \in S : x >= y
<1>1. Rollups!newest(q, n) = SubSeq(q, m, Len(q))
  BY DEF Rollups!newest, Rollups!Max
<1>2. m \in Int /\ m >= 1
  <2>1. \E x \in S : \A y \in S : x >= y
    <3>1. CASE Len(q) - n + 1 >= 1
      BY <3>1
    <3>2. CASE ~(Len(q) - n + 1 >= 1)
      BY <3>2
    <3>. QED  BY <3>1, <3>2
  <2>2. m \in S /\ \A y \in S : m >= y
    BY <2>1
  <2> HIDE DEF m
  <2>3. Len(q) \in Nat
    OBVIOUS
  <2>. QED  BY <2>2, <2>3
<1> HIDE DEF m
<1>3. SubSeq(q, m, Len(q)) \in Seq(T)
  BY <1>2, SubSeqProperties
<1>4. ASSUME NEW i \in DOMAIN SubSeq(q, m, Len(q)) PROVE \E k \in DOMAIN q : SubSeq(q, m, Len(q))[i] = q[k]
  <2>1. i \in 1 .. (Len(q) - m + 1) /\ SubSeq(q, m, Len(q))[i] = q[m + i - 1]
    BY <1>2
  <2>2. m + i - 1 \in DOMAIN q
    BY <1>2, <2>1
  <2>. QED  BY <2>1, <2>2
<1>. QED  BY <1>1, <1>3, <1>4

LEMMA KeepIsSeq ==
    ASSUME NEW T, NEW q \in Seq(T), NEW ks, ks \subseteq DOMAIN q
    PROVE  /\ Rollups!keep(q, ks) \in Seq(T)
           /\ \A i \in DOMAIN Rollups!keep(q, ks) : \E k \in ks : Rollups!keep(q, ks)[i] = q[k]
<1> DEFINE r == Rollups!keep(q, ks)
           N == Cardinality(ks)
<1>1. Len(q) \in Nat /\ DOMAIN q = 1 .. Len(q)
  OBVIOUS
<1>2. IsFiniteSet(DOMAIN q)
  BY <1>1, FS_Interval
<1>3. IsFiniteSet(ks) /\ ks \subseteq Nat /\ N \in Nat
  BY <1>1, <1>2, FS_Subset, FS_CardinalityType
<1>4. DOMAIN r = 1 .. N /\ \A k \in ks : r[rank(ks)[k]] = q[k]
  BY <1>3, Keeps
<1>5. \A n \in 1 .. N : \E k \in ks : rank(ks)[k] = n
  BY <1>3, Ranks
<1>6. r = [i \in 1 .. N |-> r[i]]
  BY DEF Rollups!keep, Cardinality, Rollups!Cardinality
<1> HIDE DEF r, N
<1>7. \A i \in 1 .. N : \E k \in ks : r[i] = q[k]
  BY <1>4, <1>5
<1>8. \A i \in 1 .. N : r[i] \in T
  BY <1>7
<1>9. r \in Seq(T)
  BY <1>3, <1>6, <1>8
<1>. QED  BY <1>4, <1>7, <1>9 DEF r

LEMMA DayAmount == ASSUME ScanTypes, NEW d PROVE amount(sources, day_rows(d)) \in Nat
BY AmountType DEF ScanTypes, amount, pos

LEMMA DayTotal ==
    ASSUME ScanTypes, NEW d
    PROVE  Rollups!MapThenSumSet(LAMBDA k : sources[k].n, {k \in DOMAIN sources : sources[k].day = d})
               = amount(sources, day_rows(d))
<1>1. \A k \in DOMAIN sources : sources[k] \in Row
  BY DEF ScanTypes
<1>2. {k \in DOMAIN sources : sources[k].day = d} = pos(sources, day_rows(d))
  BY <1>1 DEF pos, day_rows
<1>. QED  BY <1>2 DEF amount, total

LEMMA HeldAmount ==
    ASSUME ScanTypes, NEW f \in File, NEW d \in Day
    PROVE  /\ Rollups!held(f)[d] = amount(sources, file_rows(f, d))
           /\ amount(sources, file_rows(f, d)) \in Int
<1>1. \A k \in DOMAIN sources : sources[k] \in Row
  BY DEF ScanTypes
<1>2. {k \in DOMAIN sources : sources[k].file = f /\ sources[k].day = d} = pos(sources, file_rows(f, d))
  BY <1>1 DEF pos, file_rows
<1>3. amount(sources, file_rows(f, d)) \in Int
  BY AmountType DEF ScanTypes, amount, pos
<1>4. Rollups!held(f)[d] = total(sources, {k \in DOMAIN sources : sources[k].file = f /\ sources[k].day = d})
  BY DEF Rollups!held, Rollups!on_days, total
<1>. QED  BY <1>2, <1>3, <1>4 DEF amount

LEMMA Replaces ==
    ASSUME RollupsAssumption, ScanTypes, NEW p \in Proc, Rollups!ReplaceRollupSource(p),
           NEW f, f = Head(rjob[p].due).file, NEW use, use = rjob[p].use
    PROVE  /\ f \in File /\ use \in [Day -> Nat]
           /\ sources' \in Seq(Row)
           /\ rollup' = [d \in Day |-> rollup[d] + (use[d] - amount(sources, file_rows(f, d)))]
           /\ \A d \in Day : amount(sources', day_rows(d))
                  = (amount(sources, day_rows(d)) - amount(sources, file_rows(f, d))) + use[d]
           /\ \A g \in File, d \in Day : amount(sources', file_rows(g, d))
                  = IF g = f THEN use[d] ELSE amount(sources, file_rows(g, d))
<1> DEFINE K == {k \in DOMAIN sources : sources[k].file # f}
           kept == Rollups!keep(sources, K)
           new == Rollups!SetToSeq(rows_of(f, use))
<1>1. f \in File /\ use \in [Day -> Nat] /\ sources \in Seq(Row)
      /\ \A k \in DOMAIN sources : sources[k] \in Row
  <2>1. rjob[p] \in Job /\ rjob[p].due # <<>>
    BY DEF ScanTypes, Rollups!ReplaceRollupSource
  <2>2. rjob[p].due \in Seq(Due) /\ use \in [Day -> Nat]
    BY <2>1 DEF Job
  <2>3. Head(rjob[p].due) \in Due
    BY <2>1, <2>2
  <2>4. sources \in Seq(Row)
    BY DEF ScanTypes
  <2>. QED  BY <2>2, <2>3, <2>4 DEF Due
<1>2. sources' = kept \o new
  BY DEF Rollups!ReplaceRollupSource, rows_of
<1>3. kept \in Seq(Row) /\ \A M : amount(kept, M) = total(sources, {k \in K : sources[k] \in M})
  BY <1>1, KeepAmount
<1>4. /\ new \in Seq(Row)
      /\ \A d \in Day : amount(new, day_rows(d)) = use[d]
      /\ \A i \in DOMAIN new : new[i].file = f /\ new[i] \in Row
  <2>1. /\ new \in Seq(Row)
        /\ \A d \in Day : amount(new, day_rows(d)) = use[d]
        /\ \A i \in DOMAIN new : new[i].file = f
    <3>1. IsFiniteSet(Day)
      BY DEF RollupsAssumption
    <3>. QED  BY <1>1, <3>1, NewRows
  <2> HIDE DEF new
  <2>2. \A i \in DOMAIN new : new[i] \in Row
    BY <2>1
  <2>. QED  BY <2>1, <2>2
<1>5. rollup' = [d \in Day |-> rollup[d] + (use[d] - amount(sources, file_rows(f, d)))]
  <2>1. rollup' = [d \in Day |-> rollup[d] + Rollups!delta(Rollups!held(f), use)[d]]
    BY DEF Rollups!ReplaceRollupSource, Rollups!on_days
  <2>2. \A d \in Day : Rollups!delta(Rollups!held(f), use)[d] = use[d] - Rollups!held(f)[d]
    BY DEF Rollups!delta, Rollups!on_days
  <2>3. \A d \in Day : Rollups!held(f)[d] = amount(sources, file_rows(f, d))
    BY <1>1, HeldAmount
  <2>. QED  BY <2>1, <2>2, <2>3
<1> HIDE DEF kept, new
<1>6. \A M : amount(sources', M) = total(sources, {k \in K : sources[k] \in M}) + amount(new, M)
  BY <1>2, <1>3, <1>4, ConcatAmount
<1>7. ASSUME NEW d \in Day
      PROVE  amount(sources', day_rows(d))
                 = (amount(sources, day_rows(d)) - amount(sources, file_rows(f, d))) + use[d]
  <2> DEFINE I == pos(sources, day_rows(d))
             R == {k \in DOMAIN sources : sources[k].file = f}
  <2>1. countable(sources, I)
    BY <1>1, AmountType DEF pos, countable
  <2>2. part(I, R) = pos(sources, file_rows(f, d))
    BY <1>1 DEF part, pos, day_rows, file_rows
  <2>3. rest(I, R) = {k \in K : sources[k] \in day_rows(d)}
    BY <1>1 DEF rest, pos
  <2>4. amount(sources, day_rows(d)) = total(sources, part(I, R)) + total(sources, rest(I, R))
    <3> HIDE DEF I, R
    <3>1. total(sources, I) = total(sources, part(I, R)) + total(sources, rest(I, R))
      BY <2>1, TotalSplits
    <3>. QED  BY <3>1 DEF amount, I
  <2>5. total(sources, rest(I, R)) = total(sources, {k \in K : sources[k] \in day_rows(d)})
    BY <2>3
  <2>6. total(sources, part(I, R)) = amount(sources, file_rows(f, d))
    BY <2>2 DEF amount
  <2> HIDE DEF I, R, K
  <2>7. /\ amount(sources, file_rows(f, d)) \in Int /\ amount(sources, day_rows(d)) \in Int
        /\ amount(new, day_rows(d)) = use[d] /\ use[d] \in Int
    <3>1. amount(new, day_rows(d)) = use[d] /\ use[d] \in Int
      BY <1>1, <1>4
    <3>2. amount(sources, file_rows(f, d)) \in Int
      BY <1>1, HeldAmount
    <3>3. amount(sources, day_rows(d)) \in Int
      BY DayAmount
    <3>. QED  BY <3>1, <3>2, <3>3
  <2>8. total(sources, {k \in K : sources[k] \in day_rows(d)}) \in Int
    BY <1>1, AmountType DEF K
  <2>9. amount(sources', day_rows(d)) = total(sources, {k \in K : sources[k] \in day_rows(d)}) + use[d]
    BY <1>6, <2>7
  <2>. QED  BY <2>4, <2>5, <2>6, <2>7, <2>8, <2>9
<1>8. ASSUME NEW g \in File, NEW d \in Day
      PROVE  amount(sources', file_rows(g, d)) = IF g = f THEN use[d] ELSE amount(sources, file_rows(g, d))
  <2>1. CASE g = f
    <3>1. {k \in K : sources[k] \in file_rows(g, d)} = {}
      BY <2>1 DEF file_rows
    <3>2. total(sources, {k \in K : sources[k] \in file_rows(g, d)}) = 0
      BY <3>1, TotalEmpty
    <3>3. pos(new, file_rows(g, d)) = pos(new, day_rows(d))
      BY <1>4, <2>1 DEF pos, file_rows, day_rows
    <3>4. amount(new, file_rows(g, d)) = use[d] /\ use[d] \in Int
      BY <1>1, <1>4, <3>3 DEF amount
    <3> HIDE DEF K
    <3>5. amount(sources', file_rows(g, d))
              = total(sources, {k \in K : sources[k] \in file_rows(g, d)}) + amount(new, file_rows(g, d))
      BY <1>6
    <3>. QED  BY <2>1, <3>2, <3>4, <3>5
  <2>2. CASE g # f
    <3>1. {k \in K : sources[k] \in file_rows(g, d)} = pos(sources, file_rows(g, d))
      BY <1>1, <2>2 DEF file_rows, pos
    <3>2. total(sources, {k \in K : sources[k] \in file_rows(g, d)}) = amount(sources, file_rows(g, d))
      BY <3>1 DEF amount
    <3>3. pos(new, file_rows(g, d)) = {}
      BY <1>4, <2>2 DEF pos, file_rows
    <3>4. amount(new, file_rows(g, d)) = 0 /\ amount(sources, file_rows(g, d)) \in Int
      BY <3>3, TotalEmpty, HeldAmount DEF amount
    <3> HIDE DEF K
    <3>5. amount(sources', file_rows(g, d))
              = total(sources, {k \in K : sources[k] \in file_rows(g, d)}) + amount(new, file_rows(g, d))
      BY <1>6
    <3>. QED  BY <2>2, <3>2, <3>4, <3>5
  <2>. QED  BY <2>1, <2>2
<1>9. sources' \in Seq(Row)
  BY <1>2, <1>3, <1>4
<1>. QED  BY <1>1, <1>5, <1>7, <1>8, <1>9

\* What a step leaves of a file's contribution is all of it.
untouched(g) == \A d \in Day : amount(sources', file_rows(g, d)) = amount(sources, file_rows(g, d))

\* The rows left in the cache were there, and their files are untouched.
CacheShrinks ==
    /\ scanned_files' \in Seq(Cached)
    /\ \A i \in DOMAIN scanned_files' : \E k \in DOMAIN scanned_files :
          scanned_files'[i] = scanned_files[k] /\ untouched(scanned_files[k].file)

\* Rows that go take their files' cache rows along.
LEMMA Forgets ==
    ASSUME ScanTypes, NEW files, scanned_files' = Rollups!forget(files),
           \A g \in File : g \notin files => untouched(g)
    PROVE  CacheShrinks
<1> DEFINE K == {k \in DOMAIN scanned_files : scanned_files[k].file \notin files}
<1>1. scanned_files \in Seq(Cached) /\ \A k \in DOMAIN scanned_files : scanned_files[k].file \in File
  <2>1. scanned_files \in Seq(Cached)
    BY DEF ScanTypes
  <2>2. \A k \in DOMAIN scanned_files : scanned_files[k] \in Cached
    BY <2>1
  <2>. QED  BY <2>1, <2>2 DEF Cached
<1>2. scanned_files' = Rollups!keep(scanned_files, K)
  BY DEF Rollups!forget
<1>3. /\ Rollups!keep(scanned_files, K) \in Seq(Cached)
      /\ \A i \in DOMAIN Rollups!keep(scanned_files, K) :
            \E k \in K : Rollups!keep(scanned_files, K)[i] = scanned_files[k]
  <2>1. K \subseteq DOMAIN scanned_files
    OBVIOUS
  <2> HIDE DEF K
  <2>. QED  BY <1>1, <2>1, KeepIsSeq
<1>4. \A i \in DOMAIN scanned_files' : \E k \in K : scanned_files'[i] = scanned_files[k]
  BY <1>2, <1>3
<1>. QED  BY <1>1, <1>2, <1>3, <1>4 DEF CacheShrinks

LEMMA Drops ==
    ASSUME ScanTypes, NEW days, Rollups!drop_days(days)
    PROVE  /\ sources' \in Seq(Row)
           /\ rollup' = [d \in Day |-> IF d \in days THEN 0 ELSE rollup[d]]
           /\ \A d \in Day : amount(sources', day_rows(d))
                  = IF d \in days THEN 0 ELSE amount(sources, day_rows(d))
           /\ CacheShrinks
<1> DEFINE K == {k \in DOMAIN sources : sources[k].day \notin days}
           files == Rollups!files_of(Rollups!rows_at(days))
<1>1. sources \in Seq(Row) /\ \A k \in DOMAIN sources : sources[k] \in Row
  <2>1. sources \in Seq(Row)
    BY DEF ScanTypes
  <2>. QED  BY <2>1
<1>2. /\ scanned_files' = Rollups!forget(files)
      /\ sources' = Rollups!keep(sources, K)
      /\ rollup' = [d \in Day |-> IF d \in days THEN 0 ELSE rollup[d]]
  BY DEF Rollups!drop_days, Rollups!on_days
<1>3. sources' \in Seq(Row) /\ \A M : amount(sources', M) = total(sources, {k \in K : sources[k] \in M})
  BY <1>1, <1>2, KeepAmount
<1>4. ASSUME NEW d \in Day
      PROVE  amount(sources', day_rows(d)) = IF d \in days THEN 0 ELSE amount(sources, day_rows(d))
  <2>1. CASE d \in days
    <3>1. {k \in K : sources[k] \in day_rows(d)} = {}
      BY <2>1 DEF day_rows
    <3>2. total(sources, {k \in K : sources[k] \in day_rows(d)}) = 0
      BY <3>1, TotalEmpty
    <3>. QED  BY <1>3, <2>1, <3>2
  <2>2. CASE d \notin days
    <3>1. {k \in K : sources[k] \in day_rows(d)} = pos(sources, day_rows(d))
      BY <1>1, <2>2 DEF day_rows, pos
    <3>2. total(sources, {k \in K : sources[k] \in day_rows(d)}) = amount(sources, day_rows(d))
      BY <3>1 DEF amount
    <3>. QED  BY <1>3, <2>2, <3>2
  <2>. QED  BY <2>1, <2>2
<1>5. ASSUME NEW g \in File, g \notin files PROVE untouched(g)
  <2>1. \A k \in DOMAIN sources : sources[k].file = g => sources[k].day \notin days
    BY <1>5 DEF Rollups!files_of, Rollups!rows_at, Rollups!Range
  <2>2. ASSUME NEW d \in Day
        PROVE  amount(sources', file_rows(g, d)) = amount(sources, file_rows(g, d))
    <3>1. {k \in K : sources[k] \in file_rows(g, d)} = pos(sources, file_rows(g, d))
      BY <1>1, <2>1 DEF file_rows, pos
    <3>2. total(sources, {k \in K : sources[k] \in file_rows(g, d)}) = amount(sources, file_rows(g, d))
      BY <3>1 DEF amount
    <3>. QED  BY <1>3, <3>2
  <2>. QED  BY <2>2 DEF untouched
<1> HIDE DEF files
<1>6. CacheShrinks
  BY <1>2, <1>5, Forgets
<1>. QED  BY <1>2, <1>3, <1>4, <1>6

LEMMA Cuts ==
    ASSUME ScanTypes, NEW p \in Proc, Rollups!CapSources(p)
    PROVE  /\ sources' \in Seq(Row)
           /\ rollup' = [d \in Day |->
                  rollup[d] - (amount(sources, day_rows(d)) - amount(sources', day_rows(d)))]
           /\ CacheShrinks
<1> DEFINE c == Rollups!Min({rjob[p].over, Len(sources)})
           gone == SubSeq(sources, 1, c)
           files == Rollups!files_of(Rollups!Range(gone))
<1>1. sources \in Seq(Row) /\ rjob[p].over \in Nat /\ Len(sources) \in Nat
  BY DEF ScanTypes, Job
<1>2. c \in 0 .. Len(sources)
  BY <1>1, CutIsBounded
<1>3. /\ sources' = SubSeq(sources, c + 1, Len(sources))
      /\ rollup' = [d \in Day |-> rollup[d] - Rollups!MapThenSumSet(LAMBDA k : gone[k].n, {k \in 1 .. c : gone[k].day = d})]
      /\ scanned_files' = Rollups!forget(files)
  BY DEF Rollups!CapSources, Rollups!on_days, Rollups!forget_pruned
<1> HIDE DEF c
<1>4. /\ gone \in Seq(Row) /\ DOMAIN gone = 1 .. c
      /\ sources' \in Seq(Row) /\ sources = gone \o sources'
      /\ \A k \in DOMAIN gone : gone[k] \in Row
  <2>1. /\ gone \in Seq(Row) /\ DOMAIN gone = 1 .. c
        /\ sources' \in Seq(Row) /\ sources = gone \o sources'
    BY <1>1, <1>2, <1>3, CutRows
  <2> HIDE DEF gone
  <2>2. \A q \in Seq(Row) : \A k \in DOMAIN q : q[k] \in Row
    OBVIOUS
  <2>. QED  BY <2>1, <2>2
<1> HIDE DEF gone, files
<1>5. \A M : amount(sources, M) = amount(gone, M) + amount(sources', M)
  BY <1>4, ConcatAmount
<1>6. ASSUME NEW d \in Day
      PROVE  Rollups!MapThenSumSet(LAMBDA k : gone[k].n, {k \in 1 .. c : gone[k].day = d})
                 = amount(sources, day_rows(d)) - amount(sources', day_rows(d))
  <2>1. {k \in 1 .. c : gone[k].day = d} = pos(gone, day_rows(d))
    BY <1>4 DEF pos, day_rows
  <2>2. amount(gone, day_rows(d)) \in Nat /\ amount(sources', day_rows(d)) \in Nat
    BY <1>4, AmountType DEF amount, pos
  <2>3. Rollups!MapThenSumSet(LAMBDA k : gone[k].n, {k \in 1 .. c : gone[k].day = d}) = amount(gone, day_rows(d))
    BY <2>1 DEF amount, total
  <2>. QED  BY <1>5, <2>2, <2>3
<1>7. ASSUME NEW g \in File, g \notin files PROVE untouched(g)
  <2>1. \A k \in DOMAIN gone : gone[k].file # g
    BY <1>7 DEF Rollups!files_of, Rollups!Range, files
  <2>2. ASSUME NEW d \in Day
        PROVE  amount(sources', file_rows(g, d)) = amount(sources, file_rows(g, d))
    <3>1. pos(gone, file_rows(g, d)) = {}
      BY <2>1 DEF file_rows, pos
    <3>2. amount(gone, file_rows(g, d)) = 0
      BY <3>1, TotalEmpty DEF amount
    <3>3. amount(sources', file_rows(g, d)) \in Nat
      BY <1>4, AmountType DEF amount, pos
    <3>. QED  BY <1>5, <3>2, <3>3
  <2>. QED  BY <2>2 DEF untouched
<1>8. CacheShrinks
  BY <1>3, <1>7, Forgets
<1>9. rollup' = [d \in Day |->
                  rollup[d] - (amount(sources, day_rows(d)) - amount(sources', day_rows(d)))]
  BY <1>3, <1>6
<1>. QED  BY <1>4, <1>8, <1>9

-----------------------------------------------------------------------------
(* Types and places hold.                                                  *)

LEMMA TypesInit == ASSUME RollupsAssumption, Rollups!Init PROVE ScanTypes
<1>1. logs \in [File -> [use : [Day -> Nat], big : BOOLEAN, bad : BOOLEAN, mtime : Nat, day : Day]]
  <2>1. \A f \in File : First[f] \in FileContent
    BY DEF RollupsAssumption
  <2>2. \A f \in File : First[f].use \in [Day -> Nat] /\ {First[f].big, First[f].bad} \subseteq BOOLEAN
    BY <2>1 DEF FileContent
  <2>. QED  BY <2>2 DEF RollupsAssumption, Rollups!Init
<1>2. Rollups!no_job \in Job /\ Rollups!no_job.due = <<>>
  BY DEF Rollups!no_job, Rollups!Zero, Rollups!on_days, Job, Span
<1>3. rjob \in [Proc -> Job] /\ rpc \in [Proc -> Stage] /\ \A p \in Proc : rpc[p] = "idle"
  BY <1>2 DEF Rollups!Init, Stage
<1>4. sources \in Seq(Row) /\ scanned_files \in Seq(Cached) /\ today \in Day
  <2>1. \A T : <<>> \in Seq(T)
    OBVIOUS
  <2>. QED  BY <2>1 DEF Rollups!Init, RollupsAssumption
<1>. QED  BY <1>1, <1>3, <1>4 DEF ScanTypes

\* A step of one process, as its types see it.
Moves(p) ==
    /\ UNCHANGED logs /\ UNCHANGED today
    /\ \E place \in Stage, memory \in Job :
          /\ rpc' = [rpc EXCEPT ![p] = place]
          /\ rjob' = [rjob EXCEPT ![p] = memory]
          /\ place \in {"replace", "mark"} => memory.due # <<>>

LEMMA MovesType ==
    ASSUME ScanTypes, NEW p \in Proc, Moves(p), sources' \in Seq(Row), scanned_files' \in Seq(Cached)
    PROVE  ScanTypes'
<1>1. PICK place \in Stage, memory \in Job :
          /\ rpc' = [rpc EXCEPT ![p] = place]
          /\ rjob' = [rjob EXCEPT ![p] = memory]
          /\ place \in {"replace", "mark"} => memory.due # <<>>
  BY DEF Moves
<1>2. rpc' \in [Proc -> Stage] /\ rjob' \in [Proc -> Job]
  BY <1>1 DEF ScanTypes
<1>3. ASSUME NEW x \in Proc PROVE rpc'[x] \in {"replace", "mark"} => rjob'[x].due # <<>>
  <2>1. CASE x = p
    BY <1>1, <2>1 DEF ScanTypes
  <2>2. CASE x # p
    BY <1>1, <2>2 DEF ScanTypes
  <2>. QED  BY <2>1, <2>2
<1>4. logs' = logs /\ today' = today
  BY DEF Moves
<1>. QED  BY <1>2, <1>3, <1>4 DEF ScanTypes

LEMMA StartMoves ==
    ASSUME RollupsAssumption, ScanTypes, NEW p \in Proc,
           NEW w \in {Rollups!default_window} \cup Explicit, Rollups!Start(p, w)
    PROVE  Moves(p) /\ w \in Span
<1>1. w \in Span
  <2>1. today \in Int /\ Lookback \in Int
    BY DEF ScanTypes, RollupsAssumption
  <2>2. Rollups!default_window \in Span
    BY <2>1 DEF Rollups!default_window, Span
  <2>. QED  BY <2>2 DEF RollupsAssumption, Span
<1> DEFINE memory == [Rollups!no_job EXCEPT !.window = w, !.explicit = w # Rollups!default_window]
<1>2. Rollups!no_job \in Job
  BY DEF Rollups!no_job, Rollups!Zero, Rollups!on_days, Job, Span
<1>3. memory \in Job
  BY <1>1, <1>2 DEF Job
<1>4. PICK place \in {"rebuild", "list"} : rpc' = [rpc EXCEPT ![p] = place]
  BY DEF Rollups!Start, Rollups!goto
<1>5. rjob' = [rjob EXCEPT ![p] = memory]
  BY DEF Rollups!Start
<1>6. UNCHANGED logs /\ UNCHANGED today
  BY DEF Rollups!Start, Rollups!env_vars
<1>. QED  BY <1>1, <1>3, <1>4, <1>5, <1>6 DEF Moves, Stage

LEMMA ScanMoves ==
    ASSUME RollupsAssumption, ScanTypes, NEW p \in Proc, Rollups!Scan(p)
    PROVE  Moves(p)
<1>1. rjob[p] \in Job /\ rjob = [rjob EXCEPT ![p] = rjob[p]] /\ rpc = [rpc EXCEPT ![p] = rpc[p]]
      /\ rpc[p] \in Stage
  BY DEF ScanTypes
<1>2. ASSUME NEW place \in Stage \ {"replace", "mark"}, rpc' = [rpc EXCEPT ![p] = place],
             UNCHANGED rjob, UNCHANGED logs, UNCHANGED today
      PROVE  Moves(p)
  BY <1>1, <1>2 DEF Moves
<1>3. CASE Rollups!RebuildRollups(p)
  BY <1>2, <1>3 DEF Rollups!RebuildRollups, Rollups!goto, Rollups!env_vars, Stage
<1>4. CASE Rollups!DeleteSessions(p)
  BY <1>2, <1>4 DEF Rollups!DeleteSessions, Rollups!goto, Rollups!env_vars, Stage
<1>5. CASE Rollups!ListFiles(p)
  <2> DEFINE D == {[file |-> f, mtime |-> logs[f].mtime, big |-> logs[f].big] :
                       f \in Rollups!listed(rjob[p].window)}
             memory == [rjob[p] EXCEPT !.left = MaxFiles, !.due = Rollups!SetToSeq(D)]
  <2>1. IsFiniteSet(D) /\ D \subseteq Due
    <3> DEFINE F == Rollups!listed(rjob[p].window)
               entry == [f \in F |-> [file |-> f, mtime |-> logs[f].mtime, big |-> logs[f].big]]
    <3>1. F \subseteq File /\ IsFiniteSet(F)
      <4>1. F \subseteq File
        BY DEF Rollups!listed
      <4>. QED  BY <4>1, FS_Subset DEF RollupsAssumption
    <3>2. entry \in Surjection(F, D)
      BY DEF Surjection
    <3>3. IsFiniteSet(D)
      <4> HIDE DEF F, D, entry
      <4>. QED  BY <3>1, <3>2, FS_Surjection
    <3>. QED  BY <3>1, <3>3 DEF ScanTypes, Due
  <2>2. Rollups!SetToSeq(D) \in Seq(Due)
    <3> HIDE DEF D
    <3>1. Rollups!SetToSeq(D) \in [1 .. Cardinality(D) -> D] /\ Cardinality(D) \in Nat
      BY <2>1, SetToSeqLists
    <3>. QED  BY <2>1, <3>1
  <2>3. rjob' = [rjob EXCEPT ![p] = memory]
    BY <1>5 DEF Rollups!ListFiles
  <2> HIDE DEF D
  <2>4. memory \in Job
    BY <1>1, <2>2 DEF Job, RollupsAssumption
  <2> HIDE DEF memory
  <2>5. rpc' = [rpc EXCEPT ![p] = "scan"] /\ UNCHANGED logs /\ UNCHANGED today
    BY <1>5 DEF Rollups!ListFiles, Rollups!goto, Rollups!env_vars
  <2>. QED  BY <2>3, <2>4, <2>5 DEF Moves, Stage
<1>6. CASE Rollups!SkipCached(p)
  <2> DEFINE memory == [rjob[p] EXCEPT !.due = Tail(rjob[p].due)]
  <2>1. rjob' = [rjob EXCEPT ![p] = memory]
    BY <1>6 DEF Rollups!SkipCached, Rollups!remember
  <2>2. rjob[p].due \in Seq(Due) /\ rjob[p].due # <<>>
    BY <1>1, <1>6 DEF Job, Rollups!SkipCached
  <2>3. Tail(rjob[p].due) \in Seq(Due)
    BY <2>2
  <2>4. memory \in Job
    BY <1>1, <2>3 DEF Job
  <2>5. rpc[p] = "scan" /\ rpc' = [rpc EXCEPT ![p] = rpc[p]] /\ UNCHANGED logs /\ UNCHANGED today
    BY <1>1, <1>6 DEF Rollups!SkipCached, Rollups!env_vars
  <2> HIDE DEF memory
  <2>. QED  BY <2>1, <2>4, <2>5 DEF Moves, Stage
<1>7. CASE Rollups!ScanFile(p)
  <2> DEFINE f == Head(rjob[p].due).file
             use == [d \in Day |-> IF Rollups!inside(d, rjob[p].window) THEN logs[f].use[d] ELSE 0]
             left == rjob[p].left - 1
             memory == [rjob[p] EXCEPT !.left = left, !.use = use]
  <2>1. rjob[p].due \in Seq(Due) /\ rjob[p].due # <<>> /\ rjob[p].left \in Nat /\ rjob[p].left > 0
    BY <1>1, <1>7 DEF Job, Rollups!ScanFile
  <2>2. Head(rjob[p].due) \in Due
    BY <2>1
  <2>3. logs[f].use \in [Day -> Nat]
    BY <2>2 DEF ScanTypes, Due
  <2>4. use \in [Day -> Nat]
    <3> HIDE DEF f
    <3>. QED  BY <2>3
  <2>5. rjob' = [rjob EXCEPT ![p] = memory]
    <3>1. rjob' = [rjob EXCEPT ![p].left = @ - 1, ![p].use = use]
      BY <1>7 DEF Rollups!ScanFile, Rollups!on_days
    <3> HIDE DEF use
    <3>. QED  BY <1>1, <3>1 DEF ScanTypes, Job
  <2>10. left \in Nat
    BY <2>1
  <2> HIDE DEF use, f
  <2> HIDE DEF left
  <2>6. memory \in Job
    BY <1>1, <2>4, <2>10 DEF Job
  <2>7. memory.due = rjob[p].due
    BY <1>1 DEF Job
  <2>8. PICK place \in {"mark", "replace"} : rpc' = [rpc EXCEPT ![p] = place]
    BY <1>7 DEF Rollups!ScanFile, Rollups!goto
  <2>9. UNCHANGED logs /\ UNCHANGED today
    BY <1>7 DEF Rollups!ScanFile, Rollups!env_vars
  <2> HIDE DEF memory
  <2>. QED  BY <2>1, <2>5, <2>6, <2>7, <2>8, <2>9 DEF Moves, Stage
<1>18. CASE Rollups!FailScan(p)
  <2>1. Rollups!no_job \in Job
    BY DEF Rollups!no_job, Rollups!Zero, Rollups!on_days, Job, Span
  <2>. QED  BY <1>18, <2>1 DEF Rollups!FailScan, Rollups!goto, Rollups!env_vars, Moves, Stage
<1>8. CASE Rollups!ReplaceRollupSource(p)
  <2>1. rjob[p].due # <<>>
    BY <1>8 DEF Rollups!ReplaceRollupSource, ScanTypes
  <2>2. rpc' = [rpc EXCEPT ![p] = "mark"] /\ UNCHANGED rjob /\ UNCHANGED logs /\ UNCHANGED today
    BY <1>8 DEF Rollups!ReplaceRollupSource, Rollups!goto, Rollups!env_vars
  <2>. QED  BY <1>1, <2>1, <2>2 DEF Moves, Stage
<1>9. CASE Rollups!MarkSourceFileScanned(p)
  <2> DEFINE memory == [rjob[p] EXCEPT !.due = Tail(rjob[p].due)]
  <2>1. rjob' = [rjob EXCEPT ![p] = memory]
    BY <1>9 DEF Rollups!MarkSourceFileScanned, Rollups!remember
  <2>2. rjob[p].due \in Seq(Due) /\ rjob[p].due # <<>>
    BY <1>1, <1>9 DEF Job, Rollups!MarkSourceFileScanned, ScanTypes
  <2>3. Tail(rjob[p].due) \in Seq(Due)
    BY <2>2
  <2>4. memory \in Job
    BY <1>1, <2>3 DEF Job
  <2>5. rpc' = [rpc EXCEPT ![p] = "scan"] /\ UNCHANGED logs /\ UNCHANGED today
    BY <1>9 DEF Rollups!MarkSourceFileScanned, Rollups!goto, Rollups!env_vars
  <2> HIDE DEF memory
  <2>. QED  BY <2>1, <2>4, <2>5 DEF Moves, Stage
<1>10. CASE Rollups!EndScan(p)
  BY <1>2, <1>10 DEF Rollups!EndScan, Rollups!goto, Rollups!env_vars, Stage
<1>11. CASE Rollups!PruneByRetention(p)
  BY <1>2, <1>11 DEF Rollups!PruneByRetention, Rollups!goto, Rollups!env_vars, Stage
<1>12. ASSUME NEW n \in Nat, NEW place \in Stage \ {"replace", "mark"},
              rjob' = [rjob EXCEPT ![p] = [rjob[p] EXCEPT !.over = n]],
              rpc' = [rpc EXCEPT ![p] = place], UNCHANGED logs, UNCHANGED today
       PROVE  Moves(p)
  <2>1. [rjob[p] EXCEPT !.over = n] \in Job
    BY <1>1 DEF Job
  <2>. QED  BY <1>12, <2>1 DEF Moves
<1>13. CASE Rollups!CountRollups(p)
  <2> DEFINE n == Rollups!over(Rollups!Cardinality(Rollups!present), MaxRollups)
  <2>1. Rollups!present \subseteq Day
    BY DEF Rollups!present
  <2>2. Rollups!Cardinality(Rollups!present) \in Int
    <3>1. IsFiniteSet(Rollups!present)
      BY <2>1, FS_Subset DEF RollupsAssumption
    <3>2. Cardinality(Rollups!present) \in Int
      BY <3>1, FS_CardinalityType
    <3>. QED  BY <3>2, SameCardinality
  <2>3. n \in Nat
    BY <2>2, CapIsNat DEF RollupsAssumption
  <2>4. rjob' = [rjob EXCEPT ![p] = [rjob[p] EXCEPT !.over = n]]
    BY <1>13 DEF Rollups!CountRollups, Rollups!remember
  <2> HIDE DEF n
  <2>5. rpc' = [rpc EXCEPT ![p] = "cap_rollups"] /\ UNCHANGED logs /\ UNCHANGED today
    BY <1>13 DEF Rollups!CountRollups, Rollups!goto, Rollups!env_vars
  <2>. QED  BY <1>12, <2>3, <2>4, <2>5 DEF Stage
<1>14. CASE Rollups!CapRollups(p)
  BY <1>2, <1>14 DEF Rollups!CapRollups, Rollups!goto, Rollups!env_vars, Stage
<1>15. CASE Rollups!CapCache(p)
  BY <1>2, <1>15 DEF Rollups!CapCache, Rollups!goto, Rollups!env_vars, Stage
<1>16. CASE Rollups!CountSources(p)
  <2> DEFINE n == Rollups!over(Len(sources), MaxSources)
  <2>1. Len(sources) \in Int
    BY DEF ScanTypes
  <2>2. n \in Nat
    BY <2>1, CapIsNat DEF RollupsAssumption
  <2>3. rjob' = [rjob EXCEPT ![p] = [rjob[p] EXCEPT !.over = n]]
    BY <1>16 DEF Rollups!CountSources, Rollups!remember
  <2> HIDE DEF n
  <2>4. rpc' = [rpc EXCEPT ![p] = "cap_sources"] /\ UNCHANGED logs /\ UNCHANGED today
    BY <1>16 DEF Rollups!CountSources, Rollups!goto, Rollups!env_vars
  <2>. QED  BY <1>12, <2>2, <2>3, <2>4 DEF Stage
<1>17. CASE Rollups!CapSources(p)
  <2>1. Rollups!no_job \in Job
    BY DEF Rollups!no_job, Rollups!Zero, Rollups!on_days, Job, Span
  <2>2. rpc' = [rpc EXCEPT ![p] = "idle"] /\ rjob' = [rjob EXCEPT ![p] = Rollups!no_job]
        /\ UNCHANGED logs /\ UNCHANGED today
    BY <1>17 DEF Rollups!CapSources, Rollups!goto, Rollups!env_vars
  <2>. QED  BY <2>1, <2>2 DEF Moves, Stage
<1>. QED
  BY <1>3, <1>4, <1>5, <1>6, <1>7, <1>8, <1>9, <1>10, <1>11, <1>13, <1>14, <1>15, <1>16, <1>17, <1>18
     DEF Rollups!Scan

LEMMA ScanRows ==
    ASSUME RollupsAssumption, ScanTypes, NEW p \in Proc, Rollups!Scan(p)
    PROVE  sources' \in Seq(Row) /\ scanned_files' \in Seq(Cached)
<1>1. sources \in Seq(Row) /\ scanned_files \in Seq(Cached)
  BY DEF ScanTypes
<1>2. CASE Rollups!ReplaceRollupSource(p)
  <2>1. sources' \in Seq(Row)
    BY <1>2, Replaces
  <2>. QED  BY <1>1, <1>2, <2>1 DEF Rollups!ReplaceRollupSource
<1>3. CASE Rollups!MarkSourceFileScanned(p)
  <2> DEFINE row == [file |-> Head(rjob[p].due).file, mtime |-> Rollups!scanned_mtime(p),
                     window |-> rjob[p].window]
  <2>1. rjob[p] \in Job /\ rjob[p].due # <<>>
    BY <1>3 DEF ScanTypes, Rollups!MarkSourceFileScanned
  <2>2. rjob[p].due \in Seq(Due) /\ rjob[p].window \in Span
    BY <2>1 DEF Job
  <2>3. Head(rjob[p].due) \in Due
    BY <2>1, <2>2
  <2>4. row \in Cached
    BY <2>2, <2>3 DEF Cached, Due, Rollups!scanned_mtime
  <2>5. scanned_files' \in {scanned_files, Append(scanned_files, row)} /\ UNCHANGED sources
    BY <1>3 DEF Rollups!MarkSourceFileScanned
  <2> HIDE DEF row
  <2>6. Append(scanned_files, row) \in Seq(Cached)
    BY <1>1, <2>4
  <2>. QED  BY <1>1, <2>5, <2>6
<1>4. CASE Rollups!PruneByRetention(p)
  <2>. PICK days : Rollups!drop_days(days)
    BY <1>4 DEF Rollups!PruneByRetention
  <2>. QED  BY Drops DEF CacheShrinks
<1>5. CASE Rollups!CapRollups(p)
  <2>. PICK days : Rollups!drop_days(days)
    BY <1>5 DEF Rollups!CapRollups
  <2>. QED  BY Drops DEF CacheShrinks
<1>6. CASE Rollups!CapCache(p)
  <2>1. Rollups!newest(scanned_files, MaxCache) \in Seq(Cached)
    BY <1>1, NewestRows DEF RollupsAssumption
  <2>. QED  BY <1>1, <1>6, <2>1 DEF Rollups!CapCache
<1>7. CASE Rollups!CapSources(p)
  BY <1>7, Cuts DEF CacheShrinks
<1>. QED
  BY <1>1, <1>2, <1>3, <1>4, <1>5, <1>6, <1>7
  DEF Rollups!Scan, Rollups!RebuildRollups, Rollups!DeleteSessions, Rollups!ListFiles,
      Rollups!SkipCached, Rollups!ScanFile, Rollups!FailScan, Rollups!EndScan, Rollups!CountRollups,
      Rollups!CountSources, Rollups!db_vars

LEMMA TypesStep == ASSUME RollupsAssumption, ScanTypes, [Rollups!Next]_(Rollups!vars) PROVE ScanTypes'
<1>1. sources \in Seq(Row) /\ scanned_files \in Seq(Cached)
  BY DEF ScanTypes
<1>2. ASSUME NEW p \in Proc, NEW w \in {Rollups!default_window} \cup Explicit, Rollups!Start(p, w)
      PROVE  ScanTypes'
  <2>1. Moves(p)
    BY <1>2, StartMoves
  <2>2. UNCHANGED <<sources, scanned_files>>
    BY <1>2 DEF Rollups!Start, Rollups!db_vars
  <2>. QED  BY <1>1, <2>1, <2>2, MovesType
<1>3. ASSUME NEW p \in Proc, Rollups!Scan(p) PROVE ScanTypes'
  BY <1>3, ScanMoves, ScanRows, MovesType
<1>4. ASSUME NEW p \in Proc, Rollups!Crash(p) PROVE ScanTypes'
  <2>1. Rollups!no_job \in Job
    BY DEF Rollups!no_job, Rollups!Zero, Rollups!on_days, Job, Span
  <2>2. Moves(p)
    BY <1>4, <2>1 DEF Rollups!Crash, Rollups!goto, Moves, Stage
  <2>3. UNCHANGED <<sources, scanned_files>>
    BY <1>4 DEF Rollups!Crash, Rollups!db_vars
  <2>. QED  BY <1>1, <2>2, <2>3, MovesType
<1>5. ASSUME NEW f \in File, NEW c \in Content, Rollups!Write(f, c) PROVE ScanTypes'
  <2>1. c.use \in [Day -> Nat] /\ {c.big, c.bad} \subseteq BOOLEAN
    BY DEF RollupsAssumption, FileContent
  <2>2. logs[f].mtime + 1 \in Nat /\ today \in Day
    BY DEF ScanTypes
  <2>3. logs' = [logs EXCEPT ![f] = [use |-> c.use, big |-> c.big, bad |-> c.bad,
                                     mtime |-> logs[f].mtime + 1, day |-> today]]
    BY <1>5 DEF Rollups!Write
  <2>4. logs' \in [File -> [use : [Day -> Nat], big : BOOLEAN, bad : BOOLEAN, mtime : Nat, day : Day]]
    BY <2>1, <2>2, <2>3 DEF ScanTypes
  <2>. QED  BY <1>5, <2>4 DEF ScanTypes, Rollups!Write, Rollups!db_vars
<1>6. CASE Rollups!NextDay
  BY <1>6 DEF ScanTypes, Rollups!NextDay, Rollups!db_vars
<1>7. CASE UNCHANGED Rollups!vars
  BY <1>7 DEF ScanTypes, Rollups!vars, Rollups!db_vars, Rollups!env_vars
<1>. QED  BY <1>2, <1>3, <1>4, <1>5, <1>6, <1>7 DEF Rollups!Next

LEMMA TypesHold == ASSUME RollupsAssumption PROVE Rollups!Spec => []ScanTypes
<1>1. Rollups!Init => ScanTypes
  BY TypesInit
<1>2. ScanTypes /\ [Rollups!Next]_(Rollups!vars) => ScanTypes'
  BY TypesStep
<1>. QED  BY <1>1, <1>2, PTL DEF Rollups!Spec

-----------------------------------------------------------------------------
(* Compaction.                                                             *)

CompactionInv == rpc \in [Proc -> Stage] /\ Rollups!CompactionComesFirst

LEMMA CompactionStep ==
    ASSUME CompactionInv, [Rollups!Next]_(Rollups!vars)
    PROVE  CompactionInv'
<1> DEFINE early == {"idle", "rebuild", "clear"}
           past(p) == rpc[p] \notin early
<1>1. rpc \in [Proc -> Stage] /\ ((sources # <<>> \/ \E p \in Proc : past(p)) => sessions = Rollups!Zero)
  BY DEF CompactionInv, Rollups!CompactionComesFirst
<1>2. SUFFICES /\ rpc' \in [Proc -> Stage]
               /\ (sources' # <<>> \/ \E p \in Proc : past(p)') => sessions' = Rollups!Zero
  BY DEF CompactionInv, Rollups!CompactionComesFirst, Rollups!Zero, Rollups!on_days
<1>3. ASSUME NEW p \in Proc, NEW place \in Stage, rpc' = [rpc EXCEPT ![p] = place],
             sessions' = sessions,
             (place \notin early \/ sources' # sources) => sessions = Rollups!Zero
      PROVE  /\ rpc' \in [Proc -> Stage]
             /\ (sources' # <<>> \/ \E x \in Proc : past(x)') => sessions' = Rollups!Zero
  <2>1. rpc' \in [Proc -> Stage] /\ \A x \in Proc : rpc'[x] = IF x = p THEN place ELSE rpc[x]
    BY <1>1, <1>3
  <2>2. ASSUME NEW x \in Proc, past(x)' PROVE sessions = Rollups!Zero
    BY <1>1, <1>3, <2>1, <2>2
  <2>3. ASSUME sources' # <<>> PROVE sessions = Rollups!Zero
    BY <1>1, <1>3, <2>3
  <2>. QED  BY <1>3, <2>1, <2>2, <2>3
<1>4. ASSUME NEW p \in Proc, NEW w, Rollups!Start(p, w)
      PROVE  /\ rpc' \in [Proc -> Stage]
             /\ (sources' # <<>> \/ \E x \in Proc : past(x)') => sessions' = Rollups!Zero
  <2>1. PICK place \in {"rebuild", "list"} :
            rpc' = [rpc EXCEPT ![p] = place] /\ (place = "list" => sessions = Rollups!Zero)
    BY <1>4 DEF Rollups!Start, Rollups!goto, Rollups!must_compact
  <2>2. sessions' = sessions /\ sources' = sources
    BY <1>4 DEF Rollups!Start, Rollups!db_vars
  <2>. QED  BY <1>3, <2>1, <2>2 DEF Stage
<1>5. ASSUME NEW p \in Proc, Rollups!Scan(p)
      PROVE  /\ rpc' \in [Proc -> Stage]
             /\ (sources' # <<>> \/ \E x \in Proc : past(x)') => sessions' = Rollups!Zero
  <2>1. CASE Rollups!DeleteSessions(p)
    BY <1>1, <2>1 DEF Rollups!DeleteSessions, Rollups!goto, Stage
  <2>2. CASE Rollups!RebuildRollups(p)
    BY <1>3, <2>2 DEF Rollups!RebuildRollups, Rollups!goto, Stage
  <2>3. CASE ~Rollups!DeleteSessions(p) /\ ~Rollups!RebuildRollups(p)
    <3>1. past(p) /\ sessions' = sessions
      BY <1>5, <2>3 DEF Rollups!Scan, Rollups!ListFiles, Rollups!SkipCached, Rollups!ScanFile, Rollups!FailScan,
         Rollups!ReplaceRollupSource, Rollups!MarkSourceFileScanned, Rollups!EndScan,
         Rollups!PruneByRetention, Rollups!CountRollups, Rollups!CapRollups, Rollups!CapCache,
         Rollups!CountSources, Rollups!CapSources, Rollups!db_vars
    <3>2. PICK place \in Stage : rpc' = [rpc EXCEPT ![p] = place]
      <4>1. rpc[p] \in Stage /\ rpc = [rpc EXCEPT ![p] = rpc[p]]
        BY <1>1
      <4>. QED
        BY <1>5, <2>3, <4>1 DEF Rollups!Scan, Rollups!ListFiles, Rollups!SkipCached, Rollups!ScanFile, Rollups!FailScan,
           Rollups!ReplaceRollupSource, Rollups!MarkSourceFileScanned, Rollups!EndScan,
           Rollups!PruneByRetention, Rollups!CountRollups, Rollups!CapRollups, Rollups!CapCache,
           Rollups!CountSources, Rollups!CapSources, Rollups!db_vars, Rollups!goto, Stage
    <3>. QED  BY <1>1, <1>3, <3>1, <3>2
  <2>. QED  BY <2>1, <2>2, <2>3
<1>6. ASSUME NEW p \in Proc, Rollups!Crash(p)
      PROVE  /\ rpc' \in [Proc -> Stage]
             /\ (sources' # <<>> \/ \E x \in Proc : past(x)') => sessions' = Rollups!Zero
  BY <1>3, <1>6 DEF Rollups!Crash, Rollups!goto, Rollups!db_vars, Stage
<1>7. ASSUME NEW f, NEW c, Rollups!Write(f, c)
      PROVE  /\ rpc' \in [Proc -> Stage]
             /\ (sources' # <<>> \/ \E x \in Proc : past(x)') => sessions' = Rollups!Zero
  BY <1>1, <1>7 DEF Rollups!Write, Rollups!db_vars
<1>8. CASE Rollups!NextDay
  BY <1>1, <1>8 DEF Rollups!NextDay, Rollups!db_vars
<1>9. CASE UNCHANGED Rollups!vars
  BY <1>1, <1>9 DEF Rollups!vars, Rollups!db_vars, Rollups!env_vars
<1>. QED  BY <1>4, <1>5, <1>6, <1>7, <1>8, <1>9 DEF Rollups!Next

\* UsageRollups: old sessions are folded in before the first scan of any process.
THEOREM CompactionIsFirst == Rollups!Spec => []Rollups!CompactionComesFirst
<1>1. Rollups!Init => CompactionInv
  BY DEF Rollups!Init, CompactionInv, Rollups!CompactionComesFirst, Stage
<1>2. CompactionInv /\ [Rollups!Next]_(Rollups!vars) => CompactionInv'
  BY CompactionStep
<1>3. CompactionInv => Rollups!CompactionComesFirst
  BY DEF CompactionInv
<1>. QED  BY <1>1, <1>2, <1>3, PTL DEF Rollups!Spec

-----------------------------------------------------------------------------
(* Sums.                                                                   *)

\* There are no old sessions, and no process looks for any.
NoPast == sessions = Rollups!Zero /\ \A p \in Proc : rpc[p] \notin {"rebuild", "clear"}

Summed == rollup \in [Day -> Nat] /\ \A d \in Day : rollup[d] = amount(sources, day_rows(d))

SumInv == ScanTypes /\ NoPast /\ Summed

LEMMA NoPastStep ==
    ASSUME ScanTypes, NoPast, [Rollups!Next]_(Rollups!vars)
    PROVE  NoPast'
<1>1. rpc \in [Proc -> Stage]
  BY DEF ScanTypes
<1>2. ASSUME NEW p \in Proc, NEW place \in Stage \ {"rebuild", "clear"},
             rpc' = [rpc EXCEPT ![p] = place], sessions' = sessions
      PROVE  NoPast'
  <2>1. \A x \in Proc : rpc'[x] = IF x = p THEN place ELSE rpc[x]
    BY <1>1, <1>2
  <2>. QED  BY <1>2, <2>1 DEF NoPast, Rollups!Zero, Rollups!on_days
<1>3. ASSUME NEW p \in Proc, NEW w, Rollups!Start(p, w) PROVE NoPast'
  <2>1. rpc' = [rpc EXCEPT ![p] = "list"] /\ sessions' = sessions
    BY <1>3 DEF Rollups!Start, Rollups!goto, Rollups!must_compact, Rollups!db_vars, NoPast
  <2>. QED  BY <1>2, <2>1 DEF Stage
<1>4. ASSUME NEW p \in Proc, Rollups!Scan(p) PROVE NoPast'
  <2>1. rpc[p] \in Stage \ {"rebuild", "clear"} /\ rpc = [rpc EXCEPT ![p] = rpc[p]]
    BY <1>1 DEF NoPast
  <2>2. /\ sessions' = sessions
        /\ \E place \in Stage \ {"rebuild", "clear"} : rpc' = [rpc EXCEPT ![p] = place]
    BY <1>4, <2>1 DEF Rollups!Scan, Rollups!RebuildRollups, Rollups!DeleteSessions,
       Rollups!ListFiles, Rollups!SkipCached, Rollups!ScanFile, Rollups!FailScan,
       Rollups!ReplaceRollupSource, Rollups!MarkSourceFileScanned, Rollups!EndScan,
       Rollups!PruneByRetention, Rollups!CountRollups, Rollups!CapRollups, Rollups!CapCache,
       Rollups!CountSources, Rollups!CapSources, Rollups!db_vars, Rollups!goto, Stage
  <2>. QED  BY <1>2, <2>2
<1>5. ASSUME NEW p \in Proc, Rollups!Crash(p) PROVE NoPast'
  BY <1>2, <1>5 DEF Rollups!Crash, Rollups!goto, Rollups!db_vars, Stage
<1>6. CASE UNCHANGED <<sessions, rpc>>
  BY <1>6 DEF NoPast, Rollups!Zero, Rollups!on_days
<1>7. CASE (\E f \in File, c \in Content : Rollups!Write(f, c)) \/ Rollups!NextDay \/ UNCHANGED Rollups!vars
  BY <1>6, <1>7 DEF Rollups!Write, Rollups!NextDay, Rollups!vars, Rollups!db_vars, Rollups!env_vars
<1>. QED  BY <1>3, <1>4, <1>5, <1>7 DEF Rollups!Next

LEMMA SummedStep ==
    ASSUME RollupsAssumption, SumInv, ScanTypes', [Rollups!Next]_(Rollups!vars)
    PROVE  Summed'
<1>1. ScanTypes /\ NoPast /\ rollup \in [Day -> Nat] /\ \A d \in Day : rollup[d] = amount(sources, day_rows(d))
  BY DEF SumInv, Summed
<1>2. \A d : amount(sources', day_rows(d)) \in Nat
  BY AmountType DEF ScanTypes, amount, pos
<1>3. ASSUME NEW p \in Proc, Rollups!ReplaceRollupSource(p) PROVE Summed'
  <2> DEFINE f == Head(rjob[p].due).file
             use == rjob[p].use
  <2>1. /\ f \in File /\ use \in [Day -> Nat]
        /\ rollup' = [d \in Day |-> rollup[d] + (use[d] - amount(sources, file_rows(f, d)))]
        /\ \A d \in Day : amount(sources', day_rows(d))
               = (amount(sources, day_rows(d)) - amount(sources, file_rows(f, d))) + use[d]
    BY <1>1, <1>3, Replaces
  <2> HIDE DEF f, use
  <2>2. ASSUME NEW d \in Day PROVE rollup'[d] = amount(sources', day_rows(d))
    <3>1. /\ amount(sources, file_rows(f, d)) \in Int /\ amount(sources, day_rows(d)) \in Int
          /\ use[d] \in Int
      BY <1>1, <2>1, HeldAmount
    <3>2. rollup'[d] = amount(sources, day_rows(d)) + (use[d] - amount(sources, file_rows(f, d)))
      BY <1>1, <2>1
    <3>. QED  BY <2>1, <3>1, <3>2
  <2>3. rollup' = [d \in Day |-> rollup'[d]]
    BY <2>1
  <2>. QED  BY <1>2, <2>2, <2>3 DEF Summed
<1>4. ASSUME NEW days, Rollups!drop_days(days) PROVE Summed'
  <2>1. /\ rollup' = [d \in Day |-> IF d \in days THEN 0 ELSE rollup[d]]
        /\ \A d \in Day : amount(sources', day_rows(d))
               = IF d \in days THEN 0 ELSE amount(sources, day_rows(d))
    BY <1>1, <1>4, Drops
  <2>. QED  BY <1>1, <2>1 DEF Summed
<1>5. ASSUME NEW p \in Proc, Rollups!CapSources(p) PROVE Summed'
  <2>1. rollup' = [d \in Day |->
                  rollup[d] - (amount(sources, day_rows(d)) - amount(sources', day_rows(d)))]
    BY <1>1, <1>5, Cuts
  <2>2. ASSUME NEW d \in Day PROVE rollup'[d] = amount(sources', day_rows(d))
    BY <1>1, <1>2, <2>1
  <2>3. rollup' = [d \in Day |-> rollup'[d]]
    BY <2>1
  <2>. QED  BY <1>2, <2>2, <2>3 DEF Summed
<1>6. CASE UNCHANGED <<rollup, sources>>
  BY <1>1, <1>6 DEF Summed
<1>7. ASSUME NEW p \in Proc, Rollups!Scan(p) PROVE Summed'
  <2>1. rpc[p] # "rebuild"
    BY <1>1 DEF NoPast
  <2>. QED
    BY <1>3, <1>4, <1>5, <1>6, <1>7, <2>1 DEF Rollups!Scan, Rollups!RebuildRollups, Rollups!DeleteSessions,
       Rollups!ListFiles, Rollups!SkipCached, Rollups!ScanFile, Rollups!FailScan, Rollups!MarkSourceFileScanned,
       Rollups!EndScan, Rollups!PruneByRetention, Rollups!CountRollups, Rollups!CapRollups,
       Rollups!CapCache, Rollups!CountSources, Rollups!db_vars
<1>8. CASE ~\E p \in Proc : Rollups!Scan(p)
  BY <1>6, <1>8 DEF Rollups!Next, Rollups!Start, Rollups!Crash, Rollups!Write, Rollups!NextDay,
     Rollups!vars, Rollups!db_vars
<1>. QED  BY <1>7, <1>8

\* UsageRollups: in a database without a past, every total is the sum of the contributions
\* kept for it, and so is never negative.
THEOREM TotalsStaySums ==
    ASSUME RollupsAssumption, Upgraded = FALSE
    PROVE  Rollups!Spec => [](Rollups!RollupIsSumOfSources /\ rollup \in [Day -> Nat])
<1>1. ASSUME Rollups!Init PROVE SumInv
  <2>1. ScanTypes
    BY <1>1, TypesInit
  <2>2. NoPast
    BY <1>1 DEF Rollups!Init, NoPast
  <2>3. rollup = [d \in Day |-> 0] /\ sources = <<>>
    BY <1>1 DEF Rollups!Init, Rollups!Zero
  <2>4. \A d : pos(<<>>, day_rows(d)) = {}
    BY DEF pos
  <2>5. \A d : amount(sources, day_rows(d)) = 0
    BY <2>3, <2>4, TotalEmpty DEF amount
  <2>. QED  BY <2>1, <2>2, <2>3, <2>5 DEF SumInv, Summed
<1>2. SumInv /\ [Rollups!Next]_(Rollups!vars) => SumInv'
  BY TypesStep, NoPastStep, SummedStep DEF SumInv
<1>3. SumInv => Rollups!RollupIsSumOfSources /\ rollup \in [Day -> Nat]
  BY DayTotal DEF SumInv, Summed, Rollups!RollupIsSumOfSources
<1>. QED  BY <1>1, <1>2, <1>3, PTL DEF Rollups!Spec

-----------------------------------------------------------------------------
(* The cache of scanned files.                                             *)

entries(q) == {q[i] : i \in DOMAIN q}

\* The default window, of today or of a day before.
past_window(w) == w.from = w.to - Lookback + 1 /\ w.to <= today

\* What is kept of the file is what it uses on the days of w.
counted(f, w) == \A d \in Day : Rollups!inside(d, w) => amount(sources, file_rows(f, d)) = logs[f].use[d]

\* A cache row is not newer than its file; one of today's window that is as new as its
\* file says that the file is counted.
CacheInv ==
    \A c \in entries(scanned_files) :
        /\ past_window(c.window) /\ c.mtime <= logs[c.file].mtime
        /\ c.window.to = today /\ c.mtime = logs[c.file].mtime /\ ~logs[c.file].big
              => counted(c.file, c.window)

\* No cache row is newer than the list of a process, nor is its window.
DueInv(p) ==
    /\ \A e \in entries(rjob[p].due) :
          /\ e.mtime <= logs[e.file].mtime
          /\ e.mtime = logs[e.file].mtime => e.big = logs[e.file].big
          /\ \A g \in entries(rjob[p].due) : g.file = e.file => g.mtime = e.mtime
          /\ \A c \in entries(scanned_files) : c.file = e.file => c.mtime <= e.mtime
    /\ rpc[p] # "idle" =>
          /\ past_window(rjob[p].window)
          /\ \A c \in entries(scanned_files) : c.window.to <= rjob[p].window.to

\* The file at work: unless it was written meanwhile, what was read is what it holds,
\* and what is kept of it once it was replaced.
HeadInv(p) ==
    /\ rpc[p] = "replace" =>
          /\ ~Rollups!skips(p)
          /\ Head(rjob[p].due).mtime = logs[Head(rjob[p].due).file].mtime =>
                \A d \in Day : Rollups!inside(d, rjob[p].window) =>
                    rjob[p].use[d] = logs[Head(rjob[p].due).file].use[d]
    /\ /\ rpc[p] = "mark" /\ ~Head(rjob[p].due).big
       /\ Head(rjob[p].due).mtime = logs[Head(rjob[p].due).file].mtime
       => counted(Head(rjob[p].due).file, rjob[p].window)

OneProcess == \A p, q \in Proc : p = q

SkipInv == ScanTypes /\ CacheInv /\ \A p \in Proc : DueInv(p) /\ HeadInv(p)

LEMMA EntryTypes ==
    ASSUME ScanTypes
    PROVE  /\ \A c \in entries(scanned_files) : c \in Cached /\ c.file \in File /\ c.mtime \in Nat
                /\ c.window.to \in Int /\ c.window.from \in Int
           /\ \A p \in Proc : /\ rjob[p].due \in Seq(Due)
                /\ rjob[p].window.to \in Int /\ rjob[p].window.from \in Int
                /\ \A e \in entries(rjob[p].due) : e \in Due /\ e.file \in File /\ e.mtime \in Nat
                                                     /\ e.big \in BOOLEAN
           /\ \A f \in File : logs[f].mtime \in Nat /\ logs[f].big \in BOOLEAN
           /\ today \in Day
<1>1. \A c \in entries(scanned_files) : c \in Cached
  BY DEF ScanTypes, entries
<1>2. \A p \in Proc : rjob[p] \in Job
  BY DEF ScanTypes
<1>3. \A p \in Proc : rjob[p].due \in Seq(Due) /\ rjob[p].window \in Span
  BY <1>2 DEF Job
<1>4. \A p \in Proc : \A e \in entries(rjob[p].due) : e \in Due
  BY <1>3 DEF entries
<1>5. \A f \in File : logs[f].mtime \in Nat /\ logs[f].big \in BOOLEAN
  BY DEF ScanTypes
<1>. QED  BY <1>1, <1>3, <1>4, <1>5 DEF Cached, Due, Span, ScanTypes

LEMMA HeadIsEntry ==
    ASSUME ScanTypes, NEW p \in Proc, rjob[p].due # <<>>
    PROVE  /\ Head(rjob[p].due) \in entries(rjob[p].due)
           /\ entries(Tail(rjob[p].due)) \subseteq entries(rjob[p].due)
<1> DEFINE q == rjob[p].due
<1>1. q \in Seq(Due) /\ q # <<>>
  BY EntryTypes
<1> HIDE DEF q
<1>2. Head(q) = q[1] /\ 1 \in DOMAIN q
  BY <1>1
<1>3. \A i \in DOMAIN Tail(q) : i + 1 \in DOMAIN q /\ Tail(q)[i] = q[i + 1]
  BY <1>1
<1>. QED  BY <1>2, <1>3 DEF entries, q

\* Steps that leave the files alone and forget what they take away.
LEMMA Quiet ==
    ASSUME RollupsAssumption, OneProcess, SkipInv, ScanTypes', UNCHANGED <<logs, today>>,
           NEW p \in Proc, NEW place \in Stage \ {"replace", "mark"}, NEW memory \in Job,
           rpc' = [rpc EXCEPT ![p] = place], rjob' = [rjob EXCEPT ![p] = memory],
           entries(memory.due) \subseteq entries(rjob[p].due),
           place = "idle" \/ (rpc[p] # "idle" /\ memory.window = rjob[p].window),
           \A c \in entries(scanned_files') : c \in entries(scanned_files) /\ untouched(c.file)
    PROVE  SkipInv'
<1>1. rpc'[p] = place /\ rjob'[p] = memory /\ \A x \in Proc : x = p
  BY DEF SkipInv, ScanTypes, OneProcess
<1>2. ASSUME NEW c \in entries(scanned_files')
      PROVE  /\ past_window(c.window)' /\ c.mtime <= logs'[c.file].mtime
             /\ c.window.to = today' /\ c.mtime = logs'[c.file].mtime /\ ~logs'[c.file].big
                    => counted(c.file, c.window)'
  BY <1>2 DEF SkipInv, CacheInv, past_window, counted, untouched, Rollups!inside
<1>3. DueInv(p)'
  BY <1>1 DEF SkipInv, DueInv, past_window
<1>4. HeadInv(p)'
  BY <1>1 DEF HeadInv
<1>. QED  BY <1>1, <1>2, <1>3, <1>4 DEF SkipInv, CacheInv

LEMMA QuietCache ==
    ASSUME CacheShrinks \/ UNCHANGED <<sources, scanned_files>>
    PROVE  \A c \in entries(scanned_files') : c \in entries(scanned_files) /\ untouched(c.file)
BY DEF CacheShrinks, entries, untouched

\* The steps of a scan that are not about a file that is read.
LEMMA QuietSteps ==
    ASSUME RollupsAssumption, OneProcess, SkipInv, ScanTypes', NEW p \in Proc, Rollups!Scan(p),
           ~Rollups!ListFiles(p), ~Rollups!ScanFile(p), ~Rollups!ReplaceRollupSource(p),
           ~Rollups!MarkSourceFileScanned(p)
    PROVE  SkipInv'
<1>1. ScanTypes /\ rjob[p] \in Job /\ rjob = [rjob EXCEPT ![p] = rjob[p]] /\ rpc = [rpc EXCEPT ![p] = rpc[p]]
  BY DEF SkipInv, ScanTypes
<1>2. UNCHANGED <<logs, today>>
  BY ScanMoves, <1>1 DEF Moves
<1>3. rpc[p] # "idle"
  BY DEF Rollups!Scan, Rollups!RebuildRollups, Rollups!DeleteSessions, Rollups!SkipCached,
     Rollups!FailScan, Rollups!EndScan,
     Rollups!PruneByRetention, Rollups!CountRollups, Rollups!CapRollups, Rollups!CapCache,
     Rollups!CountSources, Rollups!CapSources
<1>4. ASSUME NEW place \in Stage \ {"replace", "mark"}, rpc' = [rpc EXCEPT ![p] = place],
             UNCHANGED rjob, CacheShrinks \/ UNCHANGED <<sources, scanned_files>>
      PROVE  SkipInv'
  BY <1>1, <1>2, <1>3, <1>4, Quiet, QuietCache
<1>5. CASE Rollups!RebuildRollups(p)
  BY <1>4, <1>5 DEF Rollups!RebuildRollups, Rollups!goto, Stage
<1>6. CASE Rollups!DeleteSessions(p)
  BY <1>4, <1>6 DEF Rollups!DeleteSessions, Rollups!goto, Stage
<1>7. CASE Rollups!SkipCached(p)
  <2> DEFINE memory == [rjob[p] EXCEPT !.due = Tail(rjob[p].due)]
  <2>1. rjob' = [rjob EXCEPT ![p] = memory]
    BY <1>7 DEF Rollups!SkipCached, Rollups!remember
  <2>2. rjob[p].due \in Seq(Due) /\ rjob[p].due # <<>>
    BY <1>1, <1>7 DEF Job, Rollups!SkipCached
  <2>3. Tail(rjob[p].due) \in Seq(Due)
    BY <2>2
  <2>4. memory \in Job /\ memory.due = Tail(rjob[p].due) /\ memory.window = rjob[p].window
    BY <1>1, <2>3 DEF Job
  <2> HIDE DEF memory
  <2>5. entries(memory.due) \subseteq entries(rjob[p].due)
    BY <1>1, <2>2, <2>4, HeadIsEntry
  <2>6. rpc' = [rpc EXCEPT ![p] = "scan"] /\ UNCHANGED <<sources, scanned_files>>
    BY <1>1, <1>7 DEF Rollups!SkipCached, Rollups!db_vars
  <2>7. "scan" \in Stage \ {"replace", "mark"}
    BY DEF Stage
  <2>. QED  BY <1>2, <1>3, <2>1, <2>4, <2>5, <2>6, <2>7, Quiet, QuietCache
<1>8. CASE Rollups!EndScan(p)
  BY <1>4, <1>8 DEF Rollups!EndScan, Rollups!goto, Rollups!db_vars, Stage
<1>9. CASE Rollups!PruneByRetention(p)
  <2>1. CacheShrinks
    <3>. PICK days : Rollups!drop_days(days)
      BY <1>9 DEF Rollups!PruneByRetention
    <3>. QED  BY <1>1, Drops
  <2>. QED  BY <1>4, <1>9, <2>1 DEF Rollups!PruneByRetention, Rollups!goto, Rollups!env_vars, Stage
<1>10. CASE Rollups!CapRollups(p)
  <2>1. CacheShrinks
    <3>. PICK days : Rollups!drop_days(days)
      BY <1>10 DEF Rollups!CapRollups
    <3>. QED  BY <1>1, Drops
  <2>. QED  BY <1>4, <1>10, <2>1 DEF Rollups!CapRollups, Rollups!goto, Rollups!env_vars, Stage
<1>11. CASE Rollups!CapCache(p)
  <2>1. scanned_files \in Seq(Cached) /\ MaxCache \in Int
    BY <1>1 DEF ScanTypes, RollupsAssumption
  <2>2. /\ scanned_files' \in Seq(Cached)
        /\ \A i \in DOMAIN scanned_files' : \E k \in DOMAIN scanned_files : scanned_files'[i] = scanned_files[k]
    BY <1>11, <2>1, NewestRows DEF Rollups!CapCache
  <2>3. sources' = sources
    BY <1>11 DEF Rollups!CapCache
  <2>4. CacheShrinks
    BY <2>2, <2>3 DEF CacheShrinks, untouched
  <2>. QED  BY <1>4, <1>11, <2>4 DEF Rollups!CapCache, Rollups!goto, Stage
<1>12. ASSUME NEW n, NEW place \in Stage \ {"replace", "mark"}, rpc' = [rpc EXCEPT ![p] = place],
              rjob' = [rjob EXCEPT ![p] = [rjob[p] EXCEPT !.over = n]],
              UNCHANGED <<sources, scanned_files>>
       PROVE  SkipInv'
  <2> DEFINE memory == [rjob[p] EXCEPT !.over = n]
  <2>1. rjob'[p] = memory
    BY <1>1, <1>12 DEF ScanTypes
  <2>2. memory \in Job
    <3> HIDE DEF memory
    <3>. QED  BY <2>1 DEF ScanTypes
  <2>3. memory.due = rjob[p].due /\ memory.window = rjob[p].window
    BY <1>1 DEF Job
  <2> HIDE DEF memory
  <2>4. rjob' = [rjob EXCEPT ![p] = memory]
    BY <1>12 DEF memory
  <2>. QED  BY <1>2, <1>3, <1>12, <2>2, <2>3, <2>4, Quiet, QuietCache
<1>13. CASE Rollups!CountRollups(p)
  <2>1. "cap_rollups" \in Stage \ {"replace", "mark"}
    BY DEF Stage
  <2>. QED  BY <1>12, <1>13, <2>1 DEF Rollups!CountRollups, Rollups!goto, Rollups!remember, Rollups!db_vars
<1>14. CASE Rollups!CountSources(p)
  <2>1. "cap_sources" \in Stage \ {"replace", "mark"}
    BY DEF Stage
  <2>. QED  BY <1>12, <1>14, <2>1 DEF Rollups!CountSources, Rollups!goto, Rollups!remember, Rollups!db_vars
<1>16. CASE Rollups!FailScan(p)
  <2>1. Rollups!no_job \in Job /\ Rollups!no_job.due = <<>>
    BY DEF Rollups!no_job, Rollups!Zero, Rollups!on_days, Job, Span
  <2>2. entries(Rollups!no_job.due) \subseteq entries(rjob[p].due)
    BY <2>1 DEF entries
  <2>3. /\ rpc' = [rpc EXCEPT ![p] = "idle"] /\ rjob' = [rjob EXCEPT ![p] = Rollups!no_job]
        /\ UNCHANGED <<sources, scanned_files>>
    BY <1>16 DEF Rollups!FailScan, Rollups!goto, Rollups!db_vars
  <2>4. "idle" \in Stage \ {"replace", "mark"}
    BY DEF Stage
  <2>. QED  BY <1>2, <2>1, <2>2, <2>3, <2>4, Quiet, QuietCache
<1>15. CASE Rollups!CapSources(p)
  <2>1. CacheShrinks
    BY <1>1, <1>15, Cuts
  <2>2. Rollups!no_job \in Job /\ Rollups!no_job.due = <<>>
    BY DEF Rollups!no_job, Rollups!Zero, Rollups!on_days, Job, Span
  <2>3. entries(Rollups!no_job.due) \subseteq entries(rjob[p].due)
    BY <2>2 DEF entries
  <2>4. rpc' = [rpc EXCEPT ![p] = "idle"] /\ rjob' = [rjob EXCEPT ![p] = Rollups!no_job]
    BY <1>15 DEF Rollups!CapSources, Rollups!goto
  <2>5. "idle" \in Stage \ {"replace", "mark"}
    BY DEF Stage
  <2>. QED  BY <1>2, <2>1, <2>2, <2>3, <2>4, <2>5, Quiet, QuietCache
<1>. QED
  BY <1>5, <1>6, <1>7, <1>8, <1>9, <1>10, <1>11, <1>13, <1>14, <1>15, <1>16 DEF Rollups!Scan

\* Steps that leave files, rows and cache alone leave what the cache says alone.
LEMMA SameCache ==
    ASSUME CacheInv, UNCHANGED <<logs, today, sources, scanned_files>>
    PROVE  CacheInv'
BY DEF CacheInv, past_window, counted, Rollups!inside, entries

LEMMA ListStep ==
    ASSUME RollupsAssumption, OneProcess, SkipInv, ScanTypes', NEW p \in Proc, Rollups!ListFiles(p)
    PROVE  SkipInv'
<1> DEFINE D == {[file |-> f, mtime |-> logs[f].mtime, big |-> logs[f].big] :
                     f \in Rollups!listed(rjob[p].window)}
           due == Rollups!SetToSeq(D)
<1>1. /\ rpc[p] = "list" /\ rpc' = [rpc EXCEPT ![p] = "scan"]
      /\ rjob' = [rjob EXCEPT ![p].left = MaxFiles, ![p].due = due]
      /\ UNCHANGED <<logs, today, sources, scanned_files>>
  BY DEF Rollups!ListFiles, Rollups!goto, Rollups!db_vars, Rollups!env_vars
<1>2. /\ ScanTypes /\ rjob \in [Proc -> Job] /\ rpc \in [Proc -> Stage]
      /\ \A x \in Proc : x = p
  BY DEF SkipInv, ScanTypes, OneProcess
<1>3. IsFiniteSet(D)
  <2> DEFINE F == Rollups!listed(rjob[p].window)
             entry == [f \in F |-> [file |-> f, mtime |-> logs[f].mtime, big |-> logs[f].big]]
  <2>1. IsFiniteSet(F)
    <3>1. F \subseteq File
      BY DEF Rollups!listed
    <3>. QED  BY <3>1, FS_Subset DEF RollupsAssumption
  <2>2. entry \in Surjection(F, D)
    BY DEF Surjection
  <2> HIDE DEF F, D, entry
  <2>. QED  BY <2>1, <2>2, FS_Surjection
<1>4. \A e \in D : e.file \in File /\ e.mtime = logs[e.file].mtime /\ e.big = logs[e.file].big
  <2> DEFINE F == Rollups!listed(rjob[p].window)
  <2>1. F \subseteq File
    BY DEF Rollups!listed
  <2>2. ASSUME NEW e \in D PROVE e.file \in File /\ e.mtime = logs[e.file].mtime /\ e.big = logs[e.file].big
    <3>1. PICK f \in F : e = [file |-> f, mtime |-> logs[f].mtime, big |-> logs[f].big]
      OBVIOUS
    <3> HIDE DEF D, F
    <3>. QED  BY <2>1, <3>1
  <2>. QED  BY <2>2
<1>5. entries(due) \subseteq D
  <2> HIDE DEF D
  <2>1. due \in [1 .. Cardinality(D) -> D]
    BY <1>3, SetToSeqLists
  <2> HIDE DEF due
  <2>. QED  BY <2>1 DEF entries
<1> HIDE DEF D, due
<1>6. rpc'[p] = "scan" /\ rjob'[p].due = due /\ rjob'[p].window = rjob[p].window
  BY <1>1, <1>2 DEF Job
<1>7. CacheInv'
  BY <1>1, SameCache DEF SkipInv
<1>8. DueInv(p)'
  <2>1. ASSUME NEW e \in entries(due)
        PROVE  /\ e.mtime <= logs[e.file].mtime
               /\ e.mtime = logs[e.file].mtime => e.big = logs[e.file].big
               /\ \A g \in entries(due) : g.file = e.file => g.mtime = e.mtime
               /\ \A c \in entries(scanned_files) : c.file = e.file => c.mtime <= e.mtime
    <3>1. e.file \in File /\ e.mtime = logs[e.file].mtime /\ e.mtime \in Nat
      BY <1>2, <1>4, <1>5, EntryTypes
    <3>. QED  BY <1>4, <1>5, <3>1 DEF SkipInv, CacheInv
  <2>2. /\ past_window(rjob[p].window)
        /\ \A c \in entries(scanned_files) : c.window.to <= rjob[p].window.to
    BY <1>1 DEF SkipInv, DueInv
  <2>3. UNCHANGED <<logs, today, scanned_files>>
    BY <1>1
  <2>4. past_window(rjob[p].window)'
    BY <1>6, <2>2, <2>3 DEF past_window
  <2>. QED  BY <1>6, <2>1, <2>2, <2>3, <2>4 DEF DueInv
<1>9. HeadInv(p)'
  BY <1>6 DEF HeadInv
<1>. QED  BY <1>2, <1>7, <1>8, <1>9 DEF SkipInv

LEMMA ScanStep ==
    ASSUME OneProcess, SkipInv, ScanTypes', NEW p \in Proc, Rollups!ScanFile(p)
    PROVE  SkipInv'
<1> DEFINE e == Head(rjob[p].due)
           use == [d \in Day |-> IF Rollups!inside(d, rjob[p].window) THEN logs[e.file].use[d] ELSE 0]
<1>1. /\ rpc[p] = "scan" /\ rpc' = [rpc EXCEPT ![p] = IF e.big THEN "mark" ELSE "replace"]
      /\ rjob' = [rjob EXCEPT ![p].left = @ - 1, ![p].use = use]
      /\ ~Rollups!skips(p)
      /\ UNCHANGED <<logs, today, sources, scanned_files>>
  BY DEF Rollups!ScanFile, Rollups!goto, Rollups!db_vars, Rollups!env_vars, Rollups!on_days
<1>2. /\ ScanTypes /\ rjob \in [Proc -> Job] /\ rpc \in [Proc -> Stage]
      /\ \A x \in Proc : x = p
  BY DEF SkipInv, ScanTypes, OneProcess
<1>3. \A d \in Day : Rollups!inside(d, rjob[p].window) => use[d] = logs[e.file].use[d]
  OBVIOUS
<1> HIDE DEF use
<1>4. /\ rpc'[p] = (IF e.big THEN "mark" ELSE "replace")
      /\ rjob'[p].due = rjob[p].due /\ rjob'[p].window = rjob[p].window /\ rjob'[p].use = use
  BY <1>1, <1>2 DEF Job
<1>5. CacheInv'
  BY <1>1, SameCache DEF SkipInv
<1>6. DueInv(p)'
  <2> HIDE DEF e
  <2>1. DueInv(p) /\ rpc[p] # "idle"
    BY <1>1 DEF SkipInv
  <2>2. UNCHANGED <<logs, today, scanned_files>>
    BY <1>1
  <2>3. past_window(rjob[p].window)'
    BY <1>4, <2>1, <2>2 DEF DueInv, past_window
  <2>. QED  BY <1>4, <2>1, <2>2, <2>3 DEF DueInv
<1>7. HeadInv(p)'
  <2>1. Head(rjob'[p].due) = e
    BY <1>4
  <2>2. ~Rollups!skips(p)'
    BY <1>1, <1>4, <2>1 DEF Rollups!skips, Rollups!cached, Rollups!Range
  <2> HIDE DEF e
  <2>3. CASE e.big
    BY <1>4, <2>1, <2>3 DEF HeadInv
  <2>4. CASE ~e.big
    <3>1. rpc'[p] = "replace"
      BY <1>4, <2>4
    <3>2. \A d \in Day : Rollups!inside(d, rjob'[p].window) => rjob'[p].use[d] = logs'[e.file].use[d]
      BY <1>1, <1>3, <1>4
    <3>. QED  BY <2>1, <2>2, <3>1, <3>2 DEF HeadInv
  <2>. QED  BY <2>3, <2>4
<1>. QED  BY <1>2, <1>5, <1>6, <1>7 DEF SkipInv

LEMMA ReplaceStep ==
    ASSUME RollupsAssumption, OneProcess, SkipInv, ScanTypes', NEW p \in Proc, Rollups!ReplaceRollupSource(p)
    PROVE  SkipInv'
<1> DEFINE e == Head(rjob[p].due)
           w == rjob[p].window
<1>1. /\ ScanTypes /\ rjob \in [Proc -> Job] /\ rpc \in [Proc -> Stage] /\ \A x \in Proc : x = p
      /\ CacheInv /\ DueInv(p) /\ HeadInv(p)
  BY DEF SkipInv, ScanTypes, OneProcess
<1>2. /\ rpc[p] = "replace" /\ rpc'[p] = "mark"
      /\ UNCHANGED <<logs, today, scanned_files, rjob>>
  BY <1>1 DEF Rollups!ReplaceRollupSource, Rollups!goto, Rollups!env_vars
<1>3. /\ e.file \in File /\ rjob[p].use \in [Day -> Nat]
      /\ \A g \in File, d \in Day : amount(sources', file_rows(g, d))
             = IF g = e.file THEN rjob[p].use[d] ELSE amount(sources, file_rows(g, d))
  BY <1>1, Replaces
<1>4. e \in entries(rjob[p].due) /\ ~Rollups!skips(p)
  BY <1>1, <1>2, HeadIsEntry DEF ScanTypes, HeadInv
<1>5. ASSUME NEW c \in entries(scanned_files), c.file = e.file, c.window.to = today,
             c.mtime = logs[c.file].mtime
      PROVE  FALSE
  <2>1. /\ c.mtime \in Nat /\ e.mtime \in Nat /\ c.window.to \in Int /\ c.window.from \in Int
        /\ w.to \in Int /\ w.from \in Int /\ today \in Int /\ Lookback \in Int
    BY <1>1, <1>4, EntryTypes DEF RollupsAssumption
  <2>2. c.mtime <= e.mtime /\ e.mtime <= logs[e.file].mtime
    BY <1>1, <1>4, <1>5 DEF DueInv
  <2>3. c.mtime = e.mtime
    BY <1>5, <2>1, <2>2
  <2>4. /\ past_window(w) /\ past_window(c.window) /\ c.window.to <= w.to
    BY <1>1, <1>2 DEF DueInv, CacheInv
  <2>5. c.window.to = w.to /\ c.window.from = w.from
    BY <1>5, <2>1, <2>4 DEF past_window
  <2> HIDE DEF e, w
  <2>6. Rollups!cached(e.file, e.mtime, w)
    <3>1. c \in Rollups!Range(scanned_files)
      BY DEF entries, Rollups!Range
    <3>2. c.window.from <= w.from /\ w.to <= c.window.to
      BY <2>1, <2>5
    <3>. QED  BY <1>5, <2>3, <3>1, <3>2 DEF Rollups!cached
  <2>. QED  BY <1>4, <2>6 DEF Rollups!skips, e, w
<1>6. CacheInv'
  <2>1. ASSUME NEW c \in entries(scanned_files), c.window.to = today, c.mtime = logs[c.file].mtime,
               ~logs[c.file].big
        PROVE  counted(c.file, c.window)'
    <3>1. c.file # e.file /\ c.file \in File
      BY <1>1, <1>5, <2>1, EntryTypes
    <3>2. counted(c.file, c.window)
      BY <1>1, <2>1 DEF CacheInv
    <3> HIDE DEF e
    <3>. QED  BY <1>2, <1>3, <3>1, <3>2 DEF counted, Rollups!inside
  <2>. QED  BY <1>1, <1>2, <2>1 DEF CacheInv, past_window
<1>7. DueInv(p)'
  BY <1>1, <1>2 DEF DueInv, past_window
<1>8. HeadInv(p)'
  <2>1. ASSUME e.mtime = logs[e.file].mtime PROVE counted(e.file, w)'
    <3>1. \A d \in Day : Rollups!inside(d, w) => rjob[p].use[d] = logs[e.file].use[d]
      BY <1>1, <1>2, <2>1 DEF HeadInv
    <3>. QED  BY <1>2, <1>3, <3>1 DEF counted, Rollups!inside
  <2>. QED  BY <1>2, <2>1 DEF HeadInv
<1>. QED  BY <1>1, <1>6, <1>7, <1>8 DEF SkipInv

LEMMA MarkStep ==
    ASSUME OneProcess, SkipInv, ScanTypes', NEW p \in Proc, Rollups!MarkSourceFileScanned(p)
    PROVE  SkipInv'
<1> DEFINE e == Head(rjob[p].due)
           w == rjob[p].window
           row == [file |-> e.file, mtime |-> e.mtime, window |-> w]
<1>1. /\ ScanTypes /\ rjob \in [Proc -> Job] /\ rpc \in [Proc -> Stage] /\ \A x \in Proc : x = p
      /\ CacheInv /\ DueInv(p) /\ HeadInv(p)
  BY DEF SkipInv, ScanTypes, OneProcess
<1>2. /\ rpc[p] = "mark" /\ rpc'[p] = "scan" /\ rjob'[p] = [rjob[p] EXCEPT !.due = Tail(rjob[p].due)]
      /\ scanned_files' \in {scanned_files, Append(scanned_files, row)}
      /\ UNCHANGED <<logs, today, sources>>
  BY <1>1 DEF Rollups!MarkSourceFileScanned, Rollups!goto, Rollups!remember, Rollups!scanned_mtime,
     Rollups!env_vars
<1>3. rjob'[p].due = Tail(rjob[p].due) /\ rjob'[p].window = w
  BY <1>1, <1>2 DEF Job
<1>4. e \in entries(rjob[p].due) /\ entries(rjob'[p].due) \subseteq entries(rjob[p].due)
  <2>1. rjob[p].due # <<>>
    BY <1>1, <1>2 DEF ScanTypes
  <2>. QED  BY <1>1, <1>3, <2>1, HeadIsEntry
<1>5. /\ e.mtime <= logs[e.file].mtime
      /\ e.mtime = logs[e.file].mtime => e.big = logs[e.file].big
      /\ past_window(w)
      /\ \A g \in entries(rjob[p].due) : e.file = g.file => e.mtime = g.mtime
  BY <1>1, <1>2, <1>4 DEF DueInv
<1>6. e.mtime = logs[e.file].mtime /\ ~logs[e.file].big => counted(e.file, w)
  BY <1>1, <1>2, <1>5 DEF HeadInv
<1>7. entries(scanned_files') \subseteq entries(scanned_files) \cup {row}
  <2> HIDE DEF row
  <2>1. scanned_files \in Seq(Cached)
    BY <1>1 DEF ScanTypes
  <2>2. \A i \in DOMAIN Append(scanned_files, row) :
            Append(scanned_files, row)[i] = row \/
            (i \in DOMAIN scanned_files /\ Append(scanned_files, row)[i] = scanned_files[i])
    BY <2>1
  <2>. QED  BY <1>2, <2>2 DEF entries
<1>8. /\ row.file = e.file /\ row.mtime = e.mtime /\ row.window = w
  OBVIOUS
<1>9. w.to \in Int /\ \A g \in entries(rjob[p].due) : g.mtime \in Nat
  BY <1>1, EntryTypes
<1> HIDE DEF e, w, row
<1>10. CacheInv'
  <2>1. ASSUME NEW c \in entries(scanned_files) \cup {row}
        PROVE  /\ past_window(c.window) /\ c.mtime <= logs[c.file].mtime
               /\ c.window.to = today /\ c.mtime = logs[c.file].mtime /\ ~logs[c.file].big
                     => counted(c.file, c.window)
    <3>1. CASE c = row
      BY <1>5, <1>6, <1>8, <3>1
    <3>2. CASE c \in entries(scanned_files)
      BY <1>1, <3>2 DEF CacheInv
    <3>. QED  BY <3>1, <3>2
  <2>. QED  BY <1>2, <1>7, <2>1 DEF CacheInv, past_window, counted, Rollups!inside
<1>11. DueInv(p)'
  <2>1. ASSUME NEW g \in entries(rjob'[p].due), NEW c \in entries(scanned_files'), c.file = g.file
        PROVE  c.mtime <= g.mtime
    <3>1. g \in entries(rjob[p].due) /\ g.mtime \in Nat
      BY <1>4, <1>9
    <3>2. CASE c = row
      <4>1. c.mtime = g.mtime
        BY <1>5, <1>8, <2>1, <3>1, <3>2
      <4>. QED  BY <3>1, <4>1
    <3>3. CASE c \in entries(scanned_files)
      BY <1>1, <2>1, <3>1, <3>3 DEF DueInv
    <3>. QED  BY <1>7, <3>2, <3>3
  <2>2. ASSUME NEW c \in entries(scanned_files') PROVE c.window.to <= w.to
    <3>1. CASE c = row
      BY <1>8, <1>9, <3>1
    <3>2. CASE c \in entries(scanned_files)
      BY <1>1, <1>2, <3>2 DEF DueInv, w
    <3>. QED  BY <1>7, <3>1, <3>2
  <2>3. \A g \in entries(rjob'[p].due) :
          /\ g.mtime <= logs[g.file].mtime
          /\ g.mtime = logs[g.file].mtime => g.big = logs[g.file].big
          /\ \A h \in entries(rjob'[p].due) : h.file = g.file => h.mtime = g.mtime
    BY <1>1, <1>4 DEF DueInv
  <2>. QED  BY <1>2, <1>3, <1>5, <2>1, <2>2, <2>3 DEF DueInv, past_window
<1>12. HeadInv(p)'
  BY <1>2 DEF HeadInv
<1>. QED  BY <1>1, <1>10, <1>11, <1>12 DEF SkipInv

LEMMA StartStep ==
    ASSUME RollupsAssumption, OneProcess, SkipInv, ScanTypes', NEW p \in Proc,
           Rollups!Start(p, Rollups!default_window)
    PROVE  SkipInv'
<1> DEFINE w == Rollups!default_window
<1>1. /\ ScanTypes /\ rjob \in [Proc -> Job] /\ rpc \in [Proc -> Stage] /\ \A x \in Proc : x = p
      /\ CacheInv
  BY DEF SkipInv, ScanTypes, OneProcess
<1>2. rjob'[p].due = <<>> /\ rjob'[p].window = w
  BY <1>1 DEF Rollups!Start, Rollups!no_job
<1>3. rpc'[p] \in {"rebuild", "list"}
  BY <1>1 DEF Rollups!Start, Rollups!goto
<1>4. UNCHANGED <<logs, today, sources, scanned_files>>
  BY DEF Rollups!Start, Rollups!db_vars, Rollups!env_vars
<1>5. past_window(w) /\ w.to = today
  <2>1. today \in Int /\ Lookback \in Int
    BY <1>1 DEF ScanTypes, RollupsAssumption
  <2>. QED  BY <2>1 DEF past_window, Rollups!default_window
<1> HIDE DEF w
<1>6. CacheInv'
  BY <1>1, <1>4, SameCache
<1>7. DueInv(p)'
  <2>1. entries(rjob'[p].due) = {}
    BY <1>2 DEF entries
  <2>2. \A c \in entries(scanned_files) : c.window.to <= w.to
    BY <1>1, <1>5 DEF CacheInv, past_window
  <2>. QED  BY <1>2, <1>4, <1>5, <2>1, <2>2 DEF DueInv, past_window
<1>8. HeadInv(p)'
  BY <1>3 DEF HeadInv
<1>. QED  BY <1>1, <1>6, <1>7, <1>8 DEF SkipInv

LEMMA CrashStep ==
    ASSUME RollupsAssumption, OneProcess, SkipInv, ScanTypes', NEW p \in Proc, Rollups!Crash(p)
    PROVE  SkipInv'
<1>1. Rollups!no_job \in Job /\ Rollups!no_job.due = <<>>
  BY DEF Rollups!no_job, Rollups!Zero, Rollups!on_days, Job, Span
<1>2. entries(Rollups!no_job.due) \subseteq entries(rjob[p].due)
  BY <1>1 DEF entries
<1>3. /\ rpc' = [rpc EXCEPT ![p] = "idle"] /\ rjob' = [rjob EXCEPT ![p] = Rollups!no_job]
      /\ UNCHANGED <<logs, today, sources, scanned_files>>
  BY DEF Rollups!Crash, Rollups!goto, Rollups!db_vars
<1>4. "idle" \in Stage \ {"replace", "mark"}
  BY DEF Stage
<1>. QED  BY <1>1, <1>2, <1>3, <1>4, Quiet, QuietCache

\* A file that is written is newer than all that is known of it.
LEMMA WriteStep ==
    ASSUME SkipInv, ScanTypes', NEW f \in File, NEW c \in Content, Rollups!Write(f, c)
    PROVE  SkipInv'
<1>1. /\ ScanTypes /\ CacheInv /\ logs[f].mtime \in Nat
  BY EntryTypes DEF SkipInv
<1>2. /\ \A g \in File : g # f => logs'[g] = logs[g]
      /\ logs'[f].mtime = logs[f].mtime + 1
      /\ UNCHANGED <<today, sources, scanned_files, rpc, rjob>>
  BY <1>1 DEF Rollups!Write, Rollups!db_vars, ScanTypes
<1>3. ASSUME NEW g \in File, NEW m \in Nat, m <= logs[g].mtime
      PROVE  m <= logs'[g].mtime /\ (m = logs'[g].mtime => g # f)
  BY <1>1, <1>2, <1>3
<1>4. CacheInv'
  <2>1. ASSUME NEW d \in entries(scanned_files)
        PROVE  /\ past_window(d.window) /\ d.mtime <= logs'[d.file].mtime
               /\ d.window.to = today /\ d.mtime = logs'[d.file].mtime /\ ~logs'[d.file].big
                     => counted(d.file, d.window)'
    <3>1. d.file \in File /\ d.mtime \in Nat
      BY <1>1, EntryTypes
    <3>2. past_window(d.window) /\ d.mtime <= logs[d.file].mtime
      BY <1>1 DEF CacheInv
    <3>3. CASE d.mtime = logs'[d.file].mtime
      <4>1. logs'[d.file] = logs[d.file]
        BY <1>2, <1>3, <3>1, <3>2, <3>3
      <4>. QED  BY <1>1, <1>2, <3>3, <4>1 DEF CacheInv, counted, Rollups!inside
    <3>4. CASE d.mtime # logs'[d.file].mtime
      BY <1>3, <3>1, <3>2, <3>4
    <3>. QED  BY <3>3, <3>4
  <2>. QED  BY <1>2, <2>1 DEF CacheInv, past_window
<1>5. ASSUME NEW p \in Proc PROVE DueInv(p)'
  <2>1. DueInv(p)
    BY DEF SkipInv
  <2>2. ASSUME NEW e \in entries(rjob[p].due)
        PROVE  /\ e.mtime <= logs'[e.file].mtime
               /\ e.mtime = logs'[e.file].mtime => e.big = logs'[e.file].big
    <3>1. e.file \in File /\ e.mtime \in Nat
      BY <1>1, EntryTypes
    <3>2. e.mtime <= logs[e.file].mtime
      BY <2>1 DEF DueInv
    <3>3. e.mtime = logs'[e.file].mtime => logs'[e.file] = logs[e.file]
      BY <1>2, <1>3, <3>1, <3>2
    <3>. QED  BY <1>3, <2>1, <3>1, <3>2, <3>3 DEF DueInv
  <2>. QED  BY <1>2, <2>1, <2>2 DEF DueInv, past_window
<1>6. ASSUME NEW p \in Proc PROVE HeadInv(p)'
  <2> DEFINE e == Head(rjob[p].due)
  <2>1. HeadInv(p) /\ DueInv(p)
    BY DEF SkipInv
  <2>2. CASE rpc[p] \in {"replace", "mark"}
    <3>1. e \in entries(rjob[p].due)
      BY <1>1, <2>2, HeadIsEntry DEF ScanTypes
    <3>2. e.file \in File /\ e.mtime \in Nat /\ e.mtime <= logs[e.file].mtime
      BY <1>1, <2>1, <3>1, EntryTypes DEF DueInv
    <3>3. e.mtime = logs'[e.file].mtime => logs'[e.file] = logs[e.file]
      BY <1>2, <1>3, <3>2
    <3>4. Rollups!skips(p)' <=> Rollups!skips(p)
      BY <1>2 DEF Rollups!skips, Rollups!cached, Rollups!Range
    <3>5. e.mtime = logs'[e.file].mtime =>
              (counted(e.file, rjob[p].window)' <=> counted(e.file, rjob[p].window))
      BY <1>2, <3>3 DEF counted, Rollups!inside
    <3> HIDE DEF e
    <3>6. e' = e
      BY <1>2 DEF e
    <3>7. rpc[p] = "replace" =>
            /\ ~Rollups!skips(p)'
            /\ e.mtime = logs'[e.file].mtime =>
                 \A d \in Day : Rollups!inside(d, rjob[p].window) => rjob[p].use[d] = logs'[e.file].use[d]
      BY <2>1, <3>3, <3>4 DEF HeadInv, e
    <3>8. rpc[p] = "mark" /\ ~e.big /\ e.mtime = logs'[e.file].mtime => counted(e.file, rjob[p].window)'
      BY <2>1, <3>3, <3>5 DEF HeadInv, e
    <3>. QED  BY <1>2, <3>7, <3>8 DEF HeadInv, e, Rollups!inside
  <2>3. CASE rpc[p] \notin {"replace", "mark"}
    BY <1>2, <2>3 DEF HeadInv
  <2>. QED  BY <2>2, <2>3
<1>. QED  BY <1>4, <1>5, <1>6 DEF SkipInv

\* Tomorrow no row of the cache is of the default window.
LEMMA DayStep == ASSUME RollupsAssumption, SkipInv, ScanTypes', Rollups!NextDay PROVE SkipInv'
<1>1. /\ today' = today + 1 /\ ScanTypes
      /\ UNCHANGED <<logs, sources, scanned_files, rpc, rjob>>
  BY DEF Rollups!NextDay, Rollups!db_vars, SkipInv
<1>2. today \in Int /\ today' \in Int
  BY <1>1 DEF ScanTypes, RollupsAssumption
<1>3. ASSUME NEW w \in Span, past_window(w) PROVE past_window(w)' /\ w.to # today'
  BY <1>1, <1>2, <1>3 DEF past_window, Span
<1>4. CacheInv'
  <2>1. \A c \in entries(scanned_files) : c.window \in Span
    BY <1>1, EntryTypes DEF Cached
  <2>. QED  BY <1>1, <1>3, <2>1 DEF CacheInv, SkipInv
<1>5. ASSUME NEW p \in Proc PROVE DueInv(p)' /\ HeadInv(p)'
  <2>1. rjob[p].window \in Span
    BY <1>1 DEF ScanTypes, Job
  <2>2. DueInv(p) /\ HeadInv(p)
    BY DEF SkipInv
  <2>3. DueInv(p)'
    BY <1>1, <1>3, <2>1, <2>2 DEF DueInv
  <2>4. Rollups!skips(p)' <=> Rollups!skips(p)
    BY <1>1 DEF Rollups!skips, Rollups!cached, Rollups!Range
  <2>5. \A f \in File : \A w : counted(f, w)' <=> counted(f, w)
    BY <1>1 DEF counted, Rollups!inside
  <2>6. HeadInv(p)'
    BY <1>1, <2>2, <2>4, <2>5 DEF HeadInv, Rollups!inside, counted
  <2>. QED  BY <2>3, <2>6
<1>. QED  BY <1>4, <1>5 DEF SkipInv

LEMMA SkipInit == ASSUME RollupsAssumption, Rollups!Init PROVE SkipInv
<1>1. ScanTypes
  BY TypesInit
<1>2. entries(<<>>) = {}
  <2>1. DOMAIN <<>> = {}
    BY SMT
  <2>. QED  BY <2>1 DEF entries
<1>3. scanned_files = <<>> /\ \A p \in Proc : rpc[p] = "idle" /\ rjob[p].due = <<>>
  BY DEF Rollups!Init, Rollups!no_job
<1>. QED  BY <1>1, <1>2, <1>3 DEF SkipInv, CacheInv, DueInv, HeadInv

LEMMA SkipStep ==
    ASSUME RollupsAssumption, OneProcess, Explicit = {}, SkipInv, [Rollups!Next]_(Rollups!vars)
    PROVE  SkipInv'
<1>1. ScanTypes'
  BY TypesStep DEF SkipInv
<1>2. ASSUME NEW p \in Proc, NEW w \in {Rollups!default_window} \cup Explicit, Rollups!Start(p, w)
      PROVE  SkipInv'
  <2>1. Rollups!Start(p, Rollups!default_window)
    BY <1>2
  <2>. QED  BY <1>1, <2>1, StartStep
<1>3. ASSUME NEW p \in Proc, Rollups!Scan(p) PROVE SkipInv'
  BY <1>1, <1>3, ListStep, ScanStep, ReplaceStep, MarkStep, QuietSteps
<1>4. ASSUME NEW p \in Proc, Rollups!Crash(p) PROVE SkipInv'
  BY <1>1, <1>4, CrashStep
<1>5. ASSUME NEW f \in File, NEW c \in Content, Rollups!Write(f, c) PROVE SkipInv'
  BY <1>1, <1>5, WriteStep
<1>6. CASE Rollups!NextDay
  BY <1>1, <1>6, DayStep
<1>7. CASE UNCHANGED Rollups!vars
  <2>1. UNCHANGED <<logs, today, sources, scanned_files, rpc, rjob>>
    BY <1>7 DEF Rollups!vars, Rollups!db_vars, Rollups!env_vars
  <2>2. ScanTypes /\ CacheInv /\ \A p \in Proc : DueInv(p) /\ HeadInv(p)
    BY DEF SkipInv
  <2>3. CacheInv'
    BY <2>1, <2>2 DEF CacheInv, counted, past_window, Rollups!inside
  <2>4. ASSUME NEW p \in Proc PROVE DueInv(p)' /\ HeadInv(p)'
    <3>1. Rollups!skips(p)' <=> Rollups!skips(p)
      BY <2>1 DEF Rollups!skips, Rollups!cached, Rollups!Range
    <3>2. DueInv(p)'
      BY <2>1, <2>2 DEF DueInv, past_window
    <3>3. HeadInv(p)'
      BY <2>1, <2>2, <3>1 DEF HeadInv, counted, Rollups!inside
    <3>. QED  BY <3>2, <3>3
  <2>. QED  BY <1>1, <2>3, <2>4 DEF SkipInv
<1>. QED  BY <1>2, <1>3, <1>4, <1>5, <1>6, <1>7 DEF Rollups!Next

LEMMA SkipHolds == ASSUME RollupsAssumption, SkipInv PROVE Rollups!SkippedIsCounted
<1> SUFFICES ASSUME NEW f \in File, ~logs[f].big,
                    Rollups!cached(f, logs[f].mtime, Rollups!default_window)
             PROVE  Rollups!up_to_date(f)
  BY DEF Rollups!SkippedIsCounted
<1>1. ScanTypes /\ CacheInv
  BY DEF SkipInv
<1>2. PICK c \in entries(scanned_files) :
          /\ c.file = f /\ c.mtime = logs[f].mtime
          /\ c.window.from <= Rollups!default_window.from /\ Rollups!default_window.to <= c.window.to
  BY DEF Rollups!cached, Rollups!Range, entries
<1>3. today \in Int /\ Lookback \in Int /\ c.window \in Span
  BY <1>1, EntryTypes DEF ScanTypes, RollupsAssumption, Cached
<1>4. c.window.to = today /\ c.window.from = today - Lookback + 1
  BY <1>1, <1>2, <1>3 DEF CacheInv, past_window, Rollups!default_window, Span
<1>5. counted(f, c.window)
  BY <1>1, <1>2, <1>4 DEF CacheInv
<1>6. \A d \in Day : Rollups!held(f)[d] = amount(sources, file_rows(f, d))
  BY <1>1, HeldAmount DEF ScanTypes
<1>. QED  BY <1>4, <1>5, <1>6 DEF Rollups!up_to_date, counted, Rollups!inside, Rollups!default_window

\* A file the default scan would skip is counted: no step that takes a contribution away
\* leaves its cache row (SkippedIsCounted).
THEOREM SkippedStaysCounted ==
    ASSUME RollupsAssumption, OneProcess, Explicit = {}
    PROVE  Rollups!Spec => []Rollups!SkippedIsCounted
<1>1. Rollups!Init => SkipInv
  BY SkipInit
<1>2. SkipInv /\ [Rollups!Next]_(Rollups!vars) => SkipInv'
  BY SkipStep
<1>3. SkipInv => Rollups!SkippedIsCounted
  BY SkipHolds
<1>. QED  BY <1>1, <1>2, <1>3, PTL DEF Rollups!Spec

-----------------------------------------------------------------------------
(***************************************************************************)
(* CodexRollout.  What a log counts for is a fold over its lines, and what *)
(* a line adds is known only from one line to the next; so the proof first *)
(* shows what a fold makes of a sequence with one element more.            *)
(***************************************************************************)

latest_of(s) == CHOOSE x \in s : \A y \in s : x >= y

\* The last of the positions up to n.
LEMMA LatestOf ==
    ASSUME NEW n \in Nat, NEW s, s \subseteq 1 .. n, s # {}
    PROVE  latest_of(s) \in s /\ s \ {latest_of(s)} # s
<1> DEFINE back == {n - x : x \in s}
<1>1. back \subseteq Nat /\ back # {}
  <2>1. \A x \in s : n - x \in Nat
    OBVIOUS
  <2>. QED  BY <2>1
<1> HIDE DEF back
<1>2. PICK b \in back : \A m \in back : b <= m
  BY <1>1, Least
<1> USE DEF back
<1>3. PICK x \in s : b = n - x
  OBVIOUS
<1>4. \A y \in s : x \in Int /\ y \in Int
  OBVIOUS
<1>6. \A y \in s : n - x <= n - y
  BY <1>2, <1>3
<1>5. \A y \in s : x >= y
  BY <1>4, <1>6
<1>. QED  BY <1>5 DEF latest_of

LEMMA LatestUpTo == ASSUME NEW k \in Nat \ {0} PROVE latest_of(1 .. k) = k
BY DEF latest_of

\* What a fold over the positions up to n makes of the sets of them, if the element at
\* position i makes g[i][x] of x.
IsFold(h, base, g, I) ==
    h = [s \in SUBSET I |-> IF s = {} THEN base ELSE g[latest_of(s)][h[s \ {latest_of(s)}]]]

\* The same steps at the first positions I of the positions J.
SameSteps(g, k, I, J) ==
    /\ \E n \in Nat : I \subseteq 1 .. n
    /\ I \subseteq J
    /\ \A i \in I : g[i] = k[i]

LEMMA FoldAt ==
    ASSUME NEW I, NEW base, NEW g, NEW h, IsFold(h, base, g, I)
    PROVE  /\ h[{}] = base
           /\ \A s \in SUBSET I : s # {} => h[s] = g[latest_of(s)][h[s \ {latest_of(s)}]]
BY DEF IsFold

LEMMA FoldSame ==
    ASSUME NEW I, NEW J, NEW base, NEW g, NEW k, NEW h, NEW f,
           IsFold(h, base, g, I), IsFold(f, base, k, J), SameSteps(g, k, I, J)
    PROVE  h[I] = f[I]
<1>. PICK n \in Nat : I \subseteq 1 .. n
  BY DEF SameSteps
<1>. I \subseteq J
  BY DEF SameSteps
<1> DEFINE Good == {s \in SUBSET I : h[s] = f[s]}
<1>1. ASSUME NEW s \in SUBSET I, \A t \in SUBSET s : t # s => t \in Good PROVE s \in Good
  <2>1. CASE s = {}
    <3>1. s \in SUBSET J
      OBVIOUS
    <3>. QED  BY <2>1, <3>1, FoldAt
  <2>2. CASE s # {}
    <3>1. s \ {latest_of(s)} \in Good
      BY <1>1, <2>2, LatestOf
    <3> HIDE DEF Good
    <3>2. h[s] = g[latest_of(s)][h[s \ {latest_of(s)}]]
      <4>1. \A r \in SUBSET I : r # {} => h[r] = g[latest_of(r)][h[r \ {latest_of(r)}]]
        BY DEF IsFold
      <4>. QED  BY <2>2, <4>1
    <3>3. f[s] = k[latest_of(s)][f[s \ {latest_of(s)}]]
      <4>1. s \in SUBSET J
        OBVIOUS
      <4>2. \A r \in SUBSET J : r # {} => f[r] = k[latest_of(r)][f[r \ {latest_of(r)}]]
        BY DEF IsFold
      <4>. QED  BY <2>2, <4>1, <4>2
    <3>4. g[latest_of(s)] = k[latest_of(s)]
      <4>1. latest_of(s) \in I
        BY <2>2, LatestOf
      <4>. QED  BY <4>1 DEF SameSteps
    <3> USE DEF Good
    <3>. QED  BY <3>1, <3>2, <3>3, <3>4
  <2>. QED  BY <2>1, <2>2
<1> HIDE DEF Good
<1>2. IsFiniteSet(I)
  <2>1. IsFiniteSet(1 .. n)
    BY FS_Interval
  <2>. QED  BY <2>1, FS_Subset
<1>3. I \in Good
  BY <1>1, <1>2, SubsetInduction
<1>. QED  BY <1>3 DEF Good

LEMMA FoldExists ==
    ASSUME NEW n \in Nat, NEW base, NEW g
    PROVE  \E h : IsFold(h, base, g, 1 .. n)
<1> DEFINE I == 1 .. n
           Good == {s \in SUBSET I : \E h : IsFold(h, base, g, s)}
           v == [s \in SUBSET I |-> (CHOOSE h : IsFold(h, base, g, s))[s]]
<1> HIDE DEF I
<1>1. ASSUME NEW s \in SUBSET I, \A t \in SUBSET s : t # s => t \in Good PROVE s \in Good
  <2> DEFINE w == [t \in SUBSET s |-> IF t = {} THEN base ELSE g[latest_of(t)][v[t \ {latest_of(t)}]]]
  <2>1. ASSUME NEW t \in SUBSET s, t # s PROVE w[t] = v[t]
    <3>1. t \in Good /\ t \in SUBSET I
      BY <1>1, <2>1
    <3> DEFINE h == CHOOSE f : IsFold(f, base, g, t)
    <3>2. IsFold(h, base, g, t)
      BY <3>1
    <3>3. v[t] = h[t]
      BY <3>1
    <3> HIDE DEF h
    <3>4. CASE t = {}
      BY <3>2, <3>3, <3>4, FoldAt
    <3>5. CASE t # {}
      <4> DEFINE u == t \ {latest_of(t)}
                 f == CHOOSE k : IsFold(k, base, g, u)
      <4>1. u \in SUBSET s /\ u # s /\ u \in SUBSET t /\ u \in SUBSET I /\ u \in Good
        BY <1>1, <2>1, <3>1, <3>5, LatestOf DEF I
      <4>2. IsFold(f, base, g, u)
        BY <4>1
      <4>3. v[u] = f[u]
        BY <4>1
      <4> HIDE DEF f
      <4>4. f[u] = h[u]
        <5>1. u \subseteq 1 .. n /\ u \subseteq t
          BY <4>1 DEF I
        <5> HIDE DEF u
        <5>2. SameSteps(g, g, u, t)
          BY <5>1 DEF SameSteps
        <5>. QED  BY <3>2, <4>2, <5>2, FoldSame
      <4>5. h[t] = g[latest_of(t)][h[u]]
        BY <3>2, <3>5, FoldAt
      <4>. QED  BY <3>3, <3>5, <4>3, <4>4, <4>5
    <3>. QED  BY <3>4, <3>5
  <2>2. ASSUME NEW t \in SUBSET s
        PROVE  w[t] = IF t = {} THEN base ELSE g[latest_of(t)][w[t \ {latest_of(t)}]]
    <3>1. CASE t # {}
      <4>1. t \ {latest_of(t)} \in SUBSET s /\ t \ {latest_of(t)} # s
        BY <3>1, LatestOf DEF I
      <4> HIDE DEF v
      <4>2. w[t \ {latest_of(t)}] = v[t \ {latest_of(t)}]
        BY <2>1, <4>1
      <4>3. w[t] = g[latest_of(t)][v[t \ {latest_of(t)}]]
        BY <3>1
      <4>. QED  BY <3>1, <4>2, <4>3
    <3>. QED  BY <3>1
  <2> HIDE DEF v
  <2>3. w = [t \in SUBSET s |-> w[t]]
    OBVIOUS
  <2>4. IsFold(w, base, g, s)
    <3> HIDE DEF w
    <3>. QED  BY <2>2, <2>3 DEF IsFold
  <2>. QED  BY <2>4
<1> HIDE DEF Good
<1>2. IsFiniteSet(I)
  BY FS_Interval DEF I
<1>3. I \in Good
  BY <1>1, <1>2, SubsetInduction
<1>. QED  BY <1>3 DEF Good, I

\* The fold is defined step by step, and its values stay where the steps lead.
LEMMA FoldTypes ==
    ASSUME NEW n \in Nat, NEW T, NEW base \in T, NEW g,
           \A i \in 1 .. n, x \in T : g[i][x] \in T,
           NEW h, IsFold(h, base, g, 1 .. n)
    PROVE  \A s \in SUBSET (1 .. n) : h[s] \in T
<1> DEFINE I == 1 .. n
           Good == {s \in SUBSET I : h[s] \in T}
<1>1. ASSUME NEW s \in SUBSET I, \A t \in SUBSET s : t # s => t \in Good PROVE s \in Good
  <2>1. CASE s = {}
    BY <2>1, FoldAt
  <2>2. CASE s # {}
    <3>1. latest_of(s) \in I /\ s \ {latest_of(s)} \in Good
      BY <1>1, <2>2, LatestOf
    <3> HIDE DEF Good
    <3>2. h[s] = g[latest_of(s)][h[s \ {latest_of(s)}]]
      <4>1. \A r \in SUBSET I : r # {} => h[r] = g[latest_of(r)][h[r \ {latest_of(r)}]]
        BY DEF IsFold
      <4>. QED  BY <2>2, <4>1
    <3>3. h[s \ {latest_of(s)}] \in T
      BY <3>1 DEF Good
    <3>4. h[s] \in T
      BY <3>1, <3>2, <3>3
    <3>. QED  BY <3>4 DEF Good
  <2>. QED  BY <2>1, <2>2
<1> HIDE DEF Good
<1>2. IsFiniteSet(I)
  BY FS_Interval
<1>3. \A s \in SUBSET I : s \in Good
  <2> HIDE DEF I
  <2>. QED  BY <1>1, <1>2, SubsetInduction
<1>. QED  BY <1>3 DEF Good

\* One position more.
LEMMA FoldOneMore ==
    ASSUME NEW n \in Nat, NEW base, NEW g, NEW k, NEW h, NEW f,
           IsFold(h, base, g, 1 .. n), IsFold(f, base, k, 1 .. n + 1), \A i \in 1 .. n : g[i] = k[i]
    PROVE  f[1 .. n + 1] = k[n + 1][h[1 .. n]]
<1> DEFINE I == 1 .. n
           J == 1 .. n + 1
<1>1. I \subseteq J /\ J # {} /\ J \ {n + 1} = I
  OBVIOUS
<1>5. latest_of(J) = n + 1
  <2>1. n + 1 \in Nat \ {0}
    OBVIOUS
  <2>. QED  BY <2>1, LatestUpTo
<1>2. I \subseteq 1 .. n /\ (\A i \in I : g[i] = k[i]) /\ IsFold(h, base, g, I) /\ IsFold(f, base, k, J)
  OBVIOUS
<1> HIDE DEF I, J
<1>3. h[I] = f[I]
  <2>1. IsFold(h, base, g, I) /\ IsFold(f, base, k, J) /\ SameSteps(g, k, I, J)
    BY <1>1, <1>2 DEF SameSteps
  <2>. QED  BY <2>1, FoldSame
<1>4. f[J] = k[latest_of(J)][f[J \ {latest_of(J)}]]
  <2>1. \A r \in SUBSET J : r # {} => f[r] = k[latest_of(r)][f[r \ {latest_of(r)}]]
    BY <1>2 DEF IsFold
  <2>. QED  BY <1>1, <2>1
<1>. QED  BY <1>1, <1>5, <1>3, <1>4 DEF I, J

-----------------------------------------------------------------------------
(* Reading a log.                                                          *)

start == [model |-> Unknown, messages |-> <<>>]
Read(lines) == Rollout!FoldLeft(Rollout!collect_codex_rollout_value, start, lines)

Tokens == [input : Nat, output : Nat, total : Nat]
Name == Model \cup {Unknown}
LogLine == [kind : {"context", "token_count"}, model : Name, last : Tokens, all : Tokens]
Message == [model : Name, tokens : Tokens]
Reading == [model : Name, messages : Seq(Message)]

LEMMA BucketTypes ==
    ASSUME NEW u \in Tokens
    PROVE  Rollout!token_buckets_from_object(u) \in Tokens
BY DEF Tokens, Rollout!token_buckets_from_object

LEMMA CollectTypes ==
    ASSUME NEW at \in Reading, NEW line \in LogLine
    PROVE  Rollout!collect_codex_rollout_value(at, line) \in Reading
<1>1. Rollout!usage_of(line) \in Tokens
  BY DEF Rollout!usage_of, LogLine
<1>2. Rollout!token_buckets_from_object(Rollout!usage_of(line)) \in Tokens
  BY <1>1, BucketTypes
<1>3. Rollout!update_codex_rollout_context(at, line) \in Name
  BY DEF Rollout!update_codex_rollout_context, LogLine, Reading
<1>4. ASSUME NEW t \in Tokens
      PROVE  [at EXCEPT !.messages = Append(@, [model |-> at.model, tokens |-> t])] \in Reading
  <2>1. at.messages \in Seq(Message) /\ [model |-> at.model, tokens |-> t] \in Message
    BY DEF Reading, Message
  <2>2. Append(at.messages, [model |-> at.model, tokens |-> t]) \in Seq(Message)
    BY <2>1, AppendProperties
  <2>. QED  BY <2>2 DEF Reading
<1>5. [at EXCEPT !.model = Rollout!update_codex_rollout_context(at, line)] \in Reading
  BY <1>3 DEF Reading
<1>. QED  BY <1>2, <1>4, <1>5 DEF Rollout!collect_codex_rollout_value

IsRead(h, q) ==
    h = [s \in SUBSET DOMAIN q |->
           IF s = {} THEN start
           ELSE Rollout!collect_codex_rollout_value(h[s \ {latest_of(s)}], q[latest_of(s)])]

ReadStep(q) ==
    [i \in 1 .. Len(q) |-> [x \in Reading |-> Rollout!collect_codex_rollout_value(x, q[i])]]

\* A log is read one line after another.
LEMMA ReadSteps ==
    ASSUME NEW q \in Seq(LogLine)
    PROVE  /\ Read(q) \in Reading
           /\ \E h : IsFold(h, start, ReadStep(q), 1 .. Len(q)) /\ Read(q) = h[1 .. Len(q)]
<1> DEFINE h == CHOOSE g : IsRead(g, q)
           n == Len(q)
           step == ReadStep(q)
<1>1. n \in Nat /\ DOMAIN q = 1 .. n /\ \A i \in 1 .. n : q[i] \in LogLine
  BY LenProperties, ElementOfSeq
<1>2. start \in Reading
  BY DEF start, Reading, Name
<1>3. \A i \in 1 .. n, x \in Reading : /\ step[i][x] = Rollout!collect_codex_rollout_value(x, q[i])
                                       /\ step[i][x] \in Reading
  BY <1>1, CollectTypes DEF ReadStep
<1> HIDE DEF step, n
<1>4. PICK f : IsFold(f, start, step, 1 .. n)
  BY <1>1, FoldExists
<1>5. \A s \in SUBSET (1 .. n) : f[s] \in Reading
  BY <1>1, <1>2, <1>3, <1>4, FoldTypes
<1>6. \A s \in SUBSET (1 .. n) : s # {} => /\ latest_of(s) \in 1 .. n
                                          /\ s \ {latest_of(s)} \in SUBSET (1 .. n)
  BY <1>1, LatestOf
<1>7. IsRead(f, q)
  <2>1. \A s \in SUBSET (1 .. n) : s # {} =>
           step[latest_of(s)][f[s \ {latest_of(s)}]] =
              Rollout!collect_codex_rollout_value(f[s \ {latest_of(s)}], q[latest_of(s)])
    BY <1>3, <1>5, <1>6
  <2>. QED  BY <1>1, <1>4, <2>1 DEF IsFold, IsRead
<1>8. IsRead(h, q)
  BY <1>7
<1>9. Read(q) = h[DOMAIN q]
  BY DEF Read, Rollout!FoldLeft, Rollout!MapThenFoldSet, Rollout!Max, IsRead, latest_of
<1> HIDE DEF h
<1>10. \A s \in SUBSET (1 .. n) : s # {} => q[latest_of(s)] \in LogLine
  BY <1>1, <1>6
<1>11. \A s \in SUBSET DOMAIN q : h[s] \in Reading
  <2> DEFINE Good == {s \in SUBSET (1 .. n) : h[s] \in Reading}
  <2>1. ASSUME NEW s \in SUBSET (1 .. n), \A t \in SUBSET s : t # s => t \in Good PROVE s \in Good
    <3>1. CASE s = {}
      BY <1>1, <1>2, <1>8, <3>1 DEF IsRead
    <3>2. CASE s # {}
      <4>1. s \ {latest_of(s)} \in Good
        BY <1>1, <2>1, <3>2, LatestOf
      <4>2. h[s] = Rollout!collect_codex_rollout_value(h[s \ {latest_of(s)}], q[latest_of(s)])
        BY <1>1, <1>8, <3>2 DEF IsRead
      <4>. QED  BY <1>10, <3>2, <4>1, <4>2, CollectTypes
    <3>. QED  BY <3>1, <3>2
  <2> HIDE DEF Good
  <2>2. IsFiniteSet(1 .. n)
    BY <1>1, FS_Interval
  <2>3. \A s \in SUBSET (1 .. n) : s \in Good
    BY <2>1, <2>2, SubsetInduction
  <2>. QED  BY <1>1, <2>3 DEF Good
<1>12. IsFold(h, start, step, 1 .. n)
  <2>1. \A s \in SUBSET (1 .. n) : s # {} =>
           step[latest_of(s)][h[s \ {latest_of(s)}]] =
              Rollout!collect_codex_rollout_value(h[s \ {latest_of(s)}], q[latest_of(s)])
    BY <1>1, <1>3, <1>6, <1>11
  <2>. QED  BY <1>1, <1>8, <2>1 DEF IsFold, IsRead
<1>13. 1 .. n \in SUBSET DOMAIN q
  BY <1>1
<1>. QED  BY <1>1, <1>9, <1>11, <1>12, <1>13 DEF step, n

LEMMA ReadIs ==
    /\ Read(<<>>) = start
    /\ \A q \in Seq(LogLine) : Read(q) \in Reading
    /\ \A q \in Seq(LogLine), line \in LogLine :
          Read(Append(q, line)) = Rollout!collect_codex_rollout_value(Read(q), line)
<1>1. Read(<<>>) = start
  <2>1. <<>> \in Seq(LogLine) /\ 1 .. Len(<<>>) = {}
    OBVIOUS
  <2>2. PICK h : IsFold(h, start, ReadStep(<<>>), {}) /\ Read(<<>>) = h[{}]
    BY <2>1, ReadSteps
  <2>. QED  BY <2>2 DEF IsFold
<1>2. ASSUME NEW q \in Seq(LogLine) PROVE Read(q) \in Reading
  BY ReadSteps
<1>3. ASSUME NEW q \in Seq(LogLine), NEW line \in LogLine
      PROVE  Read(Append(q, line)) = Rollout!collect_codex_rollout_value(Read(q), line)
  <2> DEFINE r == Append(q, line)
             n == Len(q)
  <2>1. /\ r \in Seq(LogLine) /\ Len(r) = n + 1 /\ r[n + 1] = line /\ n \in Nat
        /\ \A i \in 1 .. n : r[i] = q[i]
    BY AppendProperties, LenProperties
  <2> HIDE DEF r
  <2>2. PICK h : IsFold(h, start, ReadStep(q), 1 .. n) /\ Read(q) = h[1 .. n]
    BY ReadSteps
  <2>3. PICK f : IsFold(f, start, ReadStep(r), 1 .. n + 1) /\ Read(r) = f[1 .. n + 1]
    BY <2>1, ReadSteps
  <2>4. \A i \in 1 .. n : ReadStep(q)[i] = ReadStep(r)[i]
    BY <2>1 DEF ReadStep
  <2> HIDE DEF n
  <2>5. f[1 .. n + 1] = ReadStep(r)[n + 1][h[1 .. n]]
    BY <2>1, <2>2, <2>3, <2>4, FoldOneMore
  <2>6. n + 1 \in 1 .. Len(r) /\ h[1 .. n] \in Reading
    BY <1>2, <2>1, <2>2
  <2>7. ReadStep(r)[n + 1][h[1 .. n]] = Rollout!collect_codex_rollout_value(h[1 .. n], line)
    BY <2>1, <2>6 DEF ReadStep
  <2>. QED  BY <2>2, <2>3, <2>5, <2>7 DEF r
<1>. QED  BY <1>1, <1>2, <1>3

-----------------------------------------------------------------------------
(* Adding up messages.                                                     *)

added(x, msg, ms) == IF msg.model \in ms THEN Rollout!plus(x, msg.tokens) ELSE x
Counted(q, ms) == Rollout!aggregate_rollup_messages(q, ms)

IsCounted(h, q, ms) ==
    h = [s \in SUBSET DOMAIN q |->
           IF s = {} THEN Rollout!NoTokens ELSE added(h[s \ {latest_of(s)}], q[latest_of(s)], ms)]

LEMMA AddTypes ==
    ASSUME NEW x \in Tokens, NEW msg \in Message, NEW ms
    PROVE  added(x, msg, ms) \in Tokens
BY DEF added, Rollout!plus, Tokens, Message

CountStep(q, ms) == [i \in 1 .. Len(q) |-> [x \in Tokens |-> added(x, q[i], ms)]]

\* Messages are added one after another.
LEMMA CountSteps ==
    ASSUME NEW q \in Seq(Message), NEW ms
    PROVE  /\ Counted(q, ms) \in Tokens
           /\ \E h : /\ IsFold(h, Rollout!NoTokens, CountStep(q, ms), 1 .. Len(q))
                     /\ Counted(q, ms) = h[1 .. Len(q)]
<1> DEFINE h == CHOOSE g : IsCounted(g, q, ms)
           n == Len(q)
           step == CountStep(q, ms)
<1>1. n \in Nat /\ DOMAIN q = 1 .. n /\ \A i \in 1 .. n : q[i] \in Message
  BY LenProperties, ElementOfSeq
<1>2. Rollout!NoTokens \in Tokens
  BY DEF Tokens, Rollout!NoTokens
<1>3. \A i \in 1 .. n, x \in Tokens : step[i][x] = added(x, q[i], ms) /\ step[i][x] \in Tokens
  BY <1>1, AddTypes DEF CountStep
<1> HIDE DEF step, n
<1>4. PICK f : IsFold(f, Rollout!NoTokens, step, 1 .. n)
  BY <1>1, FoldExists
<1>5. \A s \in SUBSET (1 .. n) : f[s] \in Tokens
  BY <1>1, <1>2, <1>3, <1>4, FoldTypes
<1>6. \A s \in SUBSET (1 .. n) : s # {} => /\ latest_of(s) \in 1 .. n
                                          /\ s \ {latest_of(s)} \in SUBSET (1 .. n)
  BY <1>1, LatestOf
<1>7. IsCounted(f, q, ms)
  <2>1. \A s \in SUBSET (1 .. n) : s # {} =>
           step[latest_of(s)][f[s \ {latest_of(s)}]] = added(f[s \ {latest_of(s)}], q[latest_of(s)], ms)
    BY <1>3, <1>5, <1>6
  <2>. QED  BY <1>1, <1>4, <2>1 DEF IsFold, IsCounted
<1>8. IsCounted(h, q, ms)
  BY <1>7
<1>9. Counted(q, ms) = h[DOMAIN q]
  BY DEF Counted, Rollout!aggregate_rollup_messages, Rollout!FoldLeft, Rollout!MapThenFoldSet,
         Rollout!Max, IsCounted, latest_of, added
<1> HIDE DEF h
<1>10. \A s \in SUBSET (1 .. n) : s # {} => q[latest_of(s)] \in Message
  BY <1>1, <1>6
<1>11. \A s \in SUBSET DOMAIN q : h[s] \in Tokens
  <2> DEFINE Good == {s \in SUBSET (1 .. n) : h[s] \in Tokens}
  <2>1. ASSUME NEW s \in SUBSET (1 .. n), \A t \in SUBSET s : t # s => t \in Good PROVE s \in Good
    <3>1. CASE s = {}
      BY <1>1, <1>2, <1>8, <3>1 DEF IsCounted
    <3>2. CASE s # {}
      <4>1. s \ {latest_of(s)} \in Good
        BY <1>1, <2>1, <3>2, LatestOf
      <4>2. h[s] = added(h[s \ {latest_of(s)}], q[latest_of(s)], ms)
        BY <1>1, <1>8, <3>2 DEF IsCounted
      <4>. QED  BY <1>10, <3>2, <4>1, <4>2, AddTypes
    <3>. QED  BY <3>1, <3>2
  <2> HIDE DEF Good
  <2>2. IsFiniteSet(1 .. n)
    BY <1>1, FS_Interval
  <2>3. \A s \in SUBSET (1 .. n) : s \in Good
    BY <2>1, <2>2, SubsetInduction
  <2>. QED  BY <1>1, <2>3 DEF Good
<1>12. IsFold(h, Rollout!NoTokens, step, 1 .. n)
  <2>1. \A s \in SUBSET (1 .. n) : s # {} =>
           step[latest_of(s)][h[s \ {latest_of(s)}]] =
              added(h[s \ {latest_of(s)}], q[latest_of(s)], ms)
    BY <1>1, <1>3, <1>6, <1>11
  <2>. QED  BY <1>1, <1>8, <2>1 DEF IsFold, IsCounted
<1>13. 1 .. n \in SUBSET DOMAIN q
  BY <1>1
<1>. QED  BY <1>1, <1>9, <1>11, <1>12, <1>13 DEF step, n

LEMMA CountedIs ==
    ASSUME NEW ms
    PROVE  /\ Counted(<<>>, ms) = Rollout!NoTokens
           /\ \A q \in Seq(Message) : Counted(q, ms) \in Tokens
           /\ \A q \in Seq(Message), msg \in Message :
                 Counted(Append(q, msg), ms) = added(Counted(q, ms), msg, ms)
<1>1. Counted(<<>>, ms) = Rollout!NoTokens
  <2>1. <<>> \in Seq(Message) /\ 1 .. Len(<<>>) = {}
    OBVIOUS
  <2>2. PICK h : IsFold(h, Rollout!NoTokens, CountStep(<<>>, ms), {}) /\ Counted(<<>>, ms) = h[{}]
    BY <2>1, CountSteps
  <2>. QED  BY <2>2 DEF IsFold
<1>2. ASSUME NEW q \in Seq(Message) PROVE Counted(q, ms) \in Tokens
  BY CountSteps
<1>3. ASSUME NEW q \in Seq(Message), NEW msg \in Message
      PROVE  Counted(Append(q, msg), ms) = added(Counted(q, ms), msg, ms)
  <2> DEFINE r == Append(q, msg)
             n == Len(q)
  <2>1. /\ r \in Seq(Message) /\ Len(r) = n + 1 /\ r[n + 1] = msg /\ n \in Nat
        /\ \A i \in 1 .. n : r[i] = q[i]
    BY AppendProperties, LenProperties
  <2> HIDE DEF r
  <2>2. PICK h : IsFold(h, Rollout!NoTokens, CountStep(q, ms), 1 .. n) /\ Counted(q, ms) = h[1 .. n]
    BY CountSteps
  <2>3. PICK f : /\ IsFold(f, Rollout!NoTokens, CountStep(r, ms), 1 .. n + 1)
                 /\ Counted(r, ms) = f[1 .. n + 1]
    BY <2>1, CountSteps
  <2>4. \A i \in 1 .. n : CountStep(q, ms)[i] = CountStep(r, ms)[i]
    BY <2>1 DEF CountStep
  <2> HIDE DEF n
  <2>5. f[1 .. n + 1] = CountStep(r, ms)[n + 1][h[1 .. n]]
    BY <2>1, <2>2, <2>3, <2>4, FoldOneMore
  <2>6. n + 1 \in 1 .. Len(r) /\ h[1 .. n] \in Tokens
    BY <1>2, <2>1, <2>2
  <2>7. CountStep(r, ms)[n + 1][h[1 .. n]] = added(h[1 .. n], msg, ms)
    BY <2>1, <2>6 DEF CountStep
  <2>. QED  BY <2>2, <2>3, <2>5, <2>7 DEF r
<1>. QED  BY <1>1, <1>2, <1>3

-----------------------------------------------------------------------------
(* The log, its end from any line, and what was used.                      *)

\* Model names other than "unknown", a window and a bound that are numbers, and no line
\* with the running total only.
RolloutAssumption ==
    Unknown \notin Model /\ Cumulative = FALSE /\ Unsplit \in BOOLEAN /\ {Window, MaxTokens} \subseteq Nat

RolloutTypes ==
    /\ log \in Seq(LogLine) /\ model \in Model
    /\ session \in Tokens /\ used \in [Model -> Tokens]

\* The whole log, however long: who is at work, and what each model used.
ReadInv ==
    /\ Read(log).model = model
    /\ \A m \in Model :
          Rollout!size(Counted(Read(log).messages, {m})) = Rollout!size(used[m])

\* The log from any line on.
end_from(q, n) == SubSeq(q, n, Len(q))
tokens_of_messages(msgs) == Rollout!size(Counted(msgs, Name))
tokens_of(q) == tokens_of_messages(Read(q).messages)
TailInv == \A n \in 1 .. Len(log) + 1 : tokens_of(end_from(log, n)) <= Rollout!size(session)

RolloutInv == RolloutTypes /\ ReadInv /\ TailInv

\* The ends of a log with one line more.
LEMMA EndOneMore ==
    ASSUME NEW q \in Seq(LogLine), NEW line \in LogLine, NEW n \in 1 .. Len(q) + 2
    PROVE  end_from(Append(q, line), n) =
              IF n = Len(q) + 2 THEN <<>> ELSE Append(end_from(q, n), line)
<1> DEFINE r == Append(q, line)
<1>1. Len(q) \in Nat /\ r \in Seq(LogLine) /\ Len(r) = Len(q) + 1
  BY AppendProperties, LenProperties
<1>2. CASE n = Len(q) + 2
  BY <1>1, <1>2, SubSeqEmpty DEF end_from
<1>3. CASE n # Len(q) + 2
  <2> DEFINE e == SubSeq(q, n, Len(q))
             f == SubSeq(r, n, Len(r))
             k == Len(q) - n + 1
  <2>1. n \in 1 .. Len(q) + 1 /\ k \in Nat
    BY <1>1, <1>3
  <2>2. e \in Seq(LogLine) /\ Len(e) = k /\ \A i \in 1 .. k : e[i] = q[n + i - 1]
    BY <1>1, <2>1
  <2>3. f \in Seq(LogLine) /\ Len(f) = k + 1 /\ \A i \in 1 .. k + 1 : f[i] = r[n + i - 1]
    BY <1>1, <2>1
  <2>4. /\ Append(e, line) \in Seq(LogLine) /\ Len(Append(e, line)) = k + 1
        /\ Append(e, line)[k + 1] = line
        /\ \A i \in 1 .. k : Append(e, line)[i] = q[n + i - 1]
    <3> HIDE DEF e
    <3>. QED  BY <2>1, <2>2, AppendProperties
  <2>5. \A i \in 1 .. k + 1 : f[i] = Append(e, line)[i]
    <3>1. f[k + 1] = line
      BY <1>1, <2>1, <2>3
    <3>2. ASSUME NEW i \in 1 .. k PROVE f[i] = q[n + i - 1]
      BY <1>1, <2>1, <2>3
    <3> HIDE DEF e, f, k
    <3>3. \A i \in 1 .. k + 1 : i = k + 1 \/ i \in 1 .. k
      BY <2>1
    <3>4. \A i \in 1 .. k : f[i] = Append(e, line)[i]
      BY <2>4, <3>2
    <3>5. f[k + 1] = Append(e, line)[k + 1]
      BY <2>4, <3>1
    <3>. QED  BY <3>3, <3>4, <3>5
  <2> HIDE DEF e, f, k
  <2>6. f = Append(e, line)
    BY <2>1, <2>3, <2>4, <2>5
  <2>. QED  BY <1>3, <2>6 DEF end_from, e, f
<1>. QED  BY <1>2, <1>3

\* A line that names a model, or names none, adds no message.
LEMMA ContextLine ==
    ASSUME NEW m \in Name, NEW line, line = Rollout!context(m)
    PROVE  /\ line \in LogLine
           /\ \A at \in Reading : Rollout!collect_codex_rollout_value(at, line) =
                 [at EXCEPT !.model = IF m # Unknown THEN m ELSE at.model]
BY DEF Rollout!context, Rollout!NoTokens, LogLine, Tokens, Name,
       Rollout!collect_codex_rollout_value, Rollout!update_codex_rollout_context

\* What Codex writes of a request that used u: its parts and their sum, or its sum only.
last_of(u, split) == IF split THEN u ELSE [Rollout!NoTokens EXCEPT !.total = u.total]

\* The line adds one message, of n tokens, for the model at work.
AddsMessage(line, n) ==
    \E t \in Tokens :
       /\ Rollout!size(t) = n
       /\ \A at \in Reading : Rollout!collect_codex_rollout_value(at, line) =
             [at EXCEPT !.messages = Append(@, [model |-> at.model, tokens |-> t])]

LEMMA ReportLine ==
    ASSUME NEW u \in Tokens, u.total = u.input + u.output, u.total > 0, NEW split \in BOOLEAN,
           NEW all \in Tokens, NEW line, line = Rollout!token_count(last_of(u, split), all)
    PROVE  line \in LogLine /\ AddsMessage(line, Rollout!size(u))
<1> DEFINE last == last_of(u, split)
           t == Rollout!token_buckets_from_object(last)
<1>1. last \in Tokens /\ last.total = u.total
  BY DEF last_of, Rollout!NoTokens, Tokens
<1>2. t \in Tokens /\ t.input + t.output = u.input + u.output
  BY DEF last_of, Rollout!NoTokens, Tokens, Rollout!token_buckets_from_object
<1>3. last # Rollout!NoTokens
  BY <1>1 DEF Rollout!NoTokens, Tokens
<1>7. line = Rollout!token_count(last, all)
  OBVIOUS
<1> HIDE DEF last
<1>4. line \in LogLine /\ line.kind = "token_count" /\ line.last = last
  BY <1>1, <1>7 DEF Rollout!token_count, LogLine, Name
<1>5. Rollout!usage_of(line) = last
  BY <1>3, <1>4 DEF Rollout!usage_of
<1>6. ASSUME NEW at \in Reading
      PROVE  Rollout!collect_codex_rollout_value(at, line) =
                [at EXCEPT !.messages = Append(@, [model |-> at.model, tokens |-> t])]
  <2>1. ~(t.input + t.output <= 0)
    BY <1>2 DEF Tokens
  <2>2. Rollout!token_buckets_from_object(Rollout!usage_of(line)) = t
    BY <1>5
  <2> HIDE DEF t
  <2>. QED  BY <1>4, <2>1, <2>2 DEF Rollout!collect_codex_rollout_value
<1> HIDE DEF t
<1>. QED  BY <1>2, <1>4, <1>6 DEF Rollout!size, AddsMessage

\* A message more.
LEMMA MessageMore ==
    ASSUME NEW q \in Seq(Message), NEW m \in Name, NEW t \in Tokens, NEW ms
    PROVE  /\ Rollout!size(Counted(q, ms)) \in Nat /\ Rollout!size(t) \in Nat
           /\ Rollout!size(Counted(Append(q, [model |-> m, tokens |-> t]), ms)) =
                 Rollout!size(Counted(q, ms)) + (IF m \in ms THEN Rollout!size(t) ELSE 0)
<1> DEFINE msg == [model |-> m, tokens |-> t]
<1>1. msg \in Message
  BY DEF Message
<1>2. Counted(q, ms) \in Tokens /\ Counted(Append(q, msg), ms) = added(Counted(q, ms), msg, ms)
  BY <1>1, CountedIs
<1>3. ASSUME NEW x \in Tokens
      PROVE  /\ Rollout!size(x) \in Nat
             /\ Rollout!size(added(x, msg, ms)) =
                   Rollout!size(x) + (IF m \in ms THEN Rollout!size(t) ELSE 0)
  BY DEF added, Rollout!plus, Rollout!size, Tokens
<1> HIDE DEF msg
<1>. QED  BY <1>2, <1>3 DEF msg

\* The log and its ends after a line that adds the message [model, t], or none.
LEMMA LineStep ==
    ASSUME NEW line \in LogLine, log' = Append(log, line), RolloutInv, NEW d \in Nat,
           session' \in Tokens, Rollout!size(session') = Rollout!size(session) + d,
           \A at \in Reading :
              tokens_of_messages(Rollout!collect_codex_rollout_value(at, line).messages) <=
              tokens_of_messages(at.messages) + d
    PROVE  TailInv'
<1>1. log \in Seq(LogLine) /\ Len(log) \in Nat /\ Len(log') = Len(log) + 1
  <2>1. log \in Seq(LogLine)
    BY DEF RolloutInv, RolloutTypes
  <2>2. Len(log) \in Nat
    BY <2>1, LenProperties
  <2>3. Len(Append(log, line)) = Len(log) + 1
    BY <2>1, AppendProperties
  <2>. QED  BY <2>1, <2>2, <2>3
<1>2. Rollout!size(session) \in Nat /\ Rollout!size(session') \in Nat
  <2>1. session \in Tokens
    BY DEF RolloutInv, RolloutTypes
  <2>2. \A x \in Tokens : Rollout!size(x) \in Nat
    BY DEF Rollout!size, Tokens
  <2>. QED  BY <2>1, <2>2
<1>3. SUFFICES ASSUME NEW n \in 1 .. Len(log) + 2
               PROVE  tokens_of(end_from(log', n)) <= Rollout!size(session')
  BY <1>1 DEF TailInv
<1>4. CASE n = Len(log) + 2
  <2>1. end_from(log', n) = <<>>
    BY <1>1, <1>4, EndOneMore
  <2>2. tokens_of(<<>>) = 0
    BY ReadIs, CountedIs DEF tokens_of, tokens_of_messages, start, Rollout!size, Rollout!NoTokens
  <2>. QED  BY <1>2, <2>1, <2>2
<1>5. CASE n # Len(log) + 2
  <2> DEFINE e == end_from(log, n)
  <2>1. n \in 1 .. Len(log) + 1
    BY <1>1, <1>5
  <2>2. end_from(log', n) = Append(e, line)
    BY <1>1, <1>5, EndOneMore
  <2>3. e \in Seq(LogLine)
    BY <1>1, <2>1, SubSeqProperties DEF end_from
  <2>4. tokens_of(e) <= Rollout!size(session)
    BY <2>1 DEF RolloutInv, TailInv
  <2> HIDE DEF e
  <2>5. Read(e) \in Reading /\ Read(Append(e, line)) = Rollout!collect_codex_rollout_value(Read(e), line)
    BY <2>3, ReadIs
  <2>6. tokens_of(Append(e, line)) <= tokens_of(e) + d
    BY <2>5 DEF tokens_of
  <2>7. tokens_of(e) \in Nat /\ tokens_of(Append(e, line)) \in Nat
    <3>1. Append(e, line) \in Seq(LogLine)
      BY <2>3, AppendProperties
    <3>2. \A q \in Seq(LogLine) : tokens_of(q) \in Nat
      <4>1. \A q \in Seq(LogLine) : Read(q).messages \in Seq(Message)
        BY ReadIs DEF Reading
      <4>2. \A q \in Seq(LogLine) : Counted(Read(q).messages, Name) \in Tokens
        BY <4>1, CountedIs
      <4>. QED  BY <4>2 DEF tokens_of, tokens_of_messages, Rollout!size, Tokens
    <3>. QED  BY <2>3, <3>1, <3>2
  <2>. QED  BY <1>2, <2>2, <2>4, <2>6, <2>7
<1>. QED  BY <1>4, <1>5

LEMMA RolloutInit == ASSUME RolloutAssumption, Rollout!Init PROVE RolloutInv
<1> PICK m \in Model : model = m /\ log = <<Rollout!context(m)>>
  BY DEF Rollout!Init
<1>1. session = Rollout!NoTokens /\ used = [x \in Model |-> Rollout!NoTokens]
  BY DEF Rollout!Init
<1> DEFINE line == Rollout!context(m)
<1>2. /\ line \in LogLine /\ m \in Name /\ m # Unknown /\ start \in Reading /\ <<>> \in Seq(LogLine)
      /\ Rollout!NoTokens \in Tokens /\ Rollout!size(Rollout!NoTokens) = 0
  <2>1. m \in Name /\ m # Unknown
    BY DEF RolloutAssumption, Name
  <2>2. start \in Reading /\ <<>> \in Seq(LogLine)
    <3>1. <<>> \in Seq(LogLine)
      OBVIOUS
    <3>. QED  BY <3>1, ReadIs
  <2>3. Rollout!NoTokens \in Tokens /\ Rollout!size(Rollout!NoTokens) = 0
    BY DEF Tokens, Rollout!size, Rollout!NoTokens
  <2>. QED  BY <2>1, <2>2, <2>3, ContextLine
<1> HIDE DEF line
<1>3. log = Append(<<>>, line) /\ log \in Seq(LogLine) /\ Len(log) = 1
  BY <1>2 DEF line
<1>4. Read(log) = [start EXCEPT !.model = m]
  <2>1. Read(log) = Rollout!collect_codex_rollout_value(start, line)
    BY <1>2, <1>3, ReadIs
  <2>2. Rollout!collect_codex_rollout_value(start, line) =
           [start EXCEPT !.model = IF m # Unknown THEN m ELSE start.model]
    BY <1>2, ContextLine DEF line
  <2>. QED  BY <1>2, <2>1, <2>2
<1>5. Read(log).model = m /\ Read(log).messages = <<>> /\ Read(<<>>).messages = <<>>
  BY <1>4, ReadIs DEF start
<1>6. \A ms : Rollout!size(Counted(<<>>, ms)) = 0
  BY <1>2, CountedIs
<1>7. RolloutTypes
  BY <1>1, <1>2, <1>3 DEF RolloutTypes
<1>8. ReadInv
  BY <1>1, <1>2, <1>5, <1>6 DEF ReadInv
<1>9. TailInv
  <2>1. end_from(log, 1) = log
    BY <1>3, SubSeqFull DEF end_from
  <2>2. end_from(log, 2) = <<>>
    BY <1>3, SubSeqEmpty DEF end_from
  <2>3. \A n \in 1 .. Len(log) + 1 : n = 1 \/ n = 2
    BY <1>3
  <2>. QED  BY <1>1, <1>2, <1>5, <1>6, <2>1, <2>2, <2>3 DEF TailInv, tokens_of, tokens_of_messages
<1>. QED  BY <1>7, <1>8, <1>9 DEF RolloutInv

LEMMA NewTurnStep == ASSUME RolloutAssumption, RolloutInv, Rollout!NewTurn PROVE RolloutInv'
<1>1. PICK named \in {model'} \cup (IF model' = model THEN {Unknown} ELSE {}) :
         log' = Append(log, Rollout!context(named))
  BY DEF Rollout!NewTurn
<1>2. model' \in Model /\ session' = session /\ used' = used
  BY DEF Rollout!NewTurn
<1>3. /\ log \in Seq(LogLine) /\ model \in Model /\ session \in Tokens /\ used \in [Model -> Tokens]
      /\ Read(log).model = model
  BY DEF RolloutInv, RolloutTypes, ReadInv
<1> DEFINE line == Rollout!context(named)
<1>4. named \in Name /\ (named = model' \/ (named = Unknown /\ model' = model)) /\ model' # Unknown
  BY <1>1, <1>2, <1>3 DEF Name, RolloutAssumption
<1>5. line \in LogLine
  BY <1>4, ContextLine
<1>6. \A at \in Reading : Rollout!collect_codex_rollout_value(at, line) =
                             [at EXCEPT !.model = IF named # Unknown THEN named ELSE at.model]
  BY <1>4, ContextLine
<1> HIDE DEF line
<1>7. log' = Append(log, line)
  BY <1>1 DEF line
<1>8. RolloutTypes'
  BY <1>2, <1>3, <1>5, <1>7, AppendProperties DEF RolloutTypes
<1>9. ReadInv'
  <2>1. Read(log) \in Reading /\ Read(log') = Rollout!collect_codex_rollout_value(Read(log), line)
    BY <1>3, <1>5, <1>7, ReadIs
  <2>2. Read(log') = [Read(log) EXCEPT !.model = IF named # Unknown THEN named ELSE Read(log).model]
    BY <1>6, <2>1
  <2>3. Read(log').model = model' /\ Read(log').messages = Read(log).messages
    BY <1>3, <1>4, <2>1, <2>2 DEF Reading
  <2>. QED  BY <1>2, <2>3 DEF RolloutInv, ReadInv
<1>10. TailInv'
  <2>1. \A at \in Reading : tokens_of_messages(at.messages) \in Nat
    <3>1. \A at \in Reading : at.messages \in Seq(Message)
      BY DEF Reading
    <3>2. \A at \in Reading : Counted(at.messages, Name) \in Tokens
      BY <3>1, CountedIs
    <3>. QED  BY <3>2 DEF tokens_of_messages, Rollout!size, Tokens
  <2>2. \A at \in Reading :
           tokens_of_messages(Rollout!collect_codex_rollout_value(at, line).messages) <=
           tokens_of_messages(at.messages) + 0
    <3>1. \A at \in Reading : Rollout!collect_codex_rollout_value(at, line).messages = at.messages
      BY <1>6 DEF Reading
    <3>. QED  BY <2>1, <3>1
  <2>3. Rollout!size(session') = Rollout!size(session) + 0
    BY <1>2, <1>3 DEF Rollout!size, Tokens
  <2>4. session' \in Tokens
    BY <1>2, <1>3
  <2>. QED  BY <1>5, <1>7, <2>2, <2>3, <2>4, LineStep
<1>. QED  BY <1>8, <1>9, <1>10 DEF RolloutInv

LEMMA ReportStep == ASSUME RolloutAssumption, RolloutInv, Rollout!Report PROVE RolloutInv'
<1>1. PICK i \in 0 .. MaxTokens, o \in 0 .. MaxTokens, split \in BOOLEAN :
         /\ i + o > 0
         /\ LET now == [input |-> i, output |-> o, total |-> i + o]
            IN  /\ session' = Rollout!plus(session, now)
                /\ used' = [used EXCEPT ![model] = Rollout!plus(@, now)]
                /\ log' = Append(log, Rollout!token_count(last_of(now, split), session'))
  <2>1. PICK i \in 0 .. MaxTokens, o \in 0 .. MaxTokens, split \in {TRUE, ~Unsplit},
             cumulative \in {FALSE, Cumulative} :
           /\ i + o > 0
           /\ LET now == [input |-> i, output |-> o, total |-> i + o]
                  last == IF split THEN now ELSE [Rollout!NoTokens EXCEPT !.total = i + o]
              IN  /\ session' = Rollout!plus(session, now)
                  /\ used' = [used EXCEPT ![model] = Rollout!plus(@, now)]
                  /\ log' = Append(log, Rollout!token_count(
                               IF cumulative THEN Rollout!NoTokens ELSE last, session'))
    BY DEF Rollout!Report
  <2>2. cumulative = FALSE /\ split \in BOOLEAN
    BY DEF RolloutAssumption
  <2>. QED  BY <2>1, <2>2 DEF last_of
<1>2. model' = model
  BY DEF Rollout!Report
<1>3. /\ log \in Seq(LogLine) /\ model \in Model /\ session \in Tokens /\ used \in [Model -> Tokens]
      /\ Read(log).model = model
  BY DEF RolloutInv, RolloutTypes, ReadInv
<1> DEFINE now == [input |-> i, output |-> o, total |-> i + o]
           line == Rollout!token_count(last_of(now, split), session')
<1>4. now \in Tokens /\ now.total = now.input + now.output /\ now.total > 0
  BY <1>1 DEF RolloutAssumption, Tokens
<1>5. /\ session' = Rollout!plus(session, now) /\ used' = [used EXCEPT ![model] = Rollout!plus(@, now)]
      /\ log' = Append(log, line)
  BY <1>1
<1> HIDE DEF now
<1>6. \A x \in Tokens : /\ Rollout!plus(x, now) \in Tokens /\ Rollout!size(now) \in Nat
                        /\ Rollout!size(Rollout!plus(x, now)) = Rollout!size(x) + Rollout!size(now)
  BY <1>4 DEF Rollout!plus, Rollout!size, Tokens
<1>7. session' \in Tokens /\ Rollout!size(session') = Rollout!size(session) + Rollout!size(now)
  BY <1>3, <1>5, <1>6
<1>8. line \in LogLine
  BY <1>4, <1>7, ReportLine
<1>9. PICK t \in Tokens :
         /\ Rollout!size(t) = Rollout!size(now)
         /\ \A at \in Reading : Rollout!collect_codex_rollout_value(at, line) =
               [at EXCEPT !.messages = Append(@, [model |-> at.model, tokens |-> t])]
  <2>1. line = Rollout!token_count(last_of(now, split), session')
    OBVIOUS
  <2> HIDE DEF line
  <2>2. /\ now \in Tokens /\ now.total = now.input + now.output /\ now.total > 0
        /\ split \in BOOLEAN /\ session' \in Tokens
    BY <1>4, <1>7
  <2>3. AddsMessage(line, Rollout!size(now))
    BY <2>1, <2>2, ReportLine
  <2>. QED  BY <2>3 DEF AddsMessage
<1> HIDE DEF line
<1>10. \A at \in Reading :
          /\ at.model \in Name /\ at.messages \in Seq(Message)
          /\ Rollout!collect_codex_rollout_value(at, line).model = at.model
          /\ Rollout!collect_codex_rollout_value(at, line).messages =
                Append(at.messages, [model |-> at.model, tokens |-> t])
  BY <1>9 DEF Reading
<1>11. RolloutTypes'
  BY <1>2, <1>3, <1>5, <1>6, <1>7, <1>8, AppendProperties DEF RolloutTypes
<1>12. ReadInv'
  <2>1. Read(log) \in Reading /\ Read(log') = Rollout!collect_codex_rollout_value(Read(log), line)
    BY <1>3, <1>5, <1>8, ReadIs
  <2>2. /\ Read(log').model = model' /\ Read(log).messages \in Seq(Message)
        /\ Read(log').messages = Append(Read(log).messages, [model |-> model, tokens |-> t])
    BY <1>2, <1>3, <1>10, <2>1
  <2>3. model \in Name
    BY <1>3 DEF Name
  <2>4. ASSUME NEW m \in Model
        PROVE  Rollout!size(Counted(Read(log').messages, {m})) = Rollout!size(used'[m])
    <3>1. Rollout!size(Counted(Read(log').messages, {m})) =
             Rollout!size(Counted(Read(log).messages, {m}))
             + (IF model \in {m} THEN Rollout!size(t) ELSE 0)
      <4> DEFINE q == Read(log).messages
      <4>1. q \in Seq(Message) /\ Read(log').messages = Append(q, [model |-> model, tokens |-> t])
        BY <2>2
      <4> HIDE DEF q
      <4>2. Rollout!size(Counted(Append(q, [model |-> model, tokens |-> t]), {m})) =
               Rollout!size(Counted(q, {m})) + (IF model \in {m} THEN Rollout!size(t) ELSE 0)
        BY <2>3, <4>1, MessageMore
      <4>. QED  BY <4>1, <4>2 DEF q
    <3>2. Rollout!size(Counted(Read(log).messages, {m})) = Rollout!size(used[m])
      BY DEF RolloutInv, ReadInv
    <3>3. used[m] \in Tokens /\ Rollout!size(used[m]) \in Nat
      <4>1. used[m] \in Tokens
        BY <1>3
      <4>. QED  BY <4>1 DEF Tokens, Rollout!size
    <3>4. CASE m = model
      <4>1. used'[m] = Rollout!plus(used[m], now)
        BY <1>3, <1>5, <3>4
      <4>. QED  BY <1>6, <1>9, <3>1, <3>2, <3>3, <3>4, <4>1
    <3>5. CASE m # model
      <4>1. used'[m] = used[m]
        BY <1>3, <1>5, <3>5
      <4>. QED  BY <3>1, <3>2, <3>3, <3>5, <4>1
    <3>. QED  BY <3>4, <3>5
  <2>. QED  BY <2>2, <2>4 DEF ReadInv
<1>13. TailInv'
  <2>1. ASSUME NEW at \in Reading
        PROVE  tokens_of_messages(Rollout!collect_codex_rollout_value(at, line).messages) <=
               tokens_of_messages(at.messages) + Rollout!size(now)
    <3>1. at.model \in Name /\ at.messages \in Seq(Message)
      BY <1>10
    <3>2. Rollout!collect_codex_rollout_value(at, line).messages =
             Append(at.messages, [model |-> at.model, tokens |-> t])
      BY <1>10
    <3>3. /\ tokens_of_messages(at.messages) \in Nat /\ Rollout!size(t) \in Nat
          /\ tokens_of_messages(Append(at.messages, [model |-> at.model, tokens |-> t])) =
                tokens_of_messages(at.messages) + Rollout!size(t)
      BY <3>1, MessageMore DEF tokens_of_messages
    <3>. QED  BY <1>9, <3>2, <3>3
  <2>2. Rollout!size(now) \in Nat
    BY <1>3, <1>6
  <2>. QED  BY <1>5, <1>7, <1>8, <2>1, <2>2, LineStep
<1>. QED  BY <1>11, <1>12, <1>13 DEF RolloutInv

LEMMA RolloutStep == ASSUME RolloutAssumption, RolloutInv, [Rollout!Next]_Rollout!vars PROVE RolloutInv'
<1>1. CASE Rollout!NewTurn
  BY <1>1, NewTurnStep
<1>2. CASE Rollout!Report
  BY <1>2, ReportStep
<1>3. CASE UNCHANGED Rollout!vars
  BY <1>3 DEF Rollout!vars, RolloutInv, RolloutTypes, ReadInv, TailInv
<1>. QED  BY <1>1, <1>2, <1>3 DEF Rollout!Next

\* What is read of a log is an end of it, and all of it while it fits the window.
LEMMA RecentIs ==
    ASSUME RolloutAssumption, NEW q \in Seq(LogLine)
    PROVE  /\ \E n \in 1 .. Len(q) + 1 : Rollout!recent_json_text_values(q) = end_from(q, n)
           /\ Len(q) <= Window => Rollout!recent_json_text_values(q) = q
<1>1. Len(q) \in Nat /\ Window \in Nat
  BY LenProperties DEF RolloutAssumption
<1> DEFINE n == (IF Len(q) > Window THEN Len(q) - Window ELSE 0) + 1
<1>2. n \in 1 .. Len(q) + 1 /\ (Len(q) <= Window => n = 1)
  BY <1>1
<1>3. Rollout!recent_json_text_values(q) = end_from(q, n)
  BY DEF Rollout!recent_json_text_values, end_from
<1> HIDE DEF n
<1>4. end_from(q, 1) = q
  BY SubSeqFull DEF end_from
<1>. QED  BY <1>2, <1>3, <1>4

LEMMA CountedOf ==
    ASSUME NEW ms
    PROVE  Rollout!counted(ms) = Counted(Read(Rollout!recent_json_text_values(log)).messages, ms)
BY DEF Rollout!counted, Rollout!scan_codex_rollout_file, Counted, Read, start

(* Reading a session's log line by line yields the model at work and, model for model,      *)
(* the tokens used; and what is read from any line on adds up to no more than the session's *)
(* running total (collect_codex_rollout_value).                                             *)
THEOREM RolloutInvariant == ASSUME RolloutAssumption PROVE Rollout!Spec => []RolloutInv
<1>1. Rollout!Init => RolloutInv
  BY RolloutInit
<1>2. RolloutInv /\ [Rollout!Next]_Rollout!vars => RolloutInv'
  BY RolloutStep
<1>. QED  BY <1>1, <1>2, PTL DEF Rollout!Spec

(* While a session's log is no longer than what is read of it, every token is counted once  *)
(* and for the model that used it, in whatever order turns, models and reports come.        *)
THEOREM RolloutWholeLogIsExact ==
    ASSUME RolloutAssumption PROVE Rollout!Spec => []Rollout!WholeLogIsExact
<1>1. RolloutInv => Rollout!WholeLogIsExact
  <2> SUFFICES ASSUME RolloutInv, Len(log) <= Window, NEW m \in Model
               PROVE  Rollout!size(Rollout!counted({m})) = Rollout!size(used[m])
    BY DEF Rollout!WholeLogIsExact
  <2>1. Rollout!recent_json_text_values(log) = log
    BY RecentIs DEF RolloutInv, RolloutTypes
  <2>. QED  BY <2>1, CountedOf DEF RolloutInv, ReadInv
<1>. QED  BY <1>1, RolloutInvariant, PTL

(* However long the log grows, and although the line that named the model may no longer be  *)
(* read, a scan counts no token twice.                                                      *)
THEOREM RolloutNeverOvercounted ==
    ASSUME RolloutAssumption PROVE Rollout!Spec => []Rollout!NeverOvercounted
<1>1. RolloutInv => Rollout!NeverOvercounted
  <2> SUFFICES ASSUME RolloutInv PROVE Rollout!NeverOvercounted
    OBVIOUS
  <2>1. PICK n \in 1 .. Len(log) + 1 : Rollout!recent_json_text_values(log) = end_from(log, n)
    BY RecentIs DEF RolloutInv, RolloutTypes
  <2>2. Rollout!size(Rollout!counted(Name)) = tokens_of(end_from(log, n))
    BY <2>1, CountedOf DEF tokens_of, tokens_of_messages
  <2>3. tokens_of(end_from(log, n)) <= Rollout!size(session)
    BY DEF RolloutInv, TailInv
  <2>. QED  BY <2>2, <2>3 DEF Rollout!NeverOvercounted, Name
<1>. QED  BY <1>1, RolloutInvariant, PTL

(* Both: however a session's log is written, the scan counts it for what it was, or less.   *)
THEOREM RolloutStaysCounted ==
    ASSUME RolloutAssumption PROVE Rollout!Spec => []Rollout!RolloutIsCounted
<1>1. Rollout!WholeLogIsExact /\ Rollout!NeverOvercounted => Rollout!RolloutIsCounted
  BY DEF Rollout!RolloutIsCounted
<1>. QED  BY <1>1, RolloutWholeLogIsExact, RolloutNeverOvercounted, PTL
=============================================================================
