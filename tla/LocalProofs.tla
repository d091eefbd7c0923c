------------------------------ MODULE LocalProofs ------------------------------
(***************************************************************************)
(* Proofs about what a client keeps for itself, each for any number of     *)
(* processes:                                                              *)
(*   Heartbeat    its types, and that the throttle follows the heartbeats  *)
(*                that succeeded as long as the clock is not set back      *)
(*   HookJournal  (as Journal) its lines are apart, and its length          *)
(*   ConfigFile   (as Config) what is saved stays, for inits that run one  *)
(*                after another                                            *)
(*   HookSettings (as Hooks) the hooks of others stay, and aitrack's is    *)
(*                there once, under the executable's plain name and, for   *)
(*                Claude's settings, one command at a time                 *)
(*   CodexConfig  (as Codex) each hook of aitrack is there once, but for   *)
(*                edits that part one from its marker, and the user's      *)
(*                sections stay                                            *)
(***************************************************************************)
EXTENDS Heartbeat, SequenceTheorems, FiniteSetTheorems, WellFoundedInduction, TLAPS

CONSTANTS
    Size, Limit, MaxBytes, MaxEvents,     \* Journal's
    Setting, Nothing, Torn, MaxInits,     \* Config's
    MaxCrashes,                           \* of all but Heartbeat
    List, Rereads, PlainName, Absent, Broken, Missing, Null,
    MaxEdits, MaxCommands,                \* Hooks', the first Codex's too
    Notes, MaxLines                       \* Codex's

VARIABLES
    lines, jpc, kept, events, jcrashes,   \* Journal's
    disk, tmp, current, fpc, cfg, handle, saves, inits, fcrashes,   \* Config's
    settings, spc, buf, todo, placed, sjoined, sedits, commands, scrashes, torn,    \* Hooks'
    toml, cpc, ctext, tedits, ccrashes, latest, sections, thooks, disturbed, ctorn   \* Codex's

Journal == INSTANCE HookJournal WITH file <- lines, pc <- jpc, crashes <- jcrashes

Config == INSTANCE ConfigFile WITH config <- current, pc <- fpc, crashes <- fcrashes

Hooks == INSTANCE HookSettings WITH
    file <- settings, pc <- spc, joined <- sjoined, edits <- sedits, crashes <- scrashes

Codex == INSTANCE CodexConfig WITH
    config <- toml, pc <- cpc, text <- ctext, edits <- tedits, crashes <- ccrashes, last <- latest,
    hooks <- thooks, torn <- ctorn

-----------------------------------------------------------------------------
(***************************************************************************)
(* Heartbeat.  A process writes back the time it read before its request;  *)
(* the invariant says how that time relates to what the server has stored  *)
(* and to what was sent since, by any process.                             *)
(***************************************************************************)
\* An interval, and a bound on how often the clock is set back.
HeartbeatAssumption == Interval \in Nat /\ MaxBacks \in Nat

\* Types, with the clock no further behind than it was set back.
Times ==
    /\ backs \in 0 .. MaxBacks
    /\ age \in Int /\ age <= Interval /\ -(Interval * backs) <= age
    /\ since \in [Proc -> Int]
    /\ \A p \in Proc : since[p] <= Interval /\ -(Interval * backs) <= since[p]
    /\ quiet \in 0 .. Interval /\ recorded \in 0 .. Interval

Places ==
    /\ hooks \in SUBSET Tool /\ row \in SUBSET Tool
    /\ pc \in [Proc -> {"idle", "send", "forced", "wait", "ok", "failed"}]
    /\ seen \in [Proc -> SUBSET Tool]

\* The kept time is no later than the last request and the last heartbeat the server
\* stored; neither is the time a process is going to keep.
Ordered ==
    /\ quiet <= age /\ recorded <= age
    /\ \A p \in Proc :
        /\ pc[p] \in {"wait", "ok", "failed"} => quiet <= since[p]
        /\ pc[p] = "ok" => recorded <= since[p]

BeatInv == Times /\ Places /\ (backs = 0 => Ordered)

-----------------------------------------------------------------------------
(* Arithmetic of the clock.                                                *)

LEMMA SetBacks ==
    ASSUME HeartbeatAssumption, NEW b \in Nat
    PROVE  /\ Interval * b \in Nat
           /\ Interval * (b + 1) = Interval * b + Interval
           /\ b <= MaxBacks => Interval * b <= Interval * MaxBacks
<1>1. Interval * b \in Nat /\ Interval * (b + 1) = Interval * b + Interval
  BY SMT DEF HeartbeatAssumption
<1>2. ASSUME b <= MaxBacks PROVE Interval * b <= Interval * MaxBacks
  BY <1>2, SMT DEF HeartbeatAssumption
<1>. QED  BY <1>1, <1>2

LEMMA Capping ==
    ASSUME HeartbeatAssumption, NEW m \in Int, NEW n \in Int
    PROVE  /\ capped(m) \in Int /\ capped(m) <= Interval
           /\ m <= n => capped(m) <= capped(n)
           /\ 0 <= m => 0 <= capped(m)
           /\ m <= Interval => capped(m) = m
           /\ m > Interval => capped(m) = Interval
BY DEF capped, HeartbeatAssumption

-----------------------------------------------------------------------------
(* Steps.                                                                  *)

LEMMA BeatInit == HeartbeatAssumption /\ Init => BeatInv
<1>. SUFFICES ASSUME HeartbeatAssumption, Init PROVE BeatInv
  OBVIOUS
<1>1. Interval * 0 = 0
  BY DEF HeartbeatAssumption
<1>2. Times
  BY <1>1 DEF Init, Times, HeartbeatAssumption
<1>3. Places
  BY DEF Init, Places
<1>4. Ordered
  BY DEF Init, Ordered, HeartbeatAssumption
<1>. QED  BY <1>2, <1>3, <1>4 DEF BeatInv

\* A step of one process.
LEMMA BeatProcess ==
    ASSUME HeartbeatAssumption, BeatInv, NEW p \in Proc,
           Capture(p) \/ Forced(p) \/ Send(p) \/ Record(p) \/ Lost(p) \/ End(p)
    PROVE  BeatInv'
<1>. USE DEF HeartbeatAssumption
<1>0. Interval * backs \in Nat /\ (backs = 0 => Interval * backs = 0)
  BY SetBacks DEF BeatInv, Times
<1>1. CASE Capture(p) \/ Forced(p)
  <2>1. Times'
    BY <1>0, <1>1 DEF Capture, Forced, BeatInv, Times
  <2>2. Places'
    BY <1>1 DEF Capture, Forced, goto, BeatInv, Places
  <2>3. ASSUME backs' = 0 PROVE Ordered'
    <3>1. \A q \in Proc : pc'[q] \in {"wait", "ok", "failed"} => q # p
      BY <1>1 DEF Capture, Forced, goto, BeatInv, Places
    <3>2. \A q \in Proc : q # p => pc'[q] = pc[q] /\ since'[q] = since[q]
      BY <1>1 DEF Capture, Forced, goto, BeatInv, Places, Times
    <3>. QED  BY <1>1, <2>3, <3>1, <3>2 DEF Capture, Forced, BeatInv, Ordered
  <2>. QED  BY <2>1, <2>2, <2>3 DEF BeatInv
<1>2. CASE Send(p)
  <2>1. Times'
    BY <1>2 DEF Send, BeatInv, Times
  <2>2. Places'
    BY <1>2 DEF Send, goto, BeatInv, Places
  <2>3. ASSUME backs' = 0 PROVE Ordered'
    <3>1. backs = 0 /\ quiet' = 0 /\ 0 <= age /\ \A q \in Proc : 0 <= since[q]
      BY <1>0, <1>2, <2>3 DEF Send, BeatInv, Times
    <3>2. \A q \in Proc : pc'[q] = "ok" => pc[q] = "ok"
      BY <1>2 DEF Send, goto, BeatInv, Places
    <3>. QED  BY <1>2, <3>1, <3>2 DEF Send, BeatInv, Ordered
  <2>. QED  BY <2>1, <2>2, <2>3 DEF BeatInv
<1>3. CASE Record(p)
  <2>1. Times'
    BY <1>3 DEF Record, BeatInv, Times
  <2>2. Places'
    BY <1>3 DEF Record, goto, upserted, BeatInv, Places
  <2>3. ASSUME backs' = 0 PROVE Ordered'
    <3>1. backs = 0 /\ recorded' = 0 /\ 0 <= age /\ \A q \in Proc : 0 <= since[q]
      BY <1>0, <1>3, <2>3 DEF Record, BeatInv, Times
    <3>2. \A q \in Proc : pc'[q] \in {"wait", "ok", "failed"} => pc[q] \in {"wait", "ok", "failed"}
      BY <1>3 DEF Record, goto, BeatInv, Places
    <3>. QED  BY <1>3, <3>1, <3>2 DEF Record, BeatInv, Ordered
  <2>. QED  BY <2>1, <2>2, <2>3 DEF BeatInv
<1>4. CASE Lost(p)
  <2>1. Times'
    BY <1>4 DEF Lost, wall, BeatInv, Times
  <2>2. Places'
    BY <1>4 DEF Lost, goto, BeatInv, Places
  <2>3. ASSUME backs' = 0 PROVE Ordered'
    <3>1. \A q \in Proc : /\ pc'[q] \in {"wait", "ok", "failed"} => pc[q] \in {"wait", "ok", "failed"}
                          /\ pc'[q] = "ok" => pc[q] = "ok"
      BY <1>4 DEF Lost, goto, BeatInv, Places
    <3>. QED  BY <1>4, <2>3, <3>1 DEF Lost, wall, BeatInv, Ordered
  <2>. QED  BY <2>1, <2>2, <2>3 DEF BeatInv
<1>5. CASE End(p)
  <2>1. age' = IF pc[p] = "ok" THEN since[p] ELSE age
    BY <1>5 DEF End, keeps_time, since_read
  <2>2. Times'
    BY <1>5, <2>1 DEF End, BeatInv, Times
  <2>3. Places'
    BY <1>5 DEF End, goto, BeatInv, Places
  <2>4. ASSUME backs' = 0 PROVE Ordered'
    <3>1. \A q \in Proc : pc'[q] \in {"wait", "ok", "failed"} => pc'[q] = pc[q]
      BY <1>5 DEF End, goto, BeatInv, Places
    <3>2. quiet <= age' /\ recorded <= age'
      BY <1>5, <2>1, <2>4 DEF End, BeatInv, Ordered
    <3>. QED  BY <1>5, <2>4, <3>1, <3>2 DEF End, BeatInv, Ordered
  <2>. QED  BY <2>2, <2>3, <2>4 DEF BeatInv
<1>. QED  BY <1>1, <1>2, <1>3, <1>4, <1>5

\* Time passes.
LEMMA BeatTick ==
    ASSUME HeartbeatAssumption, BeatInv, Tick
    PROVE  BeatInv'
<1>0. Interval * backs \in Nat /\ backs' = backs /\ pc' = pc
  BY SetBacks DEF BeatInv, Times, Tick
<1>1. Times'
  <2>1. /\ age' \in Int /\ age' <= Interval /\ -(Interval * backs) <= age'
        /\ quiet' \in 0 .. Interval /\ recorded' \in 0 .. Interval
    BY <1>0 DEF BeatInv, Times, Tick, capped, HeartbeatAssumption
  <2>2. since' = [q \in Proc |-> IF pc[q] = "idle" THEN 0 ELSE capped(since[q] + 1)]
    BY DEF Tick
  <2>3. \A q \in Proc : /\ since'[q] \in Int /\ since'[q] <= Interval
                        /\ -(Interval * backs) <= since'[q]
    BY <1>0, <2>2 DEF BeatInv, Times, capped, HeartbeatAssumption
  <2>4. since' \in [Proc -> Int]
    BY <2>2, <2>3
  <2>. QED  BY <1>0, <2>1, <2>3, <2>4 DEF BeatInv, Times
<1>2. Places'
  BY DEF BeatInv, Places, Tick
<1>3. ASSUME backs' = 0 PROVE Ordered'
  <2>1. quiet' <= age' /\ recorded' <= age'
    BY <1>0, <1>3 DEF BeatInv, Times, Ordered, Tick, capped, HeartbeatAssumption
  <2>2. \A q \in Proc : pc[q] # "idle" => since'[q] = capped(since[q] + 1)
    BY DEF Tick
  <2>3. ASSUME NEW q \in Proc, pc[q] \in {"wait", "ok", "failed"} PROVE quiet' <= since'[q]
    BY <1>0, <1>3, <2>2, <2>3 DEF BeatInv, Times, Ordered, Tick, capped, HeartbeatAssumption
  <2>4. ASSUME NEW q \in Proc, pc[q] = "ok" PROVE recorded' <= since'[q]
    BY <1>0, <1>3, <2>2, <2>4 DEF BeatInv, Times, Ordered, Tick, capped, HeartbeatAssumption
  <2>. QED  BY <1>0, <2>1, <2>3, <2>4 DEF Ordered
<1>. QED  BY <1>1, <1>2, <1>3 DEF BeatInv

\* The clock is set back, or a hook changes.
LEMMA BeatWorld ==
    ASSUME HeartbeatAssumption, BeatInv, SetBack \/ ChangeHooks
    PROVE  BeatInv'
<1>1. CASE SetBack
  <2>1. backs' = backs + 1 /\ backs \in Nat /\ backs' \in 0 .. MaxBacks
    BY <1>1 DEF SetBack, BeatInv, Times, HeartbeatAssumption
  <2>2. Interval * backs \in Nat /\ Interval * backs' = Interval * backs + Interval
    BY <2>1, SetBacks
  <2>3. PICK n \in 1 .. Interval :
            /\ age' = age - n
            /\ since' = [q \in Proc |-> IF pc[q] = "idle" THEN 0 ELSE since[q] - n]
    BY <1>1 DEF SetBack
  <2>4. age' \in Int /\ age' <= Interval /\ -(Interval * backs') <= age'
    BY <2>2, <2>3 DEF BeatInv, Times, HeartbeatAssumption
  <2>5. \A q \in Proc : /\ since'[q] \in Int /\ since'[q] <= Interval
                        /\ -(Interval * backs') <= since'[q]
    BY <2>2, <2>3 DEF BeatInv, Times, HeartbeatAssumption
  <2>6. since' \in [Proc -> Int]
    BY <2>3, <2>5
  <2>7. quiet' \in 0 .. Interval /\ recorded' \in 0 .. Interval
    BY <1>1 DEF SetBack, BeatInv, Times
  <2>8. Times'
    BY <2>1, <2>4, <2>5, <2>6, <2>7 DEF Times
  <2>9. Places'
    BY <1>1 DEF SetBack, BeatInv, Places
  <2>. QED  BY <2>1, <2>8, <2>9 DEF BeatInv
<1>2. CASE ChangeHooks
  <2>1. Times'
    BY <1>2 DEF ChangeHooks, wall, BeatInv, Times
  <2>2. Places'
    BY <1>2 DEF ChangeHooks, BeatInv, Places
  <2>3. backs' = 0 => Ordered'
    BY <1>2 DEF ChangeHooks, wall, BeatInv, Ordered
  <2>. QED  BY <2>1, <2>2, <2>3 DEF BeatInv
<1>. QED  BY <1>1, <1>2

LEMMA BeatStep ==
    ASSUME HeartbeatAssumption, BeatInv, [Next]_vars
    PROVE  BeatInv'
<1>1. CASE UNCHANGED vars
  BY <1>1 DEF vars, wall, BeatInv, Times, Places, Ordered
<1>2. CASE Next
  BY <1>2, BeatProcess, BeatTick, BeatWorld DEF Next
<1>. QED  BY <1>1, <1>2

-----------------------------------------------------------------------------
(* Theorems.                                                               *)

\* The inductive invariant: types, and the order of the times as long as the clock
\* has not been set back.
THEOREM BeatInvariant ==
    ASSUME HeartbeatAssumption
    PROVE  Spec => []BeatInv
<1>1. Init => BeatInv
  BY BeatInit
<1>2. BeatInv /\ [Next]_vars => BeatInv'
  BY BeatStep
<1>. QED  BY <1>1, <1>2, PTL DEF Spec

\* Type correctness, for any processes, tools and interval: the kept time is never
\* further ahead of the clock than the clock was set back.
THEOREM BeatTypeCorrect ==
    ASSUME HeartbeatAssumption
    PROVE  Spec => []TypeOK
<1>1. ASSUME BeatInv PROVE TypeOK
  <2>1. Interval * backs <= Interval * MaxBacks /\ Interval * MaxBacks \in Nat
    BY <1>1, SetBacks DEF BeatInv, Times, HeartbeatAssumption
  <2>2. Interval * backs \in Nat
    BY <1>1, SetBacks DEF BeatInv, Times
  <2>3. age \in -(Interval * MaxBacks) .. Interval
    BY <1>1, <2>1, <2>2 DEF BeatInv, Times, HeartbeatAssumption
  <2>4. \A p \in Proc : since[p] \in -(Interval * MaxBacks) .. Interval
    BY <1>1, <2>1, <2>2 DEF BeatInv, Times, HeartbeatAssumption
  <2>5. since \in [Proc -> -(Interval * MaxBacks) .. Interval]
    BY <1>1, <2>4 DEF BeatInv, Times
  <2>. QED  BY <1>1, <2>3, <2>5 DEF TypeOK, BeatInv, Times, Places
<1>2. BeatInv => TypeOK
  BY <1>1
<1>. QED  BY <1>2, BeatInvariant, PTL

\* send_heartbeat: as long as the clock has not been set back, captures are throttled
\* only while the server's row is from the last interval, and never longer than an
\* interval after the last request, for any number of processes whose requests and
\* answers are lost, late and out of order.
THEOREM ThrottleIsSound ==
    ASSUME HeartbeatAssumption
    PROVE  Spec => [](backs = 0 => ThrottleFollowsSuccess)
<1>1. ASSUME BeatInv, backs = 0 PROVE ThrottleFollowsSuccess
  BY <1>1 DEF BeatInv, Times, Ordered, ThrottleFollowsSuccess, ThrottledOnSuccess,
     DueAfterInterval, due, HeartbeatAssumption
<1>2. BeatInv => (backs = 0 => ThrottleFollowsSuccess)
  BY <1>1
<1>. QED  BY <1>2, BeatInvariant, PTL

-----------------------------------------------------------------------------
(***************************************************************************)
(* HookJournal.  Every byte of a line but its newline is followed by the   *)
(* line's next: in the file, and in what a process has picked from it.     *)
(* Processes that have yet to prune answer for what is over the limit.     *)
(***************************************************************************)
\* Finitely many processes, an event is not a blank line, and a limit that is a number.
JournalConstants == IsFiniteSet(Proc) /\ Size \subseteq Nat \ {0, 1} /\ MaxBytes \in Nat

Byte == [event : Nat, left : Nat]

JournalTypeOK ==
    /\ events \in Nat
    /\ lines \in Seq(Byte)
    /\ jpc \in [Proc -> {"idle", "prune", "truncate", "write"}]
    /\ kept \in [Proc -> Seq(Byte)]
    /\ jcrashes \in Nat

apart(f) ==
    \A i \in 1 .. Len(f) : f[i].left # 0 =>
        i < Len(f) /\ f[i + 1] = [event |-> f[i].event, left |-> f[i].left - 1]

\* What a process is going to write back is within the limit.
KeptInv == \A p \in Proc : Len(kept[p]) <= MaxBytes /\ apart(kept[p])

\* The processes that have yet to look at the journal, or to truncate it.
pruning == {p \in Proc : jpc[p] \in {"prune", "truncate"}}

LengthInv == Len(lines) <= MaxBytes * (1 + (Cardinality(pruning) + jcrashes))

JournalInv == JournalTypeOK /\ KeptInv /\ apart(lines) /\ LengthInv

-----------------------------------------------------------------------------
(* The bytes at some places of a sequence.                                 *)

rank(P, i) == Cardinality({j \in P : j <= i})
nth(P, k) == CHOOSE i \in P : rank(P, i) = k

LEMMA Ranks ==
    ASSUME NEW n \in Nat, NEW P \in SUBSET (1 .. n)
    PROVE  /\ IsFiniteSet(P) /\ Cardinality(P) \in Nat
           /\ \A i \in P : rank(P, i) \in 1 .. Cardinality(P)
           /\ \A i \in P : i + 1 \in P => rank(P, i + 1) = rank(P, i) + 1
           /\ \A k \in 1 .. Cardinality(P) : nth(P, k) \in P /\ rank(P, nth(P, k)) = k
           /\ \A i \in P : nth(P, rank(P, i)) = i
<1>1. IsFiniteSet(P) /\ Cardinality(P) \in Nat
  <2>1. IsFiniteSet(1 .. n)
    BY FS_Interval
  <2>2. IsFiniteSet(P)
    BY <2>1, FS_Subset
  <2>. QED  BY <2>2, FS_CardinalityType
<1>2. \A i \in P : i \in Nat
  OBVIOUS
<1> DEFINE upto(i) == {j \in P : j <= i}
<1>3. \A i : IsFiniteSet(upto(i)) /\ Cardinality(upto(i)) \in Nat /\ Cardinality(upto(i)) <= Cardinality(P)
  <2> TAKE i
  <2>1. upto(i) \in SUBSET P
    OBVIOUS
  <2>. QED  BY <1>1, <2>1, FS_Subset, FS_CardinalityType
<1>4. ASSUME NEW i \in P PROVE rank(P, i) \in 1 .. Cardinality(P)
  <2>1. i \in upto(i)
    BY <1>2
  <2>2. Cardinality(upto(i)) # 0
    BY <1>3, <2>1, FS_EmptySet
  <2>3. rank(P, i) = Cardinality(upto(i))
    BY DEF rank
  <2> HIDE DEF upto
  <2>. QED  BY <1>1, <1>3, <2>2, <2>3
<1>5. ASSUME NEW i \in P, NEW j \in P, i < j PROVE rank(P, i) # rank(P, j)
  <2>1. upto(i) \in SUBSET upto(j)
    <3>1. \A x \in P : x <= i => x <= j
      BY <1>2, <1>5
    <3>. QED  BY <3>1
  <2>2. j \in upto(j) /\ j \notin upto(i)
    BY <1>2, <1>5
  <2>3. rank(P, i) = Cardinality(upto(i)) /\ rank(P, j) = Cardinality(upto(j))
    BY DEF rank
  <2> HIDE DEF upto
  <2>4. Cardinality(upto(i)) = Cardinality(upto(j)) => upto(i) = upto(j)
    BY <1>3, <2>1, FS_Subset
  <2>. QED  BY <2>2, <2>3, <2>4
<1>6. ASSUME NEW i \in P, i + 1 \in P PROVE rank(P, i + 1) = rank(P, i) + 1
  <2>1. upto(i + 1) = upto(i) \cup {i + 1} /\ i + 1 \notin upto(i)
    <3>1. \A x \in P : x <= i + 1 <=> x <= i \/ x = i + 1
      BY <1>2, <1>6
    <3>2. ~(i + 1 <= i)
      BY <1>2
    <3>. QED  BY <1>6, <3>1, <3>2
  <2>2. rank(P, i) = Cardinality(upto(i)) /\ rank(P, i + 1) = Cardinality(upto(i + 1))
    BY DEF rank
  <2> HIDE DEF upto
  <2>. QED  BY <1>3, <2>1, <2>2, FS_AddElement
<1> DEFINE R == 1 .. Cardinality(P)
           r == [i \in P |-> rank(P, i)]
<1>7. r \in Injection(P, R)
  <2>1. r \in [P -> R]
    BY <1>4
  <2>2. ASSUME NEW i \in P, NEW j \in P, r[i] = r[j] PROVE i = j
    <3>1. rank(P, i) = rank(P, j)
      BY <2>2
    <3>. QED  BY <1>2, <1>5, <3>1
  <2> HIDE DEF r
  <2>. QED  BY <2>1, <2>2 DEF Injection, IsInjective
<1>8. IsFiniteSet(R) /\ Cardinality(R) = Cardinality(P)
  BY <1>1, FS_Interval
<1>9. r \in Surjection(P, R)
  <2> HIDE DEF r, R
  <2>. QED  BY <1>7, <1>8, FS_Injection
<1>10. ASSUME NEW k \in R PROVE \E i \in P : rank(P, i) = k
  <2>1. \E i \in P : r[i] = k
    BY <1>9 DEF Surjection
  <2>. QED  BY <2>1
<1>11. \A k \in R : nth(P, k) \in P /\ rank(P, nth(P, k)) = k
  BY <1>10 DEF nth
<1>12. ASSUME NEW i \in P PROVE nth(P, rank(P, i)) = i
  <2>1. nth(P, rank(P, i)) \in P /\ rank(P, nth(P, rank(P, i))) = rank(P, i)
    BY <1>4, <1>11
  <2> DEFINE x == nth(P, rank(P, i))
  <2> HIDE DEF x
  <2>2. x \in P /\ rank(P, x) = rank(P, i)
    BY <2>1 DEF x
  <2>3. x = i
    BY <1>2, <1>5, <2>2
  <2>. QED  BY <2>3 DEF x
<1>. QED  BY <1>1, <1>4, <1>6, <1>11, <1>12

LEMMA LeastNumber ==
    ASSUME NEW S, S \subseteq Nat, S # {}
    PROVE  \E n \in S : \A m \in S : n <= m
<1>1. IsWellFoundedOn(OpToRel(<, Nat), Nat)
  BY NatLessThanWellFounded
<1>2. PICK n \in S : \A m \in S : ~(<<m, n>> \in OpToRel(<, Nat))
  BY <1>1, WFMin
<1>3. \A m \in S : ~(m < n) /\ m \in Nat /\ n \in Nat
  BY <1>2 DEF OpToRel
<1>. QED  BY <1>3

\* Whole lines stay lines.
closed(f, P) == \A i \in P : f[i].left # 0 => i + 1 \in P

LEMMA Picked ==
    ASSUME NEW f \in Seq(Byte), apart(f), NEW P \in SUBSET (1 .. Len(f)), closed(f, P)
    PROVE  /\ Journal!picked(f, P) \in Seq(Byte)
           /\ Len(Journal!picked(f, P)) = Cardinality(P)
           /\ apart(Journal!picked(f, P))
<1> DEFINE n == Cardinality(P)
           s == Journal!picked(f, P)
<1>1. Len(f) \in Nat /\ \A i \in 1 .. Len(f) : f[i] \in Byte
  BY LenProperties, ElementOfSeq
<1>2. /\ n \in Nat
      /\ \A i \in P : rank(P, i) \in 1 .. n
      /\ \A i \in P : i + 1 \in P => rank(P, i + 1) = rank(P, i) + 1
      /\ \A k \in 1 .. n : nth(P, k) \in P /\ rank(P, nth(P, k)) = k
      /\ \A i \in P : nth(P, rank(P, i)) = i
  BY <1>1, Ranks
<1>3. s = [k \in 1 .. n |-> f[nth(P, k)]]
  BY DEF Journal!picked, nth, rank, Journal!Cardinality, Cardinality
<1> HIDE DEF s, n
<1>4. ASSUME NEW k \in 1 .. n PROVE s[k] \in Byte /\ s[k] = f[nth(P, k)]
  BY <1>1, <1>2, <1>3
<1>5. s \in Seq(Byte) /\ Len(s) = n
  <2>1. s \in [1 .. n -> Byte]
    BY <1>3, <1>4
  <2>. QED  BY <1>2, <2>1, SeqDef, LenProperties
<1>6. ASSUME NEW k \in 1 .. n, s[k].left # 0
      PROVE  k < n /\ s[k + 1] = [event |-> s[k].event, left |-> s[k].left - 1]
  <2> DEFINE i == nth(P, k)
  <2>1. i \in P /\ rank(P, i) = k /\ s[k] = f[i]
    BY <1>2, <1>4
  <2> HIDE DEF i
  <2>2. i + 1 \in P /\ f[i + 1] = [event |-> f[i].event, left |-> f[i].left - 1]
    BY <1>6, <2>1 DEF closed, apart
  <2>3. rank(P, i + 1) = k + 1 /\ k + 1 \in 1 .. n
    BY <1>2, <2>1, <2>2
  <2>4. nth(P, k + 1) = i + 1
    BY <1>2, <2>2, <2>3
  <2>5. s[k + 1] = f[i + 1]
    BY <1>4, <2>3, <2>4
  <2>6. k < n
    BY <1>2, <2>3
  <2>. QED  BY <2>1, <2>2, <2>5, <2>6
<1>7. apart(s)
  BY <1>5, <1>6 DEF apart
<1>. QED  BY <1>5, <1>7 DEF s, n

LEMMA JournalCount == \A S : Journal!Cardinality(S) = Cardinality(S)
  BY DEF Journal!Cardinality, Cardinality

\* What prune_hook_event_file keeps is within the limit of bytes.
LEMMA Newest ==
    ASSUME JournalConstants, NEW f \in Seq(Byte), apart(f)
    PROVE  LET P == Journal!bytes_of(f, Journal!newest(f))
           IN  P \in SUBSET (1 .. Len(f)) /\ closed(f, P) /\ Cardinality(P) <= MaxBytes
<1> DEFINE newest == Journal!newest(f)
           P == Journal!bytes_of(f, newest)
           fitting == {e \in Journal!lines(f) : Journal!Cardinality(Journal!bytes_of(f, {e})) <= MaxBytes}
           recent(e) == {d \in fitting : d >= e}
<1>1. Len(f) \in Nat /\ DOMAIN f = 1 .. Len(f) /\ \A i \in 1 .. Len(f) : f[i] \in Byte
  BY LenProperties, ElementOfSeq
<1>2. \A ends : Journal!bytes_of(f, ends) \in SUBSET (1 .. Len(f))
  BY <1>1 DEF Journal!bytes_of
<1>3. \A ends : /\ IsFiniteSet(Journal!bytes_of(f, ends))
                /\ Cardinality(Journal!bytes_of(f, ends)) \in Nat
  <2> TAKE ends
  <2>1. IsFiniteSet(1 .. Len(f))
    BY <1>1, FS_Interval
  <2>2. IsFiniteSet(Journal!bytes_of(f, ends))
    BY <1>2, <2>1, FS_Subset
  <2>. QED  BY <2>2, FS_CardinalityType
<1>4. ASSUME NEW i \in P, f[i].left # 0 PROVE i + 1 \in P
  <2>1. i \in 1 .. Len(f) /\ i + f[i].left \in newest
    BY <1>1 DEF Journal!bytes_of
  <2>2. i < Len(f) /\ f[i + 1].left = f[i].left - 1 /\ f[i].left \in Nat
    <3>1. i < Len(f) /\ f[i + 1] = [event |-> f[i].event, left |-> f[i].left - 1]
      BY <1>4, <2>1 DEF apart
    <3>2. f[i].left \in Nat
      BY <1>1, <2>1 DEF Byte
    <3>. QED  BY <3>1, <3>2
  <2>3. i + 1 \in 1 .. Len(f) /\ (i + 1) + f[i + 1].left = i + f[i].left
    BY <1>1, <2>1, <2>2
  <2> HIDE DEF newest
  <2>4. i + 1 + f[i + 1].left \in newest
    BY <2>1, <2>3
  <2>. QED  BY <1>1, <2>3, <2>4 DEF Journal!bytes_of
<1>5. \A e \in newest : e \in fitting /\ Cardinality(Journal!bytes_of(f, recent(e))) <= MaxBytes
  <2>1. \A e \in newest : e \in fitting /\ Journal!Cardinality(Journal!bytes_of(f, recent(e))) <= MaxBytes
    BY DEF Journal!newest
  <2>. QED  BY <2>1, JournalCount
<1>6. fitting \subseteq Nat
  BY <1>1 DEF Journal!lines
<1> HIDE DEF newest, fitting
<1>7. Cardinality(P) <= MaxBytes
  <2>1. CASE newest = {}
    <3>1. P = {}
      BY <2>1 DEF Journal!bytes_of
    <3>2. Cardinality(P) = 0
      BY <3>1, FS_EmptySet
    <3> HIDE DEF P
    <3>. QED  BY <3>2 DEF JournalConstants
  <2>2. CASE newest # {}
    <3>1. PICK e \in newest : \A d \in newest : e <= d
      <4>1. newest \subseteq Nat
        BY <1>5, <1>6
      <4>. QED  BY <2>2, <4>1, LeastNumber
    <3>2. newest \subseteq recent(e)
      BY <1>5, <1>6, <3>1
    <3>3. P \in SUBSET Journal!bytes_of(f, recent(e))
      BY <3>2 DEF Journal!bytes_of
    <3>4. Cardinality(P) <= Cardinality(Journal!bytes_of(f, recent(e)))
      BY <1>3, <3>3, FS_Subset
    <3>5. Cardinality(Journal!bytes_of(f, recent(e))) <= MaxBytes
      BY <1>5
    <3>6. Cardinality(P) \in Nat /\ Cardinality(Journal!bytes_of(f, recent(e))) \in Nat
      BY <1>3
    <3> HIDE DEF P, recent
    <3>. QED  BY <3>4, <3>5, <3>6 DEF JournalConstants
  <2>. QED  BY <2>1, <2>2
<1>8. P \in SUBSET (1 .. Len(f))
  BY <1>2
<1>9. closed(f, P)
  BY <1>4 DEF closed
<1>. QED  BY <1>7, <1>8, <1>9 DEF newest

-----------------------------------------------------------------------------
LEMMA PruningFinite ==
    ASSUME JournalConstants
    PROVE  IsFiniteSet(pruning) /\ Cardinality(pruning) \in Nat
<1>1. pruning \subseteq Proc
  BY DEF pruning
<1>. QED  BY <1>1, FS_Subset, FS_CardinalityType DEF JournalConstants

\* A process begins or ceases to prune.
LEMMA OnePruning ==
    ASSUME JournalConstants, JournalTypeOK, NEW p \in Proc, NEW now,
           jpc' = [jpc EXCEPT ![p] = now]
    PROVE  /\ Cardinality(pruning) \in Nat /\ Cardinality(pruning') \in Nat
           /\ Cardinality(pruning') <= Cardinality(pruning) + 1
           /\ Cardinality(pruning) <= Cardinality(pruning') + 1
           /\ jpc[p] = "idle" /\ now = "prune"
                => Cardinality(pruning') = Cardinality(pruning) + 1
           /\ jpc[p] = "prune" /\ now = "truncate"
                => Cardinality(pruning') = Cardinality(pruning)
           /\ jpc[p] = "write" /\ now = "idle"
                => Cardinality(pruning') = Cardinality(pruning)
<1>1. IsFiniteSet(pruning) /\ Cardinality(pruning) \in Nat
  BY PruningFinite
<1>2. \/ pruning' = pruning
      \/ p \notin pruning /\ pruning' = pruning \cup {p}
      \/ p \in pruning /\ pruning' = pruning \ {p}
  BY DEF pruning, JournalTypeOK
<1>3. /\ p \notin pruning => Cardinality(pruning \cup {p}) = Cardinality(pruning) + 1
      /\ p \in pruning => Cardinality(pruning \ {p}) = Cardinality(pruning) - 1
  BY <1>1, FS_AddElement, FS_RemoveElement
<1>4. Cardinality(pruning \ {p}) \in Nat
  BY <1>1, FS_Subset, FS_CardinalityType, pruning \ {p} \subseteq pruning
<1>5. jpc[p] = "idle" /\ now = "prune" => p \notin pruning /\ pruning' = pruning \cup {p}
  BY DEF pruning, JournalTypeOK
<1>6. jpc[p] = "prune" /\ now = "truncate" => pruning' = pruning
  BY DEF pruning, JournalTypeOK
<1>7. jpc[p] = "write" /\ now = "idle" => pruning' = pruning
  BY DEF pruning, JournalTypeOK
<1>8. Cardinality(pruning') \in Nat
  BY <1>1, <1>2, <1>3, <1>4
<1>9. /\ Cardinality(pruning') <= Cardinality(pruning) + 1
      /\ Cardinality(pruning) <= Cardinality(pruning') + 1
  <2>1. CASE pruning' = pruning
    BY <1>1, <2>1
  <2>2. CASE p \notin pruning /\ pruning' = pruning \cup {p}
    BY <1>1, <1>3, <2>2
  <2>3. CASE p \in pruning /\ pruning' = pruning \ {p}
    BY <1>1, <1>3, <2>3
  <2>. QED  BY <1>2, <2>1, <2>2, <2>3
<1>. QED
  BY <1>1, <1>3, <1>5, <1>6, <1>7, <1>8, <1>9

\* A limit for one process more, and for some processes more.
LEMMA Limits ==
    ASSUME NEW n \in Nat, NEW a \in Nat
    PROVE  /\ n * (1 + a) \in Nat /\ n * (1 + a) >= n /\ 0 <= n * (1 + a)
           /\ n * (1 + (a + 1)) = n * (1 + a) + n
<1>1. n * a \in Nat /\ n * (1 + a) = n + n * a /\ n * (1 + (a + 1)) = n + n * a + n
  OBVIOUS
<1>. QED  BY <1>1

LEMMA LimitsGrow ==
    ASSUME NEW n \in Nat, NEW a \in Nat, NEW b \in Nat, a <= b
    PROVE  /\ n * (1 + a) \in Nat /\ n * (1 + b) \in Nat /\ n * (1 + a) <= n * (1 + b)
<1>1. PICK d \in Nat : b = a + d
  <2>1. b - a \in Nat /\ b = a + (b - a)
    OBVIOUS
  <2>. QED  BY <2>1
<1>2. n * (1 + b) = n * (1 + a) + n * d
  BY <1>1
<1>3. n * d \in Nat /\ n * (1 + a) \in Nat
  OBVIOUS
<1>. QED  BY <1>2, <1>3

LEMMA KeptNothing ==
    ASSUME JournalConstants, JournalTypeOK, KeptInv, NEW p \in Proc, kept' = [kept EXCEPT ![p] = <<>>]
    PROVE  KeptInv'
<1>1. Len(<<>>) = 0
  OBVIOUS
<1>2. apart(<<>>) /\ Len(<<>>) <= MaxBytes
  BY <1>1 DEF apart, JournalConstants
<1>3. \A q \in Proc : kept'[q] = <<>> \/ kept'[q] = kept[q]
  BY DEF JournalTypeOK
<1>. QED  BY <1>2, <1>3 DEF KeptInv, apart

LEMMA JournalInit == ASSUME JournalConstants, Journal!Init PROVE JournalInv
<1>1. Len(<<>>) = 0 /\ <<>> \in Seq(Byte)
  OBVIOUS
<1>2. apart(<<>>)
  BY <1>1 DEF apart
<1>3. JournalTypeOK
  BY <1>1 DEF Journal!Init, JournalTypeOK
<1>4. KeptInv /\ apart(lines)
  BY <1>1, <1>2 DEF Journal!Init, KeptInv, JournalConstants
<1>5. LengthInv
  <2>1. Cardinality(pruning) \in Nat /\ jcrashes = 0 /\ Len(lines) = 0
    BY <1>1, PruningFinite DEF Journal!Init
  <2>2. 0 <= MaxBytes * (1 + (Cardinality(pruning) + jcrashes))
    BY <2>1, Limits DEF JournalConstants
  <2>. QED  BY <2>1, <2>2 DEF LengthInv
<1>. QED  BY <1>3, <1>4, <1>5 DEF JournalInv

LEMMA AppendStep ==
    ASSUME JournalConstants, JournalInv, NEW p \in Proc, Journal!AppendEvent(p)
    PROVE  JournalInv'
<1>1. PICK n \in Size : n <= MaxBytes /\ lines' = lines \o Journal!line(events', n)
  BY DEF Journal!AppendEvent
<1>2. /\ events' = events + 1 /\ jpc[p] = "idle" /\ jpc' = [jpc EXCEPT ![p] = "prune"]
      /\ UNCHANGED <<kept, jcrashes>>
  BY DEF Journal!AppendEvent, Journal!goto
<1>3. /\ events' \in Nat /\ n \in Nat /\ MaxBytes \in Nat /\ lines \in Seq(Byte) /\ Len(lines) \in Nat
      /\ apart(lines)
  BY <1>2, LenProperties DEF JournalConstants, JournalInv, JournalTypeOK
<1> DEFINE new == Journal!line(events', n)
<1>4. /\ new \in Seq(Byte) /\ Len(new) = n
      /\ \A i \in 1 .. n : new[i] = [event |-> events', left |-> n - i]
  <2>1. new \in [1 .. n -> Byte]
    BY <1>3 DEF Journal!line, Byte
  <2>2. \A i \in 1 .. n : new[i] = [event |-> events', left |-> n - i]
    BY DEF Journal!line
  <2> HIDE DEF new
  <2>. QED  BY <1>3, <2>1, <2>2, SeqDef, LenProperties
<1> HIDE DEF new
<1>5. /\ lines' \in Seq(Byte) /\ Len(lines') = Len(lines) + n
      /\ \A i \in 1 .. Len(lines) + n : lines'[i] = IF i <= Len(lines) THEN lines[i] ELSE new[i - Len(lines)]
  <2>1. lines' = lines \o new
    BY <1>1 DEF new
  <2>2. /\ lines \o new \in Seq(Byte) /\ Len(lines \o new) = Len(lines) + Len(new)
        /\ \A i \in 1 .. Len(lines) + Len(new) :
              (lines \o new)[i] = IF i <= Len(lines) THEN lines[i] ELSE new[i - Len(lines)]
    BY <1>3, <1>4, ConcatProperties, Zenon
  <2>. QED  BY <1>4, <2>1, <2>2
<1>6. ASSUME NEW i \in 1 .. Len(lines'), lines'[i].left # 0
      PROVE  i < Len(lines') /\ lines'[i + 1] = [event |-> lines'[i].event, left |-> lines'[i].left - 1]
  <2>1. i \in Nat /\ 1 <= i /\ i <= Len(lines) + n
    BY <1>3, <1>5
  <2>2. CASE i <= Len(lines)
    <3>1. lines'[i] = lines[i] /\ i \in 1 .. Len(lines)
      BY <1>3, <1>5, <2>1, <2>2
    <3>2. i < Len(lines) /\ lines[i + 1] = [event |-> lines[i].event, left |-> lines[i].left - 1]
      BY <1>3, <1>6, <3>1 DEF apart
    <3>3. i + 1 \in 1 .. Len(lines) + n /\ i + 1 <= Len(lines) /\ i < Len(lines')
      BY <1>3, <1>5, <2>1, <3>2
    <3>4. lines'[i + 1] = lines[i + 1]
      BY <1>5, <3>3
    <3>. QED  BY <3>1, <3>2, <3>3, <3>4
  <2>3. CASE i > Len(lines)
    <3>1. PICK k \in 1 .. n : i = Len(lines) + k
      <4>1. i - Len(lines) \in 1 .. n /\ i = Len(lines) + (i - Len(lines))
        BY <1>3, <2>1, <2>3
      <4>. QED  BY <4>1
    <3>2. lines'[i] = new[k]
      <4>1. i \in 1 .. Len(lines) + n /\ ~(i <= Len(lines)) /\ i - Len(lines) = k
        BY <1>3, <2>1, <2>3, <3>1
      <4>. QED  BY <1>5, <4>1
    <3>3. lines'[i] = [event |-> events', left |-> n - k]
      BY <1>4, <3>1, <3>2
    <3>4. k \in Nat /\ k < n
      BY <1>3, <1>6, <3>1, <3>3
    <3>5. lines'[i + 1] = new[k + 1]
      <4>1. i + 1 \in 1 .. Len(lines) + n /\ ~(i + 1 <= Len(lines)) /\ (i + 1) - Len(lines) = k + 1
        BY <1>3, <2>1, <2>3, <3>1, <3>4
      <4>. QED  BY <1>5, <4>1
    <3>6. new[k + 1] = [event |-> events', left |-> n - (k + 1)] /\ n - (k + 1) = (n - k) - 1
      BY <1>3, <1>4, <3>4
    <3>7. i < Len(lines')
      BY <1>3, <1>5, <3>1, <3>4
    <3>. QED  BY <3>3, <3>5, <3>6, <3>7
  <2>. QED  BY <1>3, <2>1, <2>2, <2>3
<1>7. apart(lines')
  BY <1>6 DEF apart
<1>8. JournalTypeOK' /\ KeptInv'
  BY <1>2, <1>3, <1>5 DEF JournalInv, JournalTypeOK, KeptInv, apart
<1>9. LengthInv'
  <2>1. Cardinality(pruning') = Cardinality(pruning) + 1 /\ Cardinality(pruning) \in Nat
    BY <1>2, OnePruning DEF JournalInv
  <2> DEFINE a == Cardinality(pruning) + jcrashes
  <2>2. a \in Nat /\ Cardinality(pruning') + jcrashes' = a + 1
    <3>1. jcrashes \in Nat /\ jcrashes' = jcrashes
      BY <1>2 DEF JournalInv, JournalTypeOK
    <3>. QED  BY <2>1, <3>1
  <2>3. Len(lines) <= MaxBytes * (1 + a)
    BY DEF JournalInv, LengthInv
  <2> HIDE DEF a
  <2>4. MaxBytes * (1 + (a + 1)) = MaxBytes * (1 + a) + MaxBytes /\ MaxBytes * (1 + a) \in Nat
    BY <1>3, <2>2, Limits
  <2>5. Len(lines') <= MaxBytes * (1 + (a + 1))
    BY <1>1, <1>3, <1>5, <2>3, <2>4
  <2>. QED  BY <2>2, <2>5 DEF LengthInv
<1>. QED  BY <1>7, <1>8, <1>9 DEF JournalInv, apart

LEMMA ReadStep ==
    ASSUME JournalConstants, JournalInv, NEW p \in Proc, Journal!ReadJournal(p)
    PROVE  JournalInv'
<1>1. UNCHANGED <<lines, events, jcrashes>> /\ jpc[p] = "prune"
  BY DEF Journal!ReadJournal
<1>2. /\ lines \in Seq(Byte) /\ MaxBytes \in Nat /\ Len(lines) \in Nat /\ apart(lines)
      /\ jcrashes \in Nat
  BY LenProperties DEF JournalConstants, JournalInv, JournalTypeOK
<1>3. apart(lines')
  BY <1>1, <1>2 DEF apart
<1>4. CASE Journal!too_long(lines)
  <2> DEFINE P == Journal!bytes_of(lines, Journal!newest(lines))
             mine == Journal!picked(lines, P)
  <2>1. kept' = [kept EXCEPT ![p] = mine] /\ jpc' = [jpc EXCEPT ![p] = "truncate"]
    BY <1>4 DEF Journal!ReadJournal, Journal!goto
  <2>2. P \in SUBSET (1 .. Len(lines)) /\ closed(lines, P) /\ Cardinality(P) <= MaxBytes
    BY <1>2, Newest
  <2> HIDE DEF P
  <2>3. mine \in Seq(Byte) /\ Len(mine) <= MaxBytes /\ apart(mine)
    BY <1>2, <2>2, Picked
  <2> HIDE DEF mine
  <2>4. JournalTypeOK'
    BY <1>1, <2>1, <2>3 DEF JournalInv, JournalTypeOK
  <2>5. KeptInv'
    <3>1. \A q \in Proc : kept'[q] = mine \/ kept'[q] = kept[q]
      BY <2>1 DEF JournalInv, JournalTypeOK
    <3>. QED  BY <2>3, <3>1 DEF JournalInv, KeptInv, apart
  <2>6. Cardinality(pruning') = Cardinality(pruning)
    BY <1>1, <2>1, OnePruning DEF JournalInv
  <2>7. LengthInv'
    BY <1>1, <2>6 DEF JournalInv, LengthInv
  <2>. QED  BY <1>3, <2>4, <2>5, <2>7 DEF JournalInv, apart
<1>5. CASE ~Journal!too_long(lines)
  <2>1. Len(lines) <= MaxBytes
    BY <1>2, <1>5 DEF Journal!too_long
  <2>2. jpc' = [jpc EXCEPT ![p] = "idle"] /\ kept' = kept
    BY <1>5 DEF Journal!ReadJournal, Journal!goto
  <2>3. JournalTypeOK' /\ KeptInv'
    BY <1>1, <2>2 DEF JournalInv, JournalTypeOK, KeptInv, apart
  <2>4. LengthInv'
    <3> DEFINE a == Cardinality(pruning') + jcrashes'
    <3>1. a \in Nat
      <4>1. Cardinality(pruning') \in Nat
        BY <2>2, OnePruning DEF JournalInv
      <4>. QED  BY <1>1, <1>2, <4>1
    <3> HIDE DEF a
    <3>2. MaxBytes * (1 + a) >= MaxBytes /\ MaxBytes * (1 + a) \in Nat
      BY <1>2, <3>1, Limits
    <3>3. Len(lines') <= MaxBytes * (1 + a)
      BY <1>1, <1>2, <2>1, <3>2
    <3>. QED  BY <3>3 DEF LengthInv, a
  <2>. QED  BY <1>3, <2>3, <2>4 DEF JournalInv, apart
<1>. QED  BY <1>4, <1>5

LEMMA TruncateStep ==
    ASSUME JournalConstants, JournalInv, NEW p \in Proc, Journal!Truncate(p)
    PROVE  JournalInv'
<1>1. lines' = <<>> /\ jpc' = [jpc EXCEPT ![p] = "write"] /\ UNCHANGED <<kept, events, jcrashes>>
  BY DEF Journal!Truncate, Journal!goto
<1>2. Len(lines') = 0 /\ lines' \in Seq(Byte)
  BY <1>1
<1>3. JournalTypeOK' /\ KeptInv'
  <2>1. JournalTypeOK'
    BY <1>1, <1>2 DEF JournalInv, JournalTypeOK
  <2>2. KeptInv'
    BY <1>1 DEF JournalInv, KeptInv, apart
  <2>. QED  BY <2>1, <2>2
<1>4. apart(lines')
  BY <1>2 DEF apart
<1>5. LengthInv'
  <2> DEFINE a == Cardinality(pruning') + jcrashes'
  <2>1. a \in Nat
    <3>1. Cardinality(pruning') \in Nat
      BY <1>1, OnePruning DEF JournalInv
    <3>2. jcrashes' \in Nat
      BY <1>1 DEF JournalInv, JournalTypeOK
    <3>. QED  BY <3>1, <3>2
  <2> HIDE DEF a
  <2>2. 0 <= MaxBytes * (1 + a)
    BY <2>1, Limits DEF JournalConstants
  <2>. QED  BY <1>2, <2>2 DEF LengthInv, a
<1>. QED  BY <1>3, <1>4, <1>5 DEF JournalInv, apart

\* What is written back takes the place of as many bytes, or of all.
LEMMA WriteStep ==
    ASSUME JournalConstants, JournalInv, NEW p \in Proc, Journal!WriteBack(p)
    PROVE  JournalInv'
<1> DEFINE mine == kept[p]
           m == Len(mine)
           N == Len(lines)
           rest == SubSeq(lines, m + 1, N)
<1>1. /\ lines \in Seq(Byte) /\ N \in Nat /\ mine \in Seq(Byte) /\ m \in Nat /\ m <= MaxBytes
      /\ apart(mine) /\ apart(lines) /\ MaxBytes \in Nat /\ jcrashes \in Nat
  BY LenProperties DEF JournalConstants, JournalInv, JournalTypeOK, KeptInv
<1>2. /\ lines' = mine \o rest /\ kept' = [kept EXCEPT ![p] = <<>>]
      /\ jpc[p] = "write" /\ jpc' = [jpc EXCEPT ![p] = "idle"] /\ UNCHANGED <<events, jcrashes>>
  BY DEF Journal!WriteBack, Journal!written, Journal!goto
<1> HIDE DEF mine
<1>3. /\ rest \in Seq(Byte)
      /\ Len(rest) = IF m < N THEN N - m ELSE 0
      /\ \A i \in 1 .. N - m : rest[i] = lines[m + i]
  <2>1. m + 1 \in Int /\ N \in Int
    BY <1>1
  <2>2. \A i \in m + 1 .. N : lines[i] \in Byte
    <3>1. \A i \in 1 .. N : lines[i] \in Byte
      BY <1>1, ElementOfSeq
    <3>2. m + 1 .. N \subseteq 1 .. N
      BY <1>1
    <3>. QED  BY <3>1, <3>2
  <2>3. /\ rest \in Seq(Byte)
        /\ Len(rest) = IF m + 1 <= N THEN N - (m + 1) + 1 ELSE 0
        /\ \A i \in 1 .. N - (m + 1) + 1 : rest[i] = lines[m + 1 + i - 1]
    BY <2>1, <2>2, SubSeqProperties
  <2>. QED  BY <1>1, <2>3
<1> HIDE DEF rest
<1>4. /\ lines' \in Seq(Byte) /\ Len(lines') = m + Len(rest)
      /\ \A i \in 1 .. m + Len(rest) : lines'[i] = IF i <= m THEN mine[i] ELSE rest[i - m]
  BY <1>1, <1>2, <1>3, ConcatProperties
<1> HIDE DEF m, N
<1>5. Len(lines') = (IF m < N THEN N ELSE m) /\ Len(lines') \in Nat
  BY <1>1, <1>3, <1>4
<1>6. \A i \in 1 .. m : i \in 1 .. Len(lines') /\ lines'[i] = mine[i]
  BY <1>1, <1>3, <1>4, <1>5
<1>7. ASSUME NEW i \in Nat, m < i, i <= Len(lines')
      PROVE  i \in 1 .. N /\ lines'[i] = lines[i] /\ Len(lines') = N
  <2>1. m < N /\ Len(lines') = N
    BY <1>1, <1>5, <1>7
  <2>2. lines'[i] = rest[i - m] /\ i - m \in 1 .. N - m
    BY <1>1, <1>3, <1>4, <1>7, <2>1
  <2>3. rest[i - m] = lines[m + (i - m)] /\ m + (i - m) = i
    <3>1. m + (i - m) = i
      BY <1>1, <1>7
    <3>. QED  BY <1>3, <2>2, <3>1
  <2>. QED  BY <1>1, <1>7, <2>1, <2>2, <2>3
<1>8. ASSUME NEW i \in 1 .. Len(lines'), lines'[i].left # 0
      PROVE  i < Len(lines') /\ lines'[i + 1] = [event |-> lines'[i].event, left |-> lines'[i].left - 1]
  <2>1. i \in Nat /\ 1 <= i /\ i <= Len(lines')
    BY <1>5
  <2>2. CASE i <= m
    <3>1. i \in 1 .. m /\ lines'[i] = mine[i]
      BY <1>1, <1>6, <2>1, <2>2
    <3>2. i < m /\ mine[i + 1] = [event |-> mine[i].event, left |-> mine[i].left - 1]
      BY <1>1, <1>8, <3>1 DEF apart, m
    <3>3. i + 1 \in 1 .. m /\ i < Len(lines')
      <4>1. m \in Nat /\ N \in Nat /\ i < m
        BY <1>1, <3>2 DEF m
      <4>. QED  BY <1>5, <2>1, <4>1
    <3>. QED  BY <1>6, <3>1, <3>2, <3>3
  <2>3. CASE m < i
    <3>1. i \in 1 .. N /\ lines'[i] = lines[i] /\ Len(lines') = N
      BY <1>7, <2>1, <2>3
    <3>2. i < N /\ lines[i + 1] = [event |-> lines[i].event, left |-> lines[i].left - 1]
      BY <1>1, <1>8, <3>1 DEF apart, N
    <3>3. i + 1 \in Nat /\ m < i + 1 /\ i + 1 <= Len(lines')
      BY <1>1, <2>1, <2>3, <3>1, <3>2
    <3>4. lines'[i + 1] = lines[i + 1]
      BY <1>7, <3>3
    <3>. QED  BY <3>1, <3>2, <3>4
  <2>. QED  BY <1>1, <2>1, <2>2, <2>3
<1>9. apart(lines')
  BY <1>8 DEF apart
<1>10. JournalTypeOK'
  BY <1>2, <1>4 DEF JournalInv, JournalTypeOK
<1>11. KeptInv'
  BY <1>2, KeptNothing DEF JournalInv
<1>12. LengthInv'
  <2>1. Cardinality(pruning') = Cardinality(pruning) /\ Cardinality(pruning) \in Nat
    BY <1>2, OnePruning DEF JournalInv
  <2> DEFINE a == Cardinality(pruning) + jcrashes
  <2>2. a \in Nat /\ N <= MaxBytes * (1 + a)
    BY <1>1, <2>1 DEF JournalInv, LengthInv, N
  <2>3. Cardinality(pruning') + jcrashes' = a
    BY <1>2, <2>1
  <2> HIDE DEF a
  <2>4. MaxBytes * (1 + a) >= MaxBytes /\ MaxBytes * (1 + a) \in Nat
    BY <1>1, <2>2, Limits
  <2>5. Len(lines') <= MaxBytes * (1 + a)
    BY <1>1, <1>5, <2>2, <2>4
  <2>. QED  BY <2>3, <2>5 DEF LengthInv
<1>. QED  BY <1>9, <1>10, <1>11, <1>12 DEF JournalInv, apart

LEMMA KillStep ==
    ASSUME JournalConstants, JournalInv, NEW p \in Proc, Journal!Crash(p)
    PROVE  JournalInv'
<1>1. /\ kept' = [kept EXCEPT ![p] = <<>>] /\ jpc' = [jpc EXCEPT ![p] = "idle"]
      /\ UNCHANGED <<lines, events>> /\ jcrashes' = jcrashes + 1
  BY DEF Journal!Crash, Journal!goto
<1>2. JournalTypeOK' /\ apart(lines)'
  BY <1>1 DEF JournalInv, JournalTypeOK, apart
<1>3. KeptInv'
  BY <1>1, KeptNothing DEF JournalInv
<1>4. LengthInv'
  <2>1. /\ Cardinality(pruning) \in Nat /\ Cardinality(pruning') \in Nat
        /\ Cardinality(pruning) <= Cardinality(pruning') + 1
    BY <1>1, OnePruning DEF JournalInv
  <2> DEFINE a == Cardinality(pruning) + jcrashes
             b == Cardinality(pruning') + jcrashes'
  <2>2. a \in Nat /\ b \in Nat /\ a <= b
    BY <1>1, <2>1 DEF JournalInv, JournalTypeOK
  <2>3. Len(lines) <= MaxBytes * (1 + a) /\ Len(lines) \in Nat /\ MaxBytes \in Nat
    BY LenProperties DEF JournalInv, LengthInv, JournalConstants, JournalTypeOK
  <2> HIDE DEF a, b
  <2>4. MaxBytes * (1 + a) <= MaxBytes * (1 + b) /\ MaxBytes * (1 + a) \in Nat /\ MaxBytes * (1 + b) \in Nat
    BY <2>2, <2>3, LimitsGrow
  <2>5. Len(lines') <= MaxBytes * (1 + b)
    BY <1>1, <2>3, <2>4
  <2>. QED  BY <2>5 DEF LengthInv, b
<1>. QED  BY <1>2, <1>3, <1>4 DEF JournalInv

\* HookJournal, the inductive invariant: in the file and in what is written back the bytes
\* of a line follow each other, and the file is over the limit of bytes by at most that limit
\* for each process that has yet to prune or was killed.
THEOREM JournalInvariant == ASSUME JournalConstants PROVE Journal!Spec => []JournalInv
<1>1. Journal!Init => JournalInv
  BY JournalInit
<1>2. ASSUME JournalInv, [Journal!Next]_(Journal!vars) PROVE JournalInv'
  <2>1. CASE UNCHANGED Journal!vars
    BY <1>2, <2>1 DEF Journal!vars, JournalInv, JournalTypeOK, KeptInv, apart, LengthInv, pruning
  <2>2. CASE Journal!Next
    BY <1>2, <2>2, AppendStep, ReadStep, TruncateStep, WriteStep, KillStep DEF Journal!Next
  <2>. QED  BY <1>2, <2>1, <2>2
<1>3. JournalInv /\ [Journal!Next]_(Journal!vars) => JournalInv'
  BY <1>2
<1>. QED  BY <1>1, <1>3, PTL DEF Journal!Spec

\* lib.rs, append_private_file and prune_hook_event_file: for lines of any lengths and any
\* number of processes, whatever their reads, truncations and writes do to each other and
\* wherever they are killed, no line has the bytes of two events, and at rest the journal
\* exceeds its limit of bytes by at most that limit for each process that was killed.
THEOREM JournalStaysSound ==
    ASSUME JournalConstants
    PROVE  Journal!Spec => []Journal!JournalIsSound
<1>1. ASSUME JournalInv PROVE Journal!LinesAreApart
  <2>1. DOMAIN lines = 1 .. Len(lines)
    BY <1>1, LenProperties DEF JournalInv, JournalTypeOK
  <2>. QED  BY <1>1, <2>1 DEF JournalInv, Journal!LinesAreApart, apart
<1>2. ASSUME JournalInv PROVE Journal!JournalIsBounded
  <2> SUFFICES ASSUME Journal!resting PROVE Len(lines) <= MaxBytes * (1 + jcrashes)
    BY DEF Journal!JournalIsBounded
  <2>1. pruning = {}
    BY DEF Journal!resting, pruning
  <2>2. Cardinality(pruning) = 0
    BY <2>1, FS_EmptySet
  <2>3. Cardinality(pruning) + jcrashes = jcrashes
    BY <1>2, <2>2 DEF JournalInv, JournalTypeOK
  <2>. QED  BY <1>2, <2>3 DEF JournalInv, LengthInv
<1>3. JournalInv => Journal!JournalIsSound
  BY <1>1, <1>2 DEF Journal!JournalIsSound
<1>. QED  BY <1>3, JournalInvariant, PTL

-----------------------------------------------------------------------------
(***************************************************************************)
(* ConfigFile.  The temporary file is the configuration in the making: it  *)
(* is never the file a capture reads, and what is renamed has all that was *)
(* saved before.                                                           *)
(***************************************************************************)
\* Finitely many processes; a torn text is no configuration, and an id is something.
ConfigConstants ==
    /\ IsFiniteSet(Proc)
    /\ MaxInits \in Nat
    /\ Torn \notin Config!Config
    /\ Nothing \notin Nat

\* One init at a time.
OneInit == \A p, q \in Proc : fpc[p] # "idle" /\ fpc[q] # "idle" => p = q

ConfigTypeOK ==
    /\ disk \in [Config!File -> Config!Config \cup {Torn}]
    /\ tmp \in Config!File \cup {Nothing} /\ current \in Config!File \cup {Nothing}
    /\ fpc \in [Proc -> {"idle", "open", "write", "rename"}]
    /\ cfg \in [Proc -> Config!Config]
    /\ handle \in [Proc -> Config!File \cup {Nothing}]
    /\ saves \in [Proc -> 0 .. 2]
    /\ inits \in 0 .. MaxInits

\* The configuration is whole, and is not the temporary file.
CurrentInv == current # Nothing => disk[current] # Torn /\ current # tmp

\* c has what b has.
extends(c, b) ==
    /\ b.device # Nothing => c.device = b.device
    /\ b.settings \subseteq c.settings

\* What an init is going to save has all that was saved before, and the temporary file
\* is its own.
InitInv == \A p \in Proc :
    /\ fpc[p] # "idle" => extends(cfg[p], Config!load_config) /\ saves[p] > 0
    /\ fpc[p] = "write" => handle[p] = tmp /\ tmp # Nothing /\ disk[tmp] = Torn
    /\ fpc[p] # "write" => handle[p] = Nothing
    /\ fpc[p] = "rename" => tmp # Nothing /\ disk[tmp] = cfg[p]

ConfigInv == ConfigTypeOK /\ CurrentInv /\ InitInv

-----------------------------------------------------------------------------
LEMMA LoadedType ==
    ASSUME ConfigConstants, ConfigTypeOK
    PROVE  /\ Config!load_config \in Config!Config
           /\ Config!load_config.settings \in SUBSET Setting
           /\ Config!load_config.device \in Config!Id \cup {Nothing}
<1>1. Config!default \in Config!Config
  BY DEF Config!default, Config!Config
<1>2. Config!load_config \in Config!Config
  BY <1>1 DEF Config!load_config, ConfigTypeOK
<1>. QED  BY <1>2 DEF Config!Config

\* There is a file of no name that nobody has open.
LEMMA FreeFile ==
    ASSUME ConfigConstants, ConfigInv, NEW p \in Proc, fpc[p] = "open", OneInit
    PROVE  /\ Config!opened \in Config!File
           /\ Config!opened # current
<1>0. Config!Cardinality(Proc) = Cardinality(Proc)
  BY DEF Config!Cardinality, Cardinality
<1>1. Config!Cardinality(Proc) \in Nat
  BY <1>0, FS_CardinalityType DEF ConfigConstants
<1>2. 1 \in Config!File /\ 2 \in Config!File
  BY <1>1 DEF Config!File
<1>3. Config!File \subseteq Nat
  BY <1>1 DEF Config!File
<1>4. CASE tmp # Nothing
  BY <1>4 DEF ConfigInv, ConfigTypeOK, CurrentInv, Config!opened, ConfigConstants
<1>5. CASE tmp = Nothing
  <2>1. \A q \in Proc : handle[q] = Nothing
    BY DEF OneInit, ConfigInv, InitInv, ConfigTypeOK
  <2>2. PICK f \in Config!File : f # current
    BY <1>2
  <2>3. Config!unused(f)
    BY <1>3, <1>5, <2>1, <2>2 DEF Config!unused, ConfigConstants
  <2>4. /\ Config!opened \in Config!File
        /\ Config!unused(Config!opened)
    BY <1>5, <2>3 DEF Config!opened
  <2>. QED  BY <2>4 DEF Config!unused
<1>. QED  BY <1>4, <1>5

LEMMA ConfigInit == ASSUME ConfigConstants, Config!Init PROVE ConfigInv
<1>1. Config!default \in Config!Config
  BY DEF Config!default, Config!Config
<1>2. ConfigTypeOK
  BY <1>1 DEF Config!Init, ConfigTypeOK, ConfigConstants
<1>3. CurrentInv /\ InitInv
  BY DEF Config!Init, CurrentInv, InitInv
<1>. QED  BY <1>2, <1>3 DEF ConfigInv

\* An init adds to what it loads.
LEMMA LoadStep ==
    ASSUME ConfigConstants, ConfigInv, OneInit, NEW p \in Proc, Config!Load(p)
    PROVE  ConfigInv' /\ Config!load_config' = Config!load_config
<1> USE DEF ConfigInv, Config!Load, Config!goto
<1>1. PICK given \in SUBSET Setting :
        cfg' = [cfg EXCEPT ![p] = [settings |-> Config!load_config.settings \cup given,
                                   device |-> Config!device_id(Config!load_config)]]
  OBVIOUS
<1> DEFINE new == [settings |-> Config!load_config.settings \cup given,
                   device |-> Config!device_id(Config!load_config)]
<1>2. inits + 1 \in Config!Id /\ inits' \in 0 .. MaxInits
  BY DEF ConfigTypeOK, Config!Id, ConfigConstants
<1>3. new \in Config!Config /\ extends(new, Config!load_config)
  BY <1>2, LoadedType DEF Config!Config, Config!device_id, extends
<1>4. Config!load_config' = Config!load_config
  BY DEF Config!load_config
<1>5. cfg' \in [Proc -> Config!Config] /\ cfg'[p] = new
  BY <1>1, <1>3 DEF ConfigTypeOK
<1>6. saves' \in [Proc -> 0 .. 2] /\ saves'[p] > 0
  BY DEF ConfigTypeOK
<1>7. ConfigTypeOK'
  BY <1>2, <1>5, <1>6 DEF ConfigTypeOK
<1>8. CurrentInv'
  BY DEF CurrentInv
<1>9. InitInv'
  <2> SUFFICES ASSUME NEW q \in Proc
               PROVE  /\ fpc'[q] # "idle" =>
                           extends(cfg'[q], Config!load_config') /\ saves'[q] > 0
                      /\ fpc'[q] = "write" => handle'[q] = tmp' /\ tmp' # Nothing /\ disk'[tmp'] = Torn
                      /\ fpc'[q] # "write" => handle'[q] = Nothing
                      /\ fpc'[q] = "rename" => tmp' # Nothing /\ disk'[tmp'] = cfg'[q]
    BY DEF InitInv, extends
  <2>1. CASE q = p
    BY <1>3, <1>4, <1>5, <1>6, <2>1 DEF InitInv, ConfigTypeOK
  <2>2. CASE q # p
    <3>1. /\ fpc'[q] = fpc[q] /\ cfg'[q] = cfg[q] /\ saves'[q] = saves[q]
      BY <1>1, <2>2 DEF ConfigTypeOK
    <3>. QED  BY <1>4, <3>1 DEF InitInv
  <2>. QED  BY <2>1, <2>2
<1>. QED  BY <1>4, <1>7, <1>8, <1>9

LEMMA OpenStep ==
    ASSUME ConfigConstants, ConfigInv, OneInit, NEW p \in Proc, Config!Open(p)
    PROVE  ConfigInv' /\ Config!load_config' = Config!load_config
<1> USE DEF ConfigInv, Config!Open, Config!goto
<1>1. Config!opened \in Config!File /\ Config!opened # current
  BY FreeFile
<1> DEFINE f == Config!opened
<1> HIDE DEF f
<1>2. f \in Config!File /\ f # current /\ tmp' = f /\ disk' = [disk EXCEPT ![f] = Torn]
      /\ handle' = [handle EXCEPT ![p] = f]
  BY <1>1 DEF f
<1>3. f # Nothing
  BY <1>2, FS_CardinalityType DEF Config!File, ConfigConstants
<1>4. ConfigTypeOK'
  BY <1>2 DEF ConfigTypeOK
<1>5. current # Nothing => disk'[current] = disk[current]
  BY <1>2 DEF ConfigTypeOK
<1>6. CurrentInv'
  BY <1>2, <1>5 DEF CurrentInv
<1>7. Config!load_config' = Config!load_config
  BY <1>5 DEF Config!load_config
<1>8. \A q \in Proc : q # p => fpc'[q] = "idle" /\ fpc[q] = "idle" /\ handle'[q] = handle[q]
  BY <1>2 DEF OneInit, ConfigTypeOK
<1>9. /\ fpc'[p] = "write" /\ handle'[p] = f /\ disk'[f] = Torn
      /\ saves'[p] > 0 /\ extends(cfg'[p], Config!load_config')
  BY <1>2, <1>7 DEF ConfigTypeOK, InitInv
<1>10. InitInv'
  BY <1>2, <1>3, <1>8, <1>9 DEF InitInv, extends
<1>. QED  BY <1>4, <1>6, <1>7, <1>10

LEMMA WriteTextStep ==
    ASSUME ConfigConstants, ConfigInv, OneInit, NEW p \in Proc, Config!Write(p)
    PROVE  ConfigInv' /\ Config!load_config' = Config!load_config
<1> USE DEF ConfigInv, Config!Write, Config!goto
<1>1. handle[p] = tmp /\ tmp # Nothing /\ disk[tmp] = Torn /\ tmp \in Config!File
  BY DEF InitInv, ConfigTypeOK
<1>2. disk' = [disk EXCEPT ![tmp] = cfg[p]]
  BY <1>1
<1>3. ConfigTypeOK'
  BY <1>1, <1>2 DEF ConfigTypeOK
<1>4. current # Nothing => disk'[current] = disk[current]
  BY <1>2 DEF ConfigTypeOK, CurrentInv
<1>5. CurrentInv'
  BY <1>4 DEF CurrentInv
<1>6. Config!load_config' = Config!load_config
  BY <1>4 DEF Config!load_config
<1>7. \A q \in Proc : q # p => fpc'[q] = "idle" /\ fpc[q] = "idle" /\ handle'[q] = handle[q]
  BY DEF OneInit, ConfigTypeOK
<1>8. /\ fpc'[p] = "rename" /\ handle'[p] = Nothing /\ disk'[tmp] = cfg[p]
      /\ saves'[p] > 0 /\ extends(cfg'[p], Config!load_config')
  BY <1>1, <1>2, <1>6 DEF ConfigTypeOK, InitInv
<1>9. InitInv'
  BY <1>1, <1>7, <1>8 DEF InitInv, extends
<1>. QED  BY <1>3, <1>5, <1>6, <1>9

\* The only step that changes what the next load finds.
LEMMA RenameStep ==
    ASSUME ConfigConstants, ConfigInv, OneInit, NEW p \in Proc, Config!Rename(p)
    PROVE  ConfigInv' /\ extends(Config!load_config', Config!load_config)
<1> USE DEF ConfigInv, Config!Rename, Config!goto
<1>1. /\ tmp # Nothing /\ tmp \in Config!File /\ disk[tmp] = cfg[p]
      /\ saves[p] \in 1 .. 2 /\ extends(cfg[p], Config!load_config)
      /\ cfg[p] \in Config!Config /\ handle[p] = Nothing
  BY DEF InitInv, ConfigTypeOK
<1>2. tmp' = Nothing /\ current' = tmp /\ saves' = [saves EXCEPT ![p] = @ - 1] /\ disk' = disk
  BY <1>1
<1>3. ConfigTypeOK'
  BY <1>1, <1>2 DEF ConfigTypeOK
<1>4. cfg[p] # Torn
  BY <1>1 DEF ConfigConstants
<1>5. CurrentInv'
  BY <1>1, <1>2, <1>4 DEF CurrentInv
<1>6. Config!load_config' = cfg[p]
  BY <1>1, <1>2, <1>4 DEF Config!load_config
<1>7. \A q \in Proc : q # p => fpc'[q] = "idle" /\ fpc[q] = "idle"
  BY DEF OneInit, ConfigTypeOK
<1>8. extends(cfg[p], cfg[p])
  BY DEF extends
<1>9. /\ fpc'[p] \in {"idle", "open"} /\ handle' = handle /\ cfg' = cfg
      /\ fpc'[p] # "idle" => saves'[p] > 0
  BY <1>1, <1>2 DEF ConfigTypeOK
<1>10. InitInv'
  BY <1>1, <1>6, <1>7, <1>8, <1>9 DEF InitInv, extends
<1>. QED  BY <1>1, <1>3, <1>5, <1>6, <1>10

LEMMA InitKilledStep ==
    ASSUME ConfigConstants, ConfigInv, OneInit, NEW p \in Proc, Config!Crash(p)
    PROVE  ConfigInv' /\ Config!load_config' = Config!load_config
<1> USE DEF ConfigInv, Config!Crash, Config!goto
<1>1. Config!load_config' = Config!load_config
  BY DEF Config!load_config
<1>2. ConfigTypeOK' /\ CurrentInv'
  BY DEF ConfigTypeOK, CurrentInv
<1>3. InitInv'
  BY <1>1 DEF InitInv, extends, ConfigTypeOK
<1>. QED  BY <1>1, <1>2, <1>3

LEMMA ConfigStep ==
    ASSUME ConfigConstants, ConfigInv, OneInit, [Config!Next]_(Config!vars)
    PROVE  ConfigInv' /\ extends(Config!load_config', Config!load_config)
<1>1. extends(Config!load_config, Config!load_config)
  BY DEF extends
<1>2. CASE UNCHANGED Config!vars
  <2>1. Config!load_config' = Config!load_config
    BY <1>2 DEF Config!vars, Config!load_config
  <2>2. ConfigTypeOK' /\ CurrentInv'
    BY <1>2 DEF Config!vars, ConfigInv, ConfigTypeOK, CurrentInv
  <2>3. InitInv'
    BY <1>2, <2>1 DEF Config!vars, ConfigInv, InitInv, extends
  <2>. QED  BY <1>1, <2>1, <2>2, <2>3 DEF ConfigInv
<1>3. ASSUME NEW p \in Proc,
             Config!Load(p) \/ Config!Open(p) \/ Config!Write(p) \/ Config!Crash(p)
      PROVE  ConfigInv' /\ Config!load_config' = Config!load_config
  BY <1>3, LoadStep, OpenStep, WriteTextStep, InitKilledStep
<1>4. ASSUME NEW p \in Proc, Config!Rename(p)
      PROVE  ConfigInv' /\ extends(Config!load_config', Config!load_config)
  BY <1>4, RenameStep
<1>. QED  BY <1>1, <1>2, <1>3, <1>4 DEF Config!Next

\* The inductive invariant of the configuration file, for inits one after another.
THEOREM ConfigInvariant ==
    ASSUME ConfigConstants PROVE Config!Spec /\ []OneInit => []ConfigInv
<1>1. Config!Init => ConfigInv
  BY ConfigInit
<1>2. ConfigInv /\ OneInit /\ [Config!Next]_(Config!vars) => ConfigInv'
  BY ConfigStep
<1>. QED  BY <1>1, <1>2, PTL DEF Config!Spec

\* config.rs, save_config: whatever moment an init is killed at, what a capture reads
\* is a whole configuration, the device keeps its id and no saved setting is lost, for
\* any number of inits that run one after another.
THEOREM ConfigSurvives ==
    ASSUME ConfigConstants
    PROVE  Config!Spec /\ []OneInit => []Config!ConfigIsWhole /\ Config!SavedStays
<1>1. ConfigInv => Config!ConfigIsWhole
  BY DEF ConfigInv, CurrentInv, Config!ConfigIsWhole
<1> DEFINE Saved == LET before == Config!load_config
                        after == Config!load_config'
                    IN  /\ before.device # Nothing => after.device = before.device
                        /\ before.settings \subseteq after.settings
<1>2. ConfigInv /\ OneInit /\ [Config!Next]_(Config!vars) => [Saved]_(Config!vars)
  BY ConfigStep DEF extends
<1>. QED  BY <1>1, <1>2, ConfigInvariant, PTL DEF Config!Spec, Config!SavedStays

-----------------------------------------------------------------------------
(***************************************************************************)
(* HookSettings.  What every process is about to write has the hooks of    *)
(* others that the file has, and none of aitrack's twice.                  *)
(***************************************************************************)
\* No file, and one that does not parse, are no settings; a missing array, and null, no
\* array.
Own == {"edit", "prompt"}

HooksConstants ==
    /\ Absent # Broken /\ {Absent, Broken} \cap Hooks!Settings = {}
    /\ Missing # Null /\ {Missing, Null} \cap [Hooks!Entry -> Nat] = {}

HookTypeOK == Hooks!TypeOK /\ placed \in [List -> Nat] /\ sjoined \in [List -> Nat]

\* How many entries of an array run a command.
number(v, l, e) == Hooks!entries(v[l])[e]

\* The hooks of others, also those in entries of aitrack that no remove is dropping.
carries(v, at) ==
    \A l \in List :
        /\ number(v, l, "other") = placed[l]
        /\ \/ Hooks!shared(v, l) >= sjoined[l]
           \/ at \in {"removing", "write_removed"} /\ Hooks!recognised(l) # {}

\* What a process writes has the hooks of others, unless a file was read that did not
\* parse.
OthersInv ==
    ~torn =>
        /\ settings = Absent => \A l \in List : placed[l] = 0 /\ sjoined[l] = 0
        /\ settings \notin {Absent, Broken} => carries(settings, "idle")
        /\ \A p \in Proc : spc[p] \notin {"idle", "read"} => carries(buf[p], spc[p])

\* An array has no hook of aitrack but its own, and that once.
single(v) ==
    \A l \in List : /\ Hooks!runs(v, l, Hooks!command(l)) <= 1
                    /\ \A c \in Own : c # Hooks!command(l) => Hooks!runs(v, l, c) = 0

\* As long as an array is yet to be looked at, it is as in the file.
HookedInv ==
    /\ single(Hooks!parsed(settings))
    /\ \A p \in Proc :
        /\ single(buf[p])
        /\ Rereads /\ spc[p] = "insert" =>
              \A l \in todo[p] : buf[p][l] = Hooks!parsed(settings)[l]

\* One installation or removal at a time.
OneCommand == \A p, q \in Proc : spc[p] # "idle" /\ spc[q] # "idle" => p = q

LEMMA Entries ==
    /\ "other" \in Hooks!Entry /\ Own \subseteq Hooks!Entry
    /\ \A c \in Own : Hooks!with_other(c) \in {"edit_other", "prompt_other"}
    /\ {"edit_other", "prompt_other"} \subseteq Hooks!Entry
    /\ \A l : Hooks!command(l) \in Own
  BY DEF Hooks!Entry, Hooks!with_other, Hooks!command, Own

LEMMA Numbers ==
    ASSUME HooksConstants, NEW v \in Hooks!Settings, NEW l \in List
    PROVE  /\ v[l] \in Hooks!Array /\ Hooks!entries(v[l]) \in [Hooks!Entry -> Nat]
           /\ \A e \in Hooks!Entry : number(v, l, e) \in Nat
           /\ \A c \in Own : Hooks!runs(v, l, c) \in Nat
           /\ Hooks!shared(v, l) \in Nat
<1>1. v[l] \in Hooks!Array
  BY DEF Hooks!Settings
<1>2. Hooks!entries(v[l]) \in [Hooks!Entry -> Nat]
  BY <1>1 DEF Hooks!Array, Hooks!entries, Hooks!no_entry
<1>3. \A e \in Hooks!Entry : number(v, l, e) \in Nat
  BY <1>2 DEF number
<1>4. \A c \in Own : Hooks!runs(v, l, c) = number(v, l, c) + number(v, l, Hooks!with_other(c))
  BY DEF Hooks!runs, number
<1>5. Hooks!shared(v, l) = number(v, l, "edit_other") + number(v, l, "prompt_other")
  BY DEF Hooks!shared, number
<1>. QED  BY <1>1, <1>2, <1>3, <1>4, <1>5, Entries

LEMMA EmptySettings ==
    /\ Hooks!empty \in Hooks!Settings
    /\ \A l \in List : \A e \in Hooks!Entry : number(Hooks!empty, l, e) = 0
    /\ \A l \in List : \A c \in Own : Hooks!runs(Hooks!empty, l, c) = 0
    /\ \A l \in List : Hooks!shared(Hooks!empty, l) = 0
<1>1. \A l \in List : Hooks!empty[l] = Missing
  BY DEF Hooks!empty
<1>2. \A l \in List : \A e \in Hooks!Entry : Hooks!entries(Hooks!empty[l])[e] = 0
  BY <1>1 DEF Hooks!entries, Hooks!no_entry
<1>3. \A l \in List : \A c \in Own : Hooks!runs(Hooks!empty, l, c) = 0
  BY <1>2, Entries DEF Hooks!runs
<1>4. \A l \in List : Hooks!shared(Hooks!empty, l) = 0
  BY <1>2, Entries DEF Hooks!shared
<1>. QED  BY <1>1, <1>2, <1>3, <1>4 DEF Hooks!empty, Hooks!Settings, Hooks!Array, number

LEMMA ParsedSettings ==
    ASSUME HookTypeOK, HooksConstants
    PROVE  /\ Hooks!parsed(settings) \in Hooks!Settings
           /\ settings \notin {Absent, Broken} =>
                 settings \in Hooks!Settings /\ Hooks!parsed(settings) = settings
           /\ settings \in {Absent, Broken} => Hooks!parsed(settings) = Hooks!empty
  BY EmptySettings DEF HookTypeOK, Hooks!TypeOK, Hooks!parsed

\* One entry more, unless the array is null.
LEMMA PushedNumbers ==
    ASSUME HooksConstants, NEW v \in Hooks!Settings, NEW l \in List, NEW e \in Hooks!Entry,
           NEW w, w[l] = Hooks!pushed(v[l], e)
    PROVE  /\ w[l] \in Hooks!Array
           /\ \A x \in Hooks!Entry : number(w, l, x) =
                 IF v[l] # Null /\ x = e THEN number(v, l, x) + 1 ELSE number(v, l, x)
<1>1. v[l] \in Hooks!Array /\ Hooks!entries(v[l]) \in [Hooks!Entry -> Nat]
  BY Numbers
<1>2. CASE v[l] = Null
  BY <1>1, <1>2 DEF Hooks!pushed, number
<1>3. CASE v[l] # Null
  <2>1. /\ w[l] = [Hooks!entries(v[l]) EXCEPT ![e] = @ + 1]
        /\ w[l] \in [Hooks!Entry -> Nat]
    BY <1>1, <1>3 DEF Hooks!pushed
  <2>2. Hooks!entries(w[l]) = w[l]
    BY <2>1 DEF Hooks!entries, HooksConstants
  <2>. QED  BY <1>1, <1>3, <2>1, <2>2 DEF number, Hooks!Array
<1>. QED  BY <1>2, <1>3

\* Other programs' entries stay, and none is added.
LEMMA RemovedNumbers ==
    ASSUME HooksConstants, NEW v \in Hooks!Settings
    PROVE  /\ Hooks!removed(v) \in Hooks!Settings
           /\ \A l \in List :
                /\ number(Hooks!removed(v), l, "other") = number(v, l, "other")
                /\ \A e \in Hooks!Entry : number(Hooks!removed(v), l, e) <= number(v, l, e)
                /\ Hooks!recognised(l) = {} =>
                       \A e \in Hooks!Entry : number(Hooks!removed(v), l, e) = number(v, l, e)
<1> DEFINE left(l) == [e \in Hooks!Entry |-> IF e \in Hooks!recognised(l) THEN 0 ELSE v[l][e]]
<1>1. ASSUME NEW l \in List
      PROVE  /\ Hooks!removed(v)[l] \in Hooks!Array
             /\ number(Hooks!removed(v), l, "other") = number(v, l, "other")
             /\ \A e \in Hooks!Entry : number(Hooks!removed(v), l, e) <= number(v, l, e)
             /\ Hooks!recognised(l) = {} =>
                    \A e \in Hooks!Entry : number(Hooks!removed(v), l, e) = number(v, l, e)
  <2>1. v[l] \in Hooks!Array /\ Hooks!entries(v[l]) \in [Hooks!Entry -> Nat]
    BY Numbers
  <2>2. CASE v[l] \in {Missing, Null}
    <3>1. Hooks!removed(v)[l] = Null
      BY <2>2 DEF Hooks!removed
    <3>2. \A e \in Hooks!Entry : number(Hooks!removed(v), l, e) = 0 /\ number(v, l, e) = 0
      BY <2>2, <3>1 DEF number, Hooks!entries, Hooks!no_entry
    <3>. QED  BY <3>1, <3>2 DEF Hooks!Array, Hooks!Entry
  <2>3. CASE v[l] \notin {Missing, Null}
    <3>1. v[l] \in [Hooks!Entry -> Nat] /\ Hooks!entries(v[l]) = v[l]
      BY <2>1, <2>3 DEF Hooks!Array, Hooks!entries
    <3>2. left(l) \in [Hooks!Entry -> Nat]
      BY <3>1
    <3>3. /\ Hooks!removed(v)[l] \in Hooks!Array
          /\ Hooks!entries(Hooks!removed(v)[l]) = left(l)
      <4>1. Hooks!removed(v)[l] = IF left(l) = Hooks!no_entry THEN Missing ELSE left(l)
        BY <2>3 DEF Hooks!removed
      <4>2. left(l) \notin {Missing, Null}
        BY <3>2 DEF HooksConstants
      <4>. QED  BY <3>2, <4>1, <4>2 DEF Hooks!Array, Hooks!entries
    <3>4. "other" \notin Hooks!recognised(l) /\ "other" \in Hooks!Entry
      BY DEF Hooks!recognised, Hooks!Entry
    <3>5. \A e \in Hooks!Entry : left(l)[e] = (IF e \in Hooks!recognised(l) THEN 0 ELSE v[l][e])
      OBVIOUS
    <3>. QED  BY <3>1, <3>3, <3>4, <3>5 DEF number
  <2>. QED  BY <2>2, <2>3
<1>2. Hooks!removed(v) \in Hooks!Settings
  BY <1>1 DEF Hooks!removed, Hooks!Settings
<1>. QED  BY <1>1, <1>2

\* What the user does to the file.
LEMMA UserNumbers ==
    ASSUME HooksConstants, HookTypeOK, Hooks!UserEdit
    PROVE  /\ settings \in Hooks!Settings /\ settings' \in Hooks!Settings
           /\ placed' \in [List -> Nat] /\ sjoined' \in [List -> Nat]
           /\ \A l \in List :
                 /\ number(settings', l, "other") - placed'[l] = number(settings, l, "other") - placed[l]
                 /\ Hooks!shared(settings, l) >= sjoined[l] => Hooks!shared(settings', l) >= sjoined'[l]
                 /\ \A c \in Own : Hooks!runs(settings', l, c) <= Hooks!runs(settings, l, c)
<1>1. settings \in Hooks!Settings /\ placed \in [List -> Nat] /\ sjoined \in [List -> Nat]
  BY DEF Hooks!UserEdit, HookTypeOK, Hooks!TypeOK
<1>2. PICK l \in List : Hooks!AddOther(l) \/ Hooks!DropOwn(l)
  BY DEF Hooks!UserEdit
<1> DEFINE n == Hooks!entries(settings[l])
           o == n["edit_other"] + n["prompt_other"]
<1>3. n \in [Hooks!Entry -> Nat] /\ settings[l] \in Hooks!Array
  BY <1>1, Numbers
<1>4. /\ n["other"] \in Nat /\ o \in Nat
      /\ n["edit"] \in Nat /\ n["prompt"] \in Nat /\ n["edit_other"] \in Nat /\ n["prompt_other"] \in Nat
  BY <1>3 DEF Hooks!Entry
<1>5. placed[l] \in Nat /\ sjoined[l] \in Nat
  BY <1>1
\* It is enough to look at the array that is edited.
<1>6. ASSUME NEW a \in [Hooks!Entry -> Nat], settings' = [settings EXCEPT ![l] = a],
             NEW d \in Nat, placed' = [placed EXCEPT ![l] = @ + d], a["other"] = n["other"] + d,
             NEW j \in Nat, sjoined' = [sjoined EXCEPT ![l] = j],
             o >= sjoined[l] => a["edit_other"] + a["prompt_other"] >= j,
             a["edit"] + a["edit_other"] <= n["edit"] + n["edit_other"],
             a["prompt"] + a["prompt_other"] <= n["prompt"] + n["prompt_other"]
      PROVE  /\ settings' \in Hooks!Settings
             /\ placed' \in [List -> Nat] /\ sjoined' \in [List -> Nat]
             /\ \A k \in List :
                   /\ number(settings', k, "other") - placed'[k] = number(settings, k, "other") - placed[k]
                   /\ Hooks!shared(settings, k) >= sjoined[k] => Hooks!shared(settings', k) >= sjoined'[k]
                   /\ \A c \in Own : Hooks!runs(settings', k, c) <= Hooks!runs(settings, k, c)
  <2>1. /\ settings' \in Hooks!Settings
        /\ \A x \in Hooks!Entry : number(settings', l, x) = a[x]
        /\ \A k \in List : k # l => settings'[k] = settings[k]
    <3>1. settings' = [settings EXCEPT ![l] = a] /\ settings \in [List -> Hooks!Array]
      BY <1>1, <1>6 DEF Hooks!Settings
    <3>2. /\ settings' \in [List -> Hooks!Array] /\ settings'[l] = a
          /\ \A k \in List : k # l => settings'[k] = settings[k]
      BY <3>1 DEF Hooks!Array
    <3>3. Hooks!entries(settings'[l]) = a
      BY <3>2 DEF Hooks!entries, HooksConstants
    <3>. QED  BY <3>2, <3>3 DEF Hooks!Settings, number
  <2>2. /\ placed' \in [List -> Nat] /\ sjoined' \in [List -> Nat]
        /\ placed'[l] = placed[l] + d /\ sjoined'[l] = j
        /\ \A k \in List : k # l => placed'[k] = placed[k] /\ sjoined'[k] = sjoined[k]
    BY <1>1, <1>6
  <2>3. ASSUME NEW k \in List, k # l
        PROVE  /\ number(settings', k, "other") - placed'[k] = number(settings, k, "other") - placed[k]
               /\ Hooks!shared(settings, k) >= sjoined[k] => Hooks!shared(settings', k) >= sjoined'[k]
               /\ \A c \in Own : Hooks!runs(settings', k, c) <= Hooks!runs(settings, k, c)
    <3>1. settings'[k] = settings[k] /\ placed'[k] = placed[k] /\ sjoined'[k] = sjoined[k]
      BY <2>1, <2>2, <2>3
    <3>2. \A c \in Own : Hooks!runs(settings, k, c) \in Nat
      BY <1>1, Numbers
    <3>3. \A c \in Own : Hooks!runs(settings', k, c) = Hooks!runs(settings, k, c)
      BY <3>1 DEF Hooks!runs
    <3>. QED  BY <3>1, <3>2, <3>3 DEF number, Hooks!shared
  <2>4. number(settings', l, "other") - placed'[l] = number(settings, l, "other") - placed[l]
    <3>1. number(settings', l, "other") = n["other"] + d /\ number(settings, l, "other") = n["other"]
      BY <1>6, <2>1, Entries DEF number
    <3>. QED  BY <1>4, <1>5, <2>2, <3>1
  <2>5. Hooks!shared(settings, l) >= sjoined[l] => Hooks!shared(settings', l) >= sjoined'[l]
    <3>1. Hooks!shared(settings', l) = a["edit_other"] + a["prompt_other"] /\ Hooks!shared(settings, l) = o
      BY <2>1, Entries DEF number, Hooks!shared
    <3>. QED  BY <1>6, <2>2, <3>1
  <2>6. ASSUME NEW c \in Own PROVE Hooks!runs(settings', l, c) <= Hooks!runs(settings, l, c)
    <3>1. Hooks!runs(settings', l, c) = a[c] + a[Hooks!with_other(c)]
      BY <2>1, Entries DEF number, Hooks!runs
    <3>2. Hooks!runs(settings, l, c) = n[c] + n[Hooks!with_other(c)]
      BY DEF Hooks!runs
    <3>3. \/ c = "edit" /\ Hooks!with_other(c) = "edit_other"
          \/ c = "prompt" /\ Hooks!with_other(c) = "prompt_other"
      BY DEF Own, Hooks!with_other
    <3>. QED  BY <1>6, <3>1, <3>2, <3>3
  <2>7. ASSUME NEW k \in List
        PROVE  /\ number(settings', k, "other") - placed'[k] = number(settings, k, "other") - placed[k]
               /\ Hooks!shared(settings, k) >= sjoined[k] => Hooks!shared(settings', k) >= sjoined'[k]
               /\ \A c \in Own : Hooks!runs(settings', k, c) <= Hooks!runs(settings, k, c)
    BY <2>3, <2>4, <2>5, <2>6
  <2>. QED  BY <2>1, <2>2, <2>7
<1>7. CASE /\ settings[l] # Null
           /\ settings' = [settings EXCEPT ![l] = Hooks!pushed(@, "other")]
           /\ placed' = [placed EXCEPT ![l] = @ + 1]
           /\ UNCHANGED sjoined
  <2> DEFINE a == [n EXCEPT !["other"] = @ + 1]
  <2>1. a \in [Hooks!Entry -> Nat] /\ settings' = [settings EXCEPT ![l] = a]
    <3>1. Hooks!pushed(settings[l], "other") = a
      BY <1>7 DEF Hooks!pushed
    <3>2. settings' = [settings EXCEPT ![l] = Hooks!pushed(settings[l], "other")]
      BY <1>7
    <3>3. a \in [Hooks!Entry -> Nat]
      <4> HIDE DEF n, o
      <4>1. n["other"] + 1 \in Nat
        BY <1>4
      <4>. QED  BY <1>3, <4>1
    <3>. QED  BY <3>1, <3>2, <3>3
  <2>2. /\ a["other"] = n["other"] + 1 /\ a["edit"] = n["edit"] /\ a["prompt"] = n["prompt"]
        /\ a["edit_other"] = n["edit_other"] /\ a["prompt_other"] = n["prompt_other"]
    BY <1>3, Entries DEF Own
  <2>3. sjoined' = [sjoined EXCEPT ![l] = sjoined[l]]
    BY <1>1, <1>7
  <2> HIDE DEF a, n
  <2>4. /\ o >= sjoined[l] => a["edit_other"] + a["prompt_other"] >= sjoined[l]
        /\ a["edit"] + a["edit_other"] <= n["edit"] + n["edit_other"]
        /\ a["prompt"] + a["prompt_other"] <= n["prompt"] + n["prompt_other"]
    BY <1>4, <2>2
  <2>. QED  BY <1>1, <1>5, <1>6, <1>7, <2>1, <2>2, <2>3, <2>4
<1>8. CASE \E c \in {"edit", "prompt"} :
             /\ n[c] > 0
             /\ settings' = [settings EXCEPT ![l][c] = @ - 1, ![l][Hooks!with_other(c)] = @ + 1]
             /\ sjoined' = [sjoined EXCEPT ![l] = @ + 1]
             /\ UNCHANGED placed
  <2>1. PICK c \in {"edit", "prompt"} :
             /\ n[c] > 0
             /\ settings' = [settings EXCEPT ![l][c] = @ - 1, ![l][Hooks!with_other(c)] = @ + 1]
             /\ sjoined' = [sjoined EXCEPT ![l] = @ + 1]
             /\ UNCHANGED placed
    BY <1>8
  <2>2. settings[l] = n
    <3>1. settings[l] \in {Missing, Null} => n[c] = 0
      BY Entries DEF Hooks!entries, Hooks!no_entry, Own
    <3>. QED  BY <2>1, <3>1 DEF Hooks!entries
  <2> DEFINE a == [n EXCEPT ![c] = @ - 1, ![Hooks!with_other(c)] = @ + 1]
  <2>3. settings' = [settings EXCEPT ![l] = a]
    BY <1>1, <2>1, <2>2 DEF Hooks!Settings
  <2>4. /\ a \in [Hooks!Entry -> Nat] /\ a["other"] = n["other"] + 0
        /\ a["edit"] + a["edit_other"] = n["edit"] + n["edit_other"]
        /\ a["prompt"] + a["prompt_other"] = n["prompt"] + n["prompt_other"]
        /\ a["edit_other"] + a["prompt_other"] = o + 1
    <3>1. CASE c = "edit" /\ Hooks!with_other(c) = "edit_other"
      <4>1. /\ a \in [Hooks!Entry -> Nat] /\ a["other"] = n["other"] /\ a["edit"] = n["edit"] - 1
            /\ a["edit_other"] = n["edit_other"] + 1
            /\ a["prompt"] = n["prompt"] /\ a["prompt_other"] = n["prompt_other"]
        BY <1>3, <1>4, <2>1, <3>1 DEF Hooks!Entry
      <4> HIDE DEF a, n
      <4>. QED  BY <1>4, <4>1
    <3>2. CASE c = "prompt" /\ Hooks!with_other(c) = "prompt_other"
      <4>1. /\ a \in [Hooks!Entry -> Nat] /\ a["other"] = n["other"] /\ a["prompt"] = n["prompt"] - 1
            /\ a["prompt_other"] = n["prompt_other"] + 1
            /\ a["edit"] = n["edit"] /\ a["edit_other"] = n["edit_other"]
        BY <1>3, <1>4, <2>1, <3>2 DEF Hooks!Entry
      <4> HIDE DEF a, n
      <4>. QED  BY <1>4, <4>1
    <3>3. \/ c = "edit" /\ Hooks!with_other(c) = "edit_other"
          \/ c = "prompt" /\ Hooks!with_other(c) = "prompt_other"
      BY DEF Hooks!with_other
    <3>. QED  BY <3>1, <3>2, <3>3
  <2>5. placed' = [placed EXCEPT ![l] = @ + 0] /\ sjoined' = [sjoined EXCEPT ![l] = sjoined[l] + 1]
    BY <1>1, <1>5, <2>1
  <2> HIDE DEF a, n
  <2>6. /\ o >= sjoined[l] => a["edit_other"] + a["prompt_other"] >= sjoined[l] + 1
        /\ a["edit"] + a["edit_other"] <= n["edit"] + n["edit_other"]
        /\ a["prompt"] + a["prompt_other"] <= n["prompt"] + n["prompt_other"]
    BY <1>4, <1>5, <2>4
  <2>7. a["other"] = n["other"] + 0 /\ 0 \in Nat /\ sjoined[l] + 1 \in Nat
    BY <1>5, <2>4
  <2>8. a \in [Hooks!Entry -> Nat]
    BY <2>4
  <2> HIDE DEF o
  <2>. QED  BY <1>1, <1>6, <2>3, <2>5, <2>6, <2>7, <2>8
<1>9. CASE Hooks!DropOwn(l)
  <2> DEFINE a == [e \in Hooks!Entry |->
                      IF e = "other" THEN Hooks!others(settings, l) + Hooks!shared(settings, l) ELSE 0]
  <2>1. /\ settings' = [settings EXCEPT ![l] = a]
        /\ placed' = [placed EXCEPT ![l] = @ + Hooks!shared(settings, l)]
        /\ sjoined' = [sjoined EXCEPT ![l] = 0]
    BY <1>9 DEF Hooks!DropOwn
  <2>2. Hooks!others(settings, l) = n["other"] /\ Hooks!shared(settings, l) = o
    BY DEF Hooks!others, Hooks!shared
  <2>3. /\ a \in [Hooks!Entry -> Nat] /\ a["other"] = n["other"] + o
        /\ a["edit"] = 0 /\ a["prompt"] = 0 /\ a["edit_other"] = 0 /\ a["prompt_other"] = 0
    <3> HIDE DEF n, o
    <3>. QED  BY <1>4, <2>2 DEF Hooks!Entry
  <2> HIDE DEF a, n
  <2>4. /\ o >= sjoined[l] => a["edit_other"] + a["prompt_other"] >= 0
        /\ a["edit"] + a["edit_other"] <= n["edit"] + n["edit_other"]
        /\ a["prompt"] + a["prompt_other"] <= n["prompt"] + n["prompt_other"]
    BY <1>4, <2>3
  <2>. QED  BY <1>1, <1>4, <1>6, <2>1, <2>2, <2>3, <2>4
<1>. QED  BY <1>2, <1>7, <1>8, <1>9 DEF Hooks!AddOther

LEMMA HookTypeStep ==
    ASSUME HooksConstants, HookTypeOK, [Hooks!Next]_(Hooks!vars)
    PROVE  HookTypeOK'
<1> USE DEF HookTypeOK, Hooks!TypeOK
<1>1. CASE UNCHANGED Hooks!vars
  BY <1>1 DEF Hooks!vars, Hooks!env_vars
<1>2. ASSUME NEW p \in Proc, Hooks!StartInstall(p)
      PROVE  HookTypeOK'
  <2>1. PICK place \in {"idle", "read"} : spc' = [spc EXCEPT ![p] = place]
    BY <1>2 DEF Hooks!StartInstall, Hooks!goto
  <2>. QED  BY <1>2, <2>1 DEF Hooks!StartInstall, Hooks!env_vars
<1>3. ASSUME NEW p \in Proc, Hooks!ReadSettings(p)
      PROVE  HookTypeOK'
  <2>1. buf' \in [Proc -> Hooks!Settings]
    BY <1>3, ParsedSettings DEF Hooks!ReadSettings, Hooks!keep_in_mind
  <2>2. torn' \in BOOLEAN
    BY <1>3 DEF Hooks!ReadSettings, Hooks!reading
  <2>. QED  BY <1>3, <2>1, <2>2 DEF Hooks!ReadSettings, Hooks!goto, Hooks!env_vars
<1>4. ASSUME NEW p \in Proc, Hooks!EnsureHook(p)
      PROVE  HookTypeOK'
  <2>1. PICK l \in todo[p] :
          /\ todo' = [todo EXCEPT ![p] = @ \ {l}]
          /\ \/ UNCHANGED buf
             \/ buf' = [buf EXCEPT ![p] = [buf[p] EXCEPT ![l] = Hooks!pushed(@, Hooks!command(l))]]
    BY <1>4 DEF Hooks!EnsureHook, Hooks!keep_in_mind
  <2>2. l \in List /\ buf[p] \in Hooks!Settings /\ Hooks!command(l) \in Hooks!Entry
    BY <2>1 DEF Hooks!command, Hooks!Entry
  <2>3. [buf[p] EXCEPT ![l] = Hooks!pushed(@, Hooks!command(l))] \in Hooks!Settings
    <3> DEFINE w == [buf[p] EXCEPT ![l] = Hooks!pushed(@, Hooks!command(l))]
    <3>1. w[l] = Hooks!pushed(buf[p][l], Hooks!command(l))
      BY <2>2 DEF Hooks!Settings
    <3>2. w[l] \in Hooks!Array
      <4> HIDE DEF w
      <4>. QED  BY <2>2, <3>1, PushedNumbers
    <3>. QED  BY <2>2, <3>2 DEF Hooks!Settings
  <2>4. buf' \in [Proc -> Hooks!Settings]
    BY <2>1, <2>3
  <2>. QED  BY <1>4, <2>1, <2>4 DEF Hooks!EnsureHook, Hooks!env_vars
<1>5. ASSUME NEW p \in Proc, Hooks!StartRemove(p)
      PROVE  HookTypeOK'
  <2>1. buf' \in [Proc -> Hooks!Settings]
    BY <1>5, ParsedSettings, RemovedNumbers DEF Hooks!StartRemove, Hooks!keep_in_mind
  <2>2. torn' \in BOOLEAN
    BY <1>5 DEF Hooks!StartRemove, Hooks!reading
  <2>3. PICK place \in {spc[p], "removing"} : spc' = [spc EXCEPT ![p] = place]
    BY <1>5 DEF Hooks!StartRemove, Hooks!goto
  <2>. QED  BY <1>5, <2>1, <2>2, <2>3 DEF Hooks!StartRemove, Hooks!env_vars
<1>6. ASSUME NEW p \in Proc, Hooks!Truncate(p)
      PROVE  HookTypeOK'
  <2>1. PICK place \in {"write_installed", "write_removed"} : spc' = [spc EXCEPT ![p] = place]
    BY <1>6 DEF Hooks!Truncate, Hooks!goto
  <2>. QED  BY <1>6, <2>1 DEF Hooks!Truncate, Hooks!env_vars
<1>7. ASSUME NEW p \in Proc, Hooks!WriteSettings(p) \/ Hooks!Crash(p)
      PROVE  HookTypeOK'
  <2>1. sjoined' \in [List -> Nat]
    BY <1>7 DEF Hooks!WriteSettings, Hooks!Crash, Hooks!env_vars
  <2>2. placed' \in [List -> Nat]
    BY <1>7 DEF Hooks!WriteSettings, Hooks!Crash, Hooks!env_vars
  <2>. QED
    BY <1>7, <2>1, <2>2, EmptySettings
    DEF Hooks!WriteSettings, Hooks!Crash, Hooks!keep_in_mind, Hooks!goto
<1>8. CASE Hooks!UserEdit
  BY <1>8, UserNumbers DEF Hooks!UserEdit
<1>. QED  BY <1>1, <1>2, <1>3, <1>4, <1>5, <1>6, <1>7, <1>8 DEF Hooks!Next

LEMMA OthersStep ==
    ASSUME HooksConstants, HookTypeOK, OthersInv, [Hooks!Next]_(Hooks!vars)
    PROVE  OthersInv'
<1>1. /\ spc \in [Proc -> {"idle", "read", "insert", "removing", "write_installed", "write_removed"}]
      /\ buf \in [Proc -> Hooks!Settings] /\ todo \in [Proc -> SUBSET List] /\ torn \in BOOLEAN
      /\ placed \in [List -> Nat] /\ sjoined \in [List -> Nat]
  BY DEF HookTypeOK, Hooks!TypeOK
\* The file stays, and a process has the hooks of others.
<1>2. ASSUME NEW p \in Proc, NEW v, NEW place, UNCHANGED <<settings, placed, sjoined>>,
             torn => torn', buf' = [buf EXCEPT ![p] = v], spc' = [spc EXCEPT ![p] = place],
             ~torn' /\ place \notin {"idle", "read"} => carries(v, place)
      PROVE  OthersInv'
  <2> SUFFICES ASSUME ~torn' PROVE OthersInv'
    BY DEF OthersInv
  <2>1. ~torn
    BY <1>2
  <2>2. ASSUME NEW q \in Proc, spc'[q] \notin {"idle", "read"}
        PROVE  carries(buf'[q], spc'[q])
    <3>1. CASE q = p
      BY <1>1, <1>2, <2>2, <3>1
    <3>2. CASE q # p
      BY <1>1, <1>2, <2>1, <2>2, <3>2 DEF OthersInv
    <3>. QED  BY <3>1, <3>2
  <2>3. settings \notin {Absent, Broken} => carries(settings, "idle")
    BY <2>1 DEF OthersInv
  <2>4. settings = Absent => \A l \in List : placed[l] = 0 /\ sjoined[l] = 0
    BY <2>1 DEF OthersInv
  <2>. QED  BY <1>2, <2>2, <2>3, <2>4 DEF OthersInv, carries, number, Hooks!shared
\* What a process has parsed.
<1>3. ~torn /\ settings # Broken => carries(Hooks!parsed(settings), "idle")
  <2>1. CASE settings = Absent
    BY <1>1, <2>1, ParsedSettings, EmptySettings, Entries DEF OthersInv, carries
  <2>2. CASE settings \notin {Absent, Broken}
    BY <2>2, ParsedSettings DEF OthersInv
  <2>. QED  BY <2>1, <2>2
<1>4. \A v, at : carries(v, "idle") => carries(v, at)
  BY DEF carries
<1>5. CASE UNCHANGED Hooks!vars
  BY <1>5 DEF Hooks!vars, Hooks!env_vars, OthersInv, carries, number, Hooks!shared
<1>6. ASSUME NEW p \in Proc, Hooks!StartInstall(p)
      PROVE  OthersInv'
  <2>1. PICK place \in {"idle", "read"} : spc' = [spc EXCEPT ![p] = place]
    BY <1>6 DEF Hooks!StartInstall, Hooks!goto
  <2>2. buf' = [buf EXCEPT ![p] = buf[p]] /\ UNCHANGED <<settings, placed, sjoined, torn>>
    BY <1>1, <1>6 DEF Hooks!StartInstall, Hooks!env_vars
  <2>. QED  BY <1>2, <2>1, <2>2
<1>7. ASSUME NEW p \in Proc, Hooks!ReadSettings(p)
      PROVE  OthersInv'
  <2>1. /\ UNCHANGED <<settings, placed, sjoined>> /\ spc' = [spc EXCEPT ![p] = "insert"]
        /\ buf' = [buf EXCEPT ![p] = Hooks!parsed(settings)]
        /\ torn' = (torn \/ settings = Broken)
    BY <1>7 DEF Hooks!ReadSettings, Hooks!goto, Hooks!keep_in_mind, Hooks!reading, Hooks!env_vars
  <2>. QED  BY <1>2, <1>3, <1>4, <2>1
<1>8. ASSUME NEW p \in Proc, Hooks!EnsureHook(p)
      PROVE  OthersInv'
  <2>1. PICK l \in todo[p] :
          \/ UNCHANGED buf
          \/ buf' = [buf EXCEPT ![p] = [buf[p] EXCEPT ![l] = Hooks!pushed(@, Hooks!command(l))]]
    BY <1>8 DEF Hooks!EnsureHook, Hooks!keep_in_mind
  <2>2. /\ UNCHANGED <<settings, placed, sjoined, torn>> /\ spc[p] = "insert"
        /\ spc' = [spc EXCEPT ![p] = "insert"]
    BY <1>1, <1>8 DEF Hooks!EnsureHook, Hooks!env_vars
  <2>3. ~torn => carries(buf[p], "insert")
    BY <2>2 DEF OthersInv
  <2>4. CASE UNCHANGED buf
    <3>1. buf' = [buf EXCEPT ![p] = buf[p]]
      BY <1>1, <2>4
    <3>. QED  BY <1>2, <2>2, <2>3, <3>1
  <2>5. CASE buf' = [buf EXCEPT ![p] = [buf[p] EXCEPT ![l] = Hooks!pushed(@, Hooks!command(l))]]
    <3> DEFINE w == [buf[p] EXCEPT ![l] = Hooks!pushed(@, Hooks!command(l))]
    <3>1. /\ l \in List /\ buf[p] \in Hooks!Settings
          /\ Hooks!command(l) \in Hooks!Entry \ {"other", "edit_other", "prompt_other"}
      BY <1>1, <2>1 DEF Hooks!command, Hooks!Entry
    <3>2. w[l] = Hooks!pushed(buf[p][l], Hooks!command(l)) /\ \A k \in List : k # l => w[k] = buf[p][k]
      BY <3>1 DEF Hooks!Settings
    <3>3. buf' = [buf EXCEPT ![p] = w]
      BY <2>5
    <3> HIDE DEF w
    <3>4. \A x \in Hooks!Entry : x # Hooks!command(l) => number(w, l, x) = number(buf[p], l, x)
      BY <3>1, <3>2, PushedNumbers
    <3>5. \A k \in List : /\ number(w, k, "other") = number(buf[p], k, "other")
                           /\ number(w, k, "edit_other") = number(buf[p], k, "edit_other")
                           /\ number(w, k, "prompt_other") = number(buf[p], k, "prompt_other")
      BY <3>1, <3>2, <3>4, Entries DEF number
    <3>6. \A k \in List : Hooks!shared(w, k) = Hooks!shared(buf[p], k)
      BY <3>5 DEF number, Hooks!shared
    <3>7. ~torn => carries(w, "insert")
      BY <2>3, <3>5, <3>6 DEF carries
    <3>. QED  BY <1>2, <2>2, <3>3, <3>7
  <2>. QED  BY <2>1, <2>4, <2>5
<1>9. ASSUME NEW p \in Proc, Hooks!StartRemove(p)
      PROVE  OthersInv'
  <2>1. CASE settings = Absent
    <3>1. UNCHANGED <<settings, placed, sjoined, spc, buf, torn>>
      BY <1>9, <2>1 DEF Hooks!StartRemove, Hooks!env_vars
    <3>. QED  BY <3>1 DEF OthersInv, carries, number, Hooks!shared
  <2>2. CASE settings # Absent
    <3> DEFINE v == Hooks!parsed(settings)
               w == Hooks!removed(v)
    <3>1. /\ UNCHANGED <<settings, placed, sjoined>> /\ spc' = [spc EXCEPT ![p] = "removing"]
          /\ buf' = [buf EXCEPT ![p] = w]
          /\ torn' = (torn \/ settings = Broken)
      BY <1>9, <2>2 DEF Hooks!StartRemove, Hooks!goto, Hooks!keep_in_mind, Hooks!reading, Hooks!env_vars
    <3>2. v \in Hooks!Settings
      BY ParsedSettings
    <3> HIDE DEF v
    <3>3. \A l \in List :
              /\ number(w, l, "other") = number(v, l, "other")
              /\ Hooks!recognised(l) = {} =>
                     \A e \in Hooks!Entry : number(w, l, e) = number(v, l, e)
      BY <3>2, RemovedNumbers
    <3> HIDE DEF w
    <3>4. \A l \in List : Hooks!recognised(l) = {} => Hooks!shared(w, l) = Hooks!shared(v, l)
      BY <3>3, Entries DEF Hooks!shared, number
    <3>5. carries(v, "idle") => carries(w, "removing")
      BY <3>3, <3>4 DEF carries
    <3>6. ~torn /\ settings # Broken => carries(v, "idle")
      BY <1>3 DEF v
    <3>. QED  BY <1>2, <3>1, <3>5, <3>6
  <2>. QED  BY <2>1, <2>2
<1>10. ASSUME NEW p \in Proc, Hooks!Truncate(p)
       PROVE  OthersInv'
  <2>1. PICK place : /\ spc' = [spc EXCEPT ![p] = place] /\ spc[p] \notin {"idle", "read"}
                     /\ spc[p] = "removing" => place = "write_removed"
    BY <1>10 DEF Hooks!Truncate, Hooks!goto
  <2>2. UNCHANGED <<placed, sjoined, buf, torn>> /\ settings' = Broken
    BY <1>10 DEF Hooks!Truncate, Hooks!env_vars
  <2>3. \A q \in Proc : spc'[q] \notin {"idle", "read"} => spc[q] \notin {"idle", "read"}
    BY <1>1, <2>1
  <2>4. spc[p] # "write_removed"
    BY <1>10 DEF Hooks!Truncate
  <2>5. \A q \in Proc : spc[q] \in {"removing", "write_removed"} => spc'[q] \in {"removing", "write_removed"}
    BY <1>1, <2>1, <2>4
  <2>6. Broken # Absent
    BY DEF HooksConstants
  <2>7. ASSUME ~torn, NEW q \in Proc, spc'[q] \notin {"idle", "read"}
        PROVE  carries(buf[q], spc'[q])
    BY <2>3, <2>5, <2>7 DEF OthersInv, carries
  <2>. QED  BY <2>2, <2>6, <2>7 DEF OthersInv, carries, number, Hooks!shared
<1>11. ASSUME NEW p \in Proc, Hooks!WriteSettings(p)
       PROVE  OthersInv'
  <2>1. /\ settings' = buf[p] /\ UNCHANGED <<placed, torn>>
        /\ spc[p] \in {"write_installed", "write_removed"}
        /\ spc' = [spc EXCEPT ![p] = "idle"] /\ buf' = [buf EXCEPT ![p] = Hooks!empty]
        /\ sjoined' = IF spc[p] = "write_installed" THEN sjoined
                      ELSE [l \in List |-> IF Hooks!recognised(l) = {} THEN sjoined[l] ELSE 0]
    BY <1>11 DEF Hooks!WriteSettings, Hooks!goto, Hooks!keep_in_mind, Hooks!env_vars
  <2>2. buf[p] \in Hooks!Settings /\ buf[p] \notin {Absent, Broken}
    BY <1>1 DEF HooksConstants
  <2>3. \A l \in List : sjoined'[l] = sjoined[l] \/ sjoined'[l] = 0
    BY <2>1
  <2>4. \A v \in Hooks!Settings : \A l \in List : Hooks!shared(v, l) \in Nat
    BY Numbers
  <2>5. ASSUME ~torn, NEW l \in List
        PROVE  number(buf[p], l, "other") = placed[l] /\ Hooks!shared(buf[p], l) >= sjoined'[l]
    <3>1. carries(buf[p], spc[p])
      BY <2>1, <2>5 DEF OthersInv
    <3>2. CASE spc[p] = "write_removed" /\ Hooks!recognised(l) # {}
      <4>1. sjoined'[l] = 0
        BY <2>1, <3>2
      <4>. QED  BY <2>2, <2>4, <3>1, <4>1 DEF carries
    <3>3. CASE ~(spc[p] = "write_removed" /\ Hooks!recognised(l) # {})
      <4>1. sjoined'[l] = sjoined[l]
        BY <2>1, <3>3
      <4>. QED  BY <2>1, <3>1, <3>3, <4>1 DEF carries
    <3>. QED  BY <3>2, <3>3
  <2>6. ASSUME ~torn, NEW q \in Proc, spc'[q] \notin {"idle", "read"}, NEW l \in List
        PROVE  /\ number(buf'[q], l, "other") = placed[l]
               /\ \/ Hooks!shared(buf'[q], l) >= sjoined'[l]
                  \/ spc'[q] \in {"removing", "write_removed"} /\ Hooks!recognised(l) # {}
    <3>1. spc'[q] = spc[q] /\ buf'[q] = buf[q] /\ buf[q] \in Hooks!Settings
      BY <1>1, <2>1, <2>6
    <3>2. carries(buf[q], spc[q])
      BY <2>6, <3>1 DEF OthersInv
    <3>3. Hooks!shared(buf[q], l) >= sjoined[l] => Hooks!shared(buf[q], l) >= sjoined'[l]
      BY <2>3, <2>4, <3>1
    <3>. QED  BY <3>1, <3>2, <3>3 DEF carries
  <2>. QED  BY <2>1, <2>2, <2>5, <2>6 DEF OthersInv, carries, number, Hooks!shared
<1>12. ASSUME NEW p \in Proc, Hooks!Crash(p)
       PROVE  OthersInv'
  <2>1. /\ UNCHANGED <<settings, placed, sjoined, torn>> /\ spc' = [spc EXCEPT ![p] = "idle"]
        /\ buf' = [buf EXCEPT ![p] = Hooks!empty]
    BY <1>12 DEF Hooks!Crash, Hooks!goto, Hooks!keep_in_mind, Hooks!env_vars
  <2>. QED  BY <1>2, <2>1
<1>13. CASE Hooks!UserEdit
  <2>1. settings \notin {Absent, Broken} /\ UNCHANGED <<spc, buf, torn>> /\ \A p \in Proc : spc[p] = "idle"
    BY <1>13 DEF Hooks!UserEdit
  <2>2. /\ settings' \in Hooks!Settings /\ placed' \in [List -> Nat] /\ settings \in Hooks!Settings
        /\ \A l \in List :
              /\ number(settings', l, "other") - placed'[l] = number(settings, l, "other") - placed[l]
              /\ Hooks!shared(settings, l) >= sjoined[l] => Hooks!shared(settings', l) >= sjoined'[l]
    BY <1>13, UserNumbers
  <2>3. \A l \in List : number(settings, l, "other") \in Nat /\ number(settings', l, "other") \in Nat
    BY <2>2, Numbers, Entries
  <2>4. settings' \notin {Absent, Broken}
    BY <2>2 DEF HooksConstants
  <2>5. ASSUME ~torn, NEW l \in List
        PROVE  number(settings', l, "other") = placed'[l] /\ Hooks!shared(settings', l) >= sjoined'[l]
    <3>1. number(settings, l, "other") = placed[l] /\ Hooks!shared(settings, l) >= sjoined[l]
      BY <2>1, <2>5 DEF OthersInv, carries
    <3>2. placed[l] \in Nat /\ placed'[l] \in Nat
      BY <1>1, <2>2
    <3>3. number(settings', l, "other") - placed'[l] = number(settings, l, "other") - placed[l]
      BY <2>2
    <3>4. number(settings', l, "other") \in Nat
      BY <2>3
    <3>5. number(settings', l, "other") = placed'[l]
      BY <3>1, <3>2, <3>3, <3>4
    <3>. QED  BY <2>2, <3>1, <3>5
  <2>. QED  BY <2>1, <2>4, <2>5 DEF OthersInv, carries, number, Hooks!shared
<1>. QED
  BY <1>5, <1>6, <1>7, <1>8, <1>9, <1>10, <1>11, <1>12, <1>13 DEF Hooks!Next

\* What has no more hooks of aitrack stays single.
LEMMA SingleStays ==
    ASSUME HooksConstants, NEW v \in Hooks!Settings, NEW w \in Hooks!Settings, single(v),
           \A l \in List : \A c \in Own : Hooks!runs(w, l, c) <= Hooks!runs(v, l, c)
    PROVE  single(w)
<1>1. ASSUME NEW l \in List, NEW c \in Own
      PROVE  Hooks!runs(w, l, c) \in Nat /\ Hooks!runs(v, l, c) \in Nat
  BY Numbers
<1>2. ASSUME NEW l \in List
      PROVE  Hooks!runs(w, l, Hooks!command(l)) <= 1
  <2>1. Hooks!runs(v, l, Hooks!command(l)) <= 1
    BY DEF single
  <2>2. Hooks!runs(w, l, Hooks!command(l)) <= Hooks!runs(v, l, Hooks!command(l))
    BY Entries
  <2>3. Hooks!runs(w, l, Hooks!command(l)) \in Nat /\ Hooks!runs(v, l, Hooks!command(l)) \in Nat
    BY <1>1, Entries
  <2>. QED  BY <2>1, <2>2, <2>3
<1>3. ASSUME NEW l \in List, NEW c \in Own, c # Hooks!command(l)
      PROVE  Hooks!runs(w, l, c) = 0
  <2>1. Hooks!runs(v, l, c) = 0 /\ Hooks!runs(w, l, c) <= Hooks!runs(v, l, c)
    BY <1>3 DEF single
  <2>2. Hooks!runs(w, l, c) \in Nat
    BY <1>1
  <2>. QED  BY <2>1, <2>2
<1>. QED  BY <1>2, <1>3 DEF single

LEMMA EmptySingle == single(Hooks!empty)
<1>1. \A l \in List : \A c \in Own : Hooks!runs(Hooks!empty, l, c) = 0
  BY EmptySettings
<1>2. \A l \in List : Hooks!command(l) \in Own
  BY Entries
<1>. QED  BY <1>1, <1>2 DEF single

\* aitrack recognises what it registers, if its executable is called so.
LEMMA SinglePushed ==
    ASSUME HooksConstants, PlainName \/ ~Rereads, NEW v \in Hooks!Settings, single(v), NEW l \in List,
           ~Hooks!has(v, l), NEW w, w[l] = Hooks!pushed(v[l], Hooks!command(l)),
           \A k \in List : k # l => w[k] = v[k]
    PROVE  single(w)
<1> DEFINE c == Hooks!command(l)
<1>1. c \in Own /\ c \in Hooks!Entry /\ Hooks!with_other(c) \in Hooks!Entry
  BY Entries
<1>2. c \in Hooks!recognised(l) /\ Hooks!with_other(c) \in Hooks!recognised(l)
  BY DEF Hooks!command, Hooks!recognised, Hooks!with_other, Hooks!Entry
<1>3. number(v, l, c) = 0 /\ number(v, l, Hooks!with_other(c)) = 0
  <2>1. ~(number(v, l, c) > 0) /\ ~(number(v, l, Hooks!with_other(c)) > 0)
    BY <1>2 DEF Hooks!has, number
  <2>2. number(v, l, c) \in Nat /\ number(v, l, Hooks!with_other(c)) \in Nat
    BY <1>1, Numbers
  <2>. QED  BY <2>1, <2>2
<1>4. \A x \in Hooks!Entry : number(w, l, x) =
          IF v[l] # Null /\ x = c THEN number(v, l, x) + 1 ELSE number(v, l, x)
  BY <1>1, PushedNumbers
<1>5. \A d \in Own : d \in Hooks!Entry /\ Hooks!with_other(d) \in Hooks!Entry /\ Hooks!with_other(d) # c
  BY DEF Own, Hooks!with_other, Hooks!Entry, Hooks!command
<1> HIDE DEF c
<1>6. Hooks!runs(w, l, c) <= 1
  <2>1. Hooks!runs(w, l, c) = number(w, l, c) + number(w, l, Hooks!with_other(c))
    BY DEF Hooks!runs, number
  <2>2. number(w, l, Hooks!with_other(c)) = 0
    BY <1>1, <1>3, <1>4, <1>5
  <2>3. number(w, l, c) \in {0, 1}
    BY <1>1, <1>3, <1>4
  <2>. QED  BY <2>1, <2>2, <2>3
<1>7. \A d \in Own : d # c => Hooks!runs(w, l, d) = Hooks!runs(v, l, d)
  <2> SUFFICES ASSUME NEW d \in Own, d # c PROVE Hooks!runs(w, l, d) = Hooks!runs(v, l, d)
    OBVIOUS
  <2>1. number(w, l, d) = number(v, l, d) /\ number(w, l, Hooks!with_other(d)) = number(v, l, Hooks!with_other(d))
    BY <1>4, <1>5
  <2>. QED  BY <2>1 DEF Hooks!runs, number
<1>8. \A k \in List : k # l => \A d : Hooks!runs(w, k, d) = Hooks!runs(v, k, d)
  BY DEF Hooks!runs
<1>9. ASSUME NEW k \in List
      PROVE  /\ Hooks!runs(w, k, Hooks!command(k)) <= 1
             /\ \A d \in Own : d # Hooks!command(k) => Hooks!runs(w, k, d) = 0
  <2>1. /\ Hooks!runs(v, k, Hooks!command(k)) <= 1
        /\ \A d \in Own : d # Hooks!command(k) => Hooks!runs(v, k, d) = 0
    BY DEF single
  <2>2. CASE k = l
    BY <1>6, <1>7, <2>1, <2>2 DEF c
  <2>3. CASE k # l
    BY <1>8, <2>1, <2>3
  <2>. QED  BY <2>2, <2>3
<1>. QED  BY <1>9 DEF single

LEMMA HookedStep ==
    ASSUME HooksConstants, HookTypeOK, HookTypeOK', HookedInv, PlainName \/ ~Rereads,
           Rereads => OneCommand, [Hooks!Next]_(Hooks!vars)
    PROVE  HookedInv'
<1>1. /\ spc \in [Proc -> {"idle", "read", "insert", "removing", "write_installed", "write_removed"}]
      /\ buf \in [Proc -> Hooks!Settings] /\ todo \in [Proc -> SUBSET List]
  BY DEF HookTypeOK, Hooks!TypeOK
\* The file stays, and a process has another value.
<1>2. ASSUME NEW p \in Proc, NEW v, NEW place, UNCHANGED settings, single(v),
             buf' = [buf EXCEPT ![p] = v], spc' = [spc EXCEPT ![p] = place],
             \A q \in Proc : q # p => todo'[q] = todo[q],
             Rereads /\ place = "insert" => \A l \in todo'[p] : v[l] = Hooks!parsed(settings)[l]
      PROVE  HookedInv'
  <2>1. Hooks!parsed(settings)' = Hooks!parsed(settings)
    BY <1>2 DEF Hooks!parsed
  <2>2. ASSUME NEW q \in Proc
        PROVE  /\ single(buf'[q])
               /\ Rereads /\ spc'[q] = "insert" =>
                      \A l \in todo'[q] : buf'[q][l] = Hooks!parsed(settings)'[l]
    <3>1. CASE q = p
      BY <1>1, <1>2, <2>1, <3>1
    <3>2. CASE q # p
      BY <1>1, <1>2, <2>1, <3>2 DEF HookedInv
    <3>. QED  BY <3>1, <3>2
  <2>3. single(Hooks!parsed(settings)')
    BY <2>1 DEF HookedInv
  <2>. QED  BY <2>2, <2>3 DEF HookedInv, single, Hooks!runs
\* Only one process is at work.
<1>3. ASSUME NEW p \in Proc, spc[p] # "idle", NEW place, place # "insert",
             spc' = [spc EXCEPT ![p] = place]
      PROVE  \A q \in Proc : Rereads => spc'[q] # "insert"
  BY <1>1, <1>3 DEF OneCommand
<1>4. CASE UNCHANGED Hooks!vars
  BY <1>4 DEF Hooks!vars, Hooks!env_vars, HookedInv, single, Hooks!runs, Hooks!parsed
<1>5. ASSUME NEW p \in Proc, Hooks!StartInstall(p)
      PROVE  HookedInv'
  <2>1. PICK place \in {"idle", "read"} : spc' = [spc EXCEPT ![p] = place]
    BY <1>5 DEF Hooks!StartInstall, Hooks!goto
  <2>2. buf' = [buf EXCEPT ![p] = buf[p]] /\ UNCHANGED <<settings, todo>>
    BY <1>1, <1>5 DEF Hooks!StartInstall
  <2>. QED  BY <1>1, <1>2, <2>1, <2>2 DEF HookedInv
<1>6. ASSUME NEW p \in Proc, Hooks!ReadSettings(p)
      PROVE  HookedInv'
  <2>1. /\ UNCHANGED settings /\ spc' = [spc EXCEPT ![p] = "insert"]
        /\ buf' = [buf EXCEPT ![p] = Hooks!parsed(settings)] /\ todo' = [todo EXCEPT ![p] = List]
    BY <1>6 DEF Hooks!ReadSettings, Hooks!goto, Hooks!keep_in_mind
  <2>2. \A q \in Proc : q # p => todo'[q] = todo[q]
    BY <2>1
  <2>. QED  BY <1>2, <2>1, <2>2 DEF HookedInv
<1>7. ASSUME NEW p \in Proc, Hooks!EnsureHook(p)
      PROVE  HookedInv'
  <2>1. PICK l \in todo[p] :
          /\ todo' = [todo EXCEPT ![p] = @ \ {l}]
          /\ IF Hooks!has(IF Rereads THEN Hooks!parsed(settings) ELSE buf[p], l) THEN UNCHANGED buf
             ELSE buf' = [buf EXCEPT ![p] = [buf[p] EXCEPT ![l] = Hooks!pushed(@, Hooks!command(l))]]
    BY <1>7 DEF Hooks!EnsureHook, Hooks!keep_in_mind
  <2>2. UNCHANGED settings /\ spc' = [spc EXCEPT ![p] = "insert"] /\ spc[p] = "insert"
    BY <1>1, <1>7 DEF Hooks!EnsureHook
  <2>3. /\ l \in List /\ buf[p] \in Hooks!Settings /\ single(buf[p])
        /\ Rereads => \A k \in todo[p] : buf[p][k] = Hooks!parsed(settings)[k]
    BY <1>1, <2>1, <2>2 DEF HookedInv
  <2>4. todo'[p] = todo[p] \ {l} /\ \A q \in Proc : q # p => todo'[q] = todo[q]
    BY <1>1, <2>1
  <2>5. CASE UNCHANGED buf
    <3>1. buf' = [buf EXCEPT ![p] = buf[p]]
      BY <1>1, <2>5
    <3>. QED  BY <1>2, <2>2, <2>3, <2>4, <3>1
  <2>6. CASE ~UNCHANGED buf
    <3> DEFINE w == [buf[p] EXCEPT ![l] = Hooks!pushed(@, Hooks!command(l))]
    <3>1. w[l] = Hooks!pushed(buf[p][l], Hooks!command(l)) /\ \A k \in List : k # l => w[k] = buf[p][k]
      BY <2>3 DEF Hooks!Settings
    <3>2. buf' = [buf EXCEPT ![p] = w] /\ ~Hooks!has(IF Rereads THEN Hooks!parsed(settings) ELSE buf[p], l)
      BY <2>1, <2>6
    <3>3. ~Hooks!has(buf[p], l)
      BY <2>1, <2>3, <3>2 DEF Hooks!has
    <3> HIDE DEF w
    <3>4. single(w)
      BY <2>3, <3>1, <3>3, SinglePushed
    <3>5. Rereads => \A k \in todo'[p] : w[k] = Hooks!parsed(settings)[k]
      BY <1>1, <2>3, <2>4, <3>1
    <3>. QED  BY <1>2, <2>2, <2>4, <3>2, <3>4, <3>5
  <2>. QED  BY <2>5, <2>6
<1>8. ASSUME NEW p \in Proc, Hooks!StartRemove(p)
      PROVE  HookedInv'
  <2>1. CASE settings = Absent
    <3>1. UNCHANGED <<settings, spc, buf, todo>>
      BY <1>8, <2>1 DEF Hooks!StartRemove
    <3>. QED  BY <3>1 DEF HookedInv, single, Hooks!runs, Hooks!parsed
  <2>2. CASE settings # Absent
    <3>1. /\ UNCHANGED <<settings, todo>> /\ spc' = [spc EXCEPT ![p] = "removing"]
          /\ buf' = [buf EXCEPT ![p] = Hooks!removed(Hooks!parsed(settings))]
      BY <1>8, <2>2 DEF Hooks!StartRemove, Hooks!goto, Hooks!keep_in_mind
    <3>2. Hooks!parsed(settings) \in Hooks!Settings
      BY ParsedSettings
    <3>3. single(Hooks!removed(Hooks!parsed(settings)))
      <4> DEFINE v == Hooks!parsed(settings)
                 w == Hooks!removed(v)
      <4>1. single(v)
        BY DEF HookedInv
      <4> HIDE DEF v
      <4>2. w \in Hooks!Settings /\ \A l \in List : \A e \in Hooks!Entry : number(w, l, e) <= number(v, l, e)
        BY <3>2, RemovedNumbers DEF v
      <4> HIDE DEF w
      <4>3. ASSUME NEW l \in List, NEW c \in Own
            PROVE  Hooks!runs(w, l, c) <= Hooks!runs(v, l, c)
        <5> DEFINE d == Hooks!with_other(c)
        <5>1. c \in Hooks!Entry /\ d \in Hooks!Entry
          BY Entries
        <5>2. number(w, l, c) \in Nat /\ number(w, l, d) \in Nat /\ number(v, l, c) \in Nat /\ number(v, l, d) \in Nat
          BY <3>2, <4>2, <5>1, Numbers DEF v
        <5>3. /\ Hooks!runs(w, l, c) = number(w, l, c) + number(w, l, d)
              /\ Hooks!runs(v, l, c) = number(v, l, c) + number(v, l, d)
          BY DEF Hooks!runs, number
        <5>4. number(w, l, c) <= number(v, l, c) /\ number(w, l, d) <= number(v, l, d)
          BY <4>2, <5>1
        <5> HIDE DEF d
        <5>. QED  BY <5>2, <5>3, <5>4
      <4>. QED  BY <3>2, <4>1, <4>2, <4>3, SingleStays DEF v, w
    <3>. QED  BY <1>2, <3>1, <3>3
  <2>. QED  BY <2>1, <2>2
<1>9. ASSUME NEW p \in Proc, Hooks!Truncate(p)
      PROVE  HookedInv'
  <2>1. PICK place : spc' = [spc EXCEPT ![p] = place] /\ spc[p] # "idle" /\ place # "insert"
    BY <1>9 DEF Hooks!Truncate, Hooks!goto
  <2>2. UNCHANGED buf /\ Hooks!parsed(settings)' = Hooks!empty
    BY <1>9 DEF Hooks!Truncate, Hooks!parsed
  <2>3. \A q \in Proc : Rereads => spc'[q] # "insert"
    BY <1>3, <2>1
  <2>4. single(Hooks!parsed(settings)')
    BY <2>2, EmptySingle
  <2>. QED  BY <2>2, <2>3, <2>4 DEF HookedInv, single, Hooks!runs
<1>10. ASSUME NEW p \in Proc, Hooks!WriteSettings(p)
       PROVE  HookedInv'
  <2>1. /\ settings' = buf[p] /\ spc[p] # "idle"
        /\ spc' = [spc EXCEPT ![p] = "idle"] /\ buf' = [buf EXCEPT ![p] = Hooks!empty]
    BY <1>10 DEF Hooks!WriteSettings, Hooks!goto, Hooks!keep_in_mind
  <2>2. \A q \in Proc : Rereads => spc'[q] # "insert"
    BY <1>3, <2>1
  <2>3. buf[p] \in Hooks!Settings /\ buf[p] \notin {Absent, Broken}
    BY <1>1 DEF HooksConstants
  <2>4. Hooks!parsed(settings)' = buf[p]
    BY <2>1, <2>3 DEF Hooks!parsed
  <2>5. single(Hooks!parsed(settings)')
    BY <2>4 DEF HookedInv
  <2>6. \A q \in Proc : single(buf'[q])
    <3>1. \A q \in Proc : buf'[q] = Hooks!empty \/ buf'[q] = buf[q]
      BY <1>1, <2>1
    <3>. QED  BY <3>1, EmptySingle DEF HookedInv
  <2>. QED  BY <2>2, <2>5, <2>6 DEF HookedInv, single, Hooks!runs
<1>11. ASSUME NEW p \in Proc, Hooks!Crash(p)
       PROVE  HookedInv'
  <2>1. /\ UNCHANGED settings /\ spc' = [spc EXCEPT ![p] = "idle"]
        /\ buf' = [buf EXCEPT ![p] = Hooks!empty] /\ todo' = [todo EXCEPT ![p] = {}]
    BY <1>11 DEF Hooks!Crash, Hooks!goto, Hooks!keep_in_mind
  <2>2. \A q \in Proc : q # p => todo'[q] = todo[q]
    BY <2>1
  <2>. QED  BY <1>2, <2>1, <2>2, EmptySingle
<1>12. CASE Hooks!UserEdit
  <2>1. settings \notin {Absent, Broken} /\ UNCHANGED <<spc, buf>> /\ \A p \in Proc : spc[p] = "idle"
    BY <1>12 DEF Hooks!UserEdit
  <2>2. /\ settings' \in Hooks!Settings /\ settings \in Hooks!Settings
        /\ \A l \in List : \A c \in Own : Hooks!runs(settings', l, c) <= Hooks!runs(settings, l, c)
    BY <1>12, UserNumbers
  <2>3. Hooks!parsed(settings) = settings /\ Hooks!parsed(settings)' = settings'
    BY <2>1, <2>2 DEF HooksConstants, Hooks!parsed
  <2>4. single(settings')
    BY <2>2, <2>3, SingleStays DEF HookedInv
  <2>5. single(Hooks!parsed(settings)')
    BY <2>3, <2>4
  <2>. QED  BY <2>1, <2>5 DEF HookedInv, single, Hooks!runs
<1>. QED
  BY <1>4, <1>5, <1>6, <1>7, <1>8, <1>9, <1>10, <1>11, <1>12 DEF Hooks!Next

LEMMA HooksInit == ASSUME HooksConstants, Hooks!Init PROVE HookTypeOK /\ OthersInv /\ HookedInv
<1> USE DEF Hooks!Init
<1>1. HookTypeOK
  BY EmptySettings DEF HookTypeOK, Hooks!TypeOK
<1>2. Hooks!parsed(settings) = Hooks!empty
  BY EmptySettings DEF Hooks!parsed, HooksConstants
<1>3. settings \notin {Absent, Broken} => carries(settings, "idle")
  BY EmptySettings, Entries DEF carries
<1>4. OthersInv
  BY <1>3 DEF OthersInv
<1>5. HookedInv
  BY <1>2, EmptySingle DEF HookedInv
<1>. QED  BY <1>1, <1>4, <1>5

\* init.rs: what init and remove write has the hooks of other programs that the file
\* has, and none of aitrack's twice.
THEOREM HooksInvariant ==
    ASSUME HooksConstants PROVE Hooks!Spec => [](HookTypeOK /\ OthersInv)
<1>1. Hooks!Init => HookTypeOK /\ OthersInv
  BY HooksInit
<1>2. HookTypeOK /\ OthersInv /\ [Hooks!Next]_(Hooks!vars) => (HookTypeOK /\ OthersInv)'
  BY HookTypeStep, OthersStep
<1>. QED  BY <1>1, <1>2, PTL DEF Hooks!Spec

\* The hooks of other programs stay, for any processes that install, remove and are
\* killed, those in entries of aitrack until a remove, unless a file that did not parse
\* was taken for {}.
THEOREM OtherHooksStay ==
    ASSUME HooksConstants PROVE Hooks!Spec => []Hooks!OthersStay
<1>1. HookTypeOK /\ OthersInv => Hooks!OthersStay
  <2> SUFFICES ASSUME OthersInv, ~torn, settings \notin {Absent, Broken}, NEW l \in List
               PROVE  Hooks!others(settings, l) = placed[l] /\ Hooks!shared(settings, l) >= sjoined[l]
    BY DEF Hooks!OthersStay
  <2>. QED  BY DEF OthersInv, carries, number, Hooks!others
<1>. QED  BY <1>1, HooksInvariant, PTL

\* CONTRACT.md:395: an array holds aitrack's command once, for any processes that
\* install, remove and are killed, under the name aitrack; those that read the file
\* again before every insertion one after another.
THEOREM HookedStaysOnce ==
    ASSUME HooksConstants, PlainName \/ ~Rereads
    PROVE  Hooks!Spec /\ [](Rereads => OneCommand) => []Hooks!HookedOnce
<1>1. Hooks!Init => HookedInv
  BY HooksInit
<1>2. HookTypeOK /\ HookTypeOK' /\ HookedInv /\ (Rereads => OneCommand) /\ [Hooks!Next]_(Hooks!vars)
      => HookedInv'
  BY HookedStep
<1>3. HookTypeOK /\ OthersInv => HookTypeOK
  OBVIOUS
<1>4. HookTypeOK /\ HookedInv => Hooks!HookedOnce
  <2> SUFFICES ASSUME HookTypeOK, HookedInv, NEW l \in List
               PROVE  Hooks!own(Hooks!parsed(settings), l) <= 1
    BY DEF Hooks!HookedOnce
  <2> DEFINE v == Hooks!parsed(settings)
  <2>1. v \in Hooks!Settings
    BY ParsedSettings
  <2>2. /\ Hooks!own(v, l) = Hooks!runs(v, l, "edit") + Hooks!runs(v, l, "prompt")
        /\ Hooks!runs(v, l, "edit") \in Nat /\ Hooks!runs(v, l, "prompt") \in Nat
    BY <2>1, Numbers DEF Hooks!own, Own
  <2>3. Hooks!command(l) \in {"edit", "prompt"}
    BY DEF Hooks!command
  <2>4. /\ Hooks!runs(v, l, Hooks!command(l)) <= 1
        /\ \A c \in {"edit", "prompt"} : c # Hooks!command(l) => Hooks!runs(v, l, c) = 0
    BY DEF HookedInv, single, Own
  <2> HIDE DEF v
  <2>. QED  BY <2>2, <2>3, <2>4 DEF v
<1>. QED  BY <1>1, <1>2, <1>3, <1>4, HooksInvariant, PTL DEF Hooks!Spec

-----------------------------------------------------------------------------
(***************************************************************************)
(* CodexConfig.  A hook of aitrack stands behind a marker, with nothing    *)
(* but hooks of aitrack between them, or the user parted it from one.      *)
(* Behind any marker each hook stands once: install, which looks for a     *)
(* marker and a hook anywhere in the file, appends only what is not there, *)
(* or all of it when there is no marker.  What a command is about to write *)
(* is like the file.                                                       *)
(***************************************************************************)

places(c, l) == {i \in 1 .. Len(c) : c[i] = l}
behind(c, i) == \E m \in 1 .. i - 1 : c[m] = "marker"
joined(c, i) == \E m \in 1 .. i - 1 : c[m] = "marker" /\ \A k \in m + 1 .. i : c[k] \in Own
loose(c, l) == {i \in places(c, l) : ~joined(c, i)}
marked(c, l) == {i \in places(c, l) : behind(c, i)}

\* A file whose user parted n hooks from their markers.
sound(c, n) == \A l \in Own : Cardinality(loose(c, l)) <= n /\ Cardinality(marked(c, l)) <= 1

\* How often a line is in a file.
tally(c, l) == Cardinality({i \in DOMAIN c : c[i] = l})

running == cpc # "idle"
writing == cpc \in {"write_init", "write_remove"}

CodexTypeOK ==
    /\ toml \in Seq(Codex!Line) /\ ctext \in Seq(Codex!Line)
    /\ cpc \in {"idle", "init", "remove", "write_init", "write_remove"}
    /\ sections \in Int /\ disturbed \in Nat

OnceInv == sound(toml, disturbed) /\ sound(ctext, disturbed)

\* Without notes of the user that look like a marker, his sections are those he wrote.
complete(c) == tally(c, "note") = 0 /\ tally(c, "section") = sections
SectionsInv == ~Notes /\ ~ctorn => (~writing => complete(toml)) /\ (running => complete(ctext))

-----------------------------------------------------------------------------
\* A set of places has a first one.
(* How often a line is in a concatenation and in its parts.                *)

LEMMA TallyType ==
    ASSUME NEW S, NEW c \in Seq(S), NEW l
    PROVE  /\ IsFiniteSet({i \in DOMAIN c : c[i] = l}) /\ tally(c, l) \in Nat
           /\ tally(c, l) = 0 <=> \A i \in DOMAIN c : c[i] # l
<1>1. DOMAIN c = 1 .. Len(c) /\ Len(c) \in Nat
  BY LenProperties
<1>2. IsFiniteSet(1 .. Len(c))
  BY <1>1, FS_Interval
<1>3. IsFiniteSet({i \in DOMAIN c : c[i] = l})
  BY <1>1, <1>2, FS_Subset
<1>. QED  BY <1>3, FS_CardinalityType, FS_EmptySet DEF tally

LEMMA TallyOfConcat ==
    ASSUME NEW S, NEW s \in Seq(S), NEW t \in Seq(S), NEW l
    PROVE  tally(s \o t, l) = tally(s, l) + tally(t, l)
<1> DEFINE n == Len(s)
           A == {i \in DOMAIN s : s[i] = l}
           B == {i \in DOMAIN t : t[i] = l}
           C == {i \in n + 1 .. n + Len(t) : t[i - n] = l}
           shift == [i \in B |-> n + i]
<1>1. /\ n \in Nat /\ DOMAIN s = 1 .. n /\ Len(t) \in Nat /\ DOMAIN t = 1 .. Len(t)
      /\ s \o t \in Seq(S) /\ Len(s \o t) = n + Len(t) /\ DOMAIN (s \o t) = 1 .. n + Len(t)
      /\ \A i \in 1 .. n + Len(t) : (s \o t)[i] = IF i <= n THEN s[i] ELSE t[i - n]
  BY LenProperties, ConcatProperties
<1>2. {i \in DOMAIN (s \o t) : (s \o t)[i] = l} = A \cup C
  BY <1>1
<1>3. A \cap C = {}
  BY <1>1
<1>4. shift \in Bijection(B, C)
  <2>1. \A i \in B : n + i \in C
    BY <1>1
  <2>2. \A i, j \in B : n + i = n + j => i = j
    BY <1>1
  <2>3. \A k \in C : k - n \in B /\ n + (k - n) = k
    BY <1>1
  <2>. QED  BY <2>1, <2>2, <2>3 DEF Bijection, Injection, Surjection, IsInjective
<1>5. IsFiniteSet(A) /\ IsFiniteSet(B) /\ Cardinality(A) \in Nat /\ Cardinality(B) \in Nat
  BY TallyType DEF tally
<1>6. IsFiniteSet(C) /\ Cardinality(C) = Cardinality(B)
  BY <1>4, <1>5, FS_Bijection DEF ExistsBijection
<1>7. Cardinality(A \cup C) = Cardinality(A) + Cardinality(C)
  <2> HIDE DEF A, C
  <2>1. Cardinality(A \cup C) = Cardinality(A) + Cardinality(C) - Cardinality(A \cap C)
    BY <1>5, <1>6, FS_Union
  <2>2. Cardinality(A \cap C) = 0
    BY <1>3, FS_EmptySet
  <2>. QED  BY <1>5, <1>6, <2>1, <2>2
<1>. QED  BY <1>2, <1>6, <1>7 DEF tally

LEMMA TallyOfOne == ASSUME NEW x, NEW l PROVE tally(<<x>>, l) = IF x = l THEN 1 ELSE 0
<1>1. DOMAIN <<x>> = {1} /\ <<x>>[1] = x
  OBVIOUS
<1>2. {i \in DOMAIN <<x>> : <<x>>[i] = l} = IF x = l THEN {1} ELSE {}
  BY <1>1
<1>. QED  BY <1>2, FS_EmptySet, FS_Singleton DEF tally

\* A file is what stands before, between and after two places.
LEMMA Cut ==
    ASSUME NEW S, NEW c \in Seq(S), NEW i \in 1 .. Len(c) + 1, NEW j \in i - 1 .. Len(c), NEW l
    PROVE  /\ SubSeq(c, 1, i - 1) \in Seq(S) /\ SubSeq(c, i, j) \in Seq(S)
           /\ SubSeq(c, j + 1, Len(c)) \in Seq(S)
           /\ tally(c, l) = tally(SubSeq(c, 1, i - 1), l) + tally(SubSeq(c, i, j), l)
                              + tally(SubSeq(c, j + 1, Len(c)), l)
<1>1. Len(c) \in Nat /\ \A k \in 1 .. Len(c) : c[k] \in S
  BY LenProperties, ElementOfSeq
<1>2. /\ SubSeq(c, 1, i - 1) \in Seq(S) /\ SubSeq(c, i, j) \in Seq(S)
      /\ SubSeq(c, j + 1, Len(c)) \in Seq(S) /\ SubSeq(c, i, Len(c)) \in Seq(S)
  <2>1. i \in Int /\ j \in Int /\ 1 \in Int /\ i - 1 \in Int /\ j + 1 \in Int /\ Len(c) \in Int
    BY <1>1
  <2>2. /\ \A k \in 1 .. i - 1 : c[k] \in S
        /\ \A k \in i .. j : c[k] \in S
        /\ \A k \in j + 1 .. Len(c) : c[k] \in S
        /\ \A k \in i .. Len(c) : c[k] \in S
    BY <1>1
  <2>. QED  BY <2>1, <2>2, SubSeqProperties
<1>3. SubSeq(c, 1, i - 1) \o SubSeq(c, i, Len(c)) = c
  <2>1. 1 \in 1 .. Len(c) + 1 /\ i - 1 \in 1 - 1 .. Len(c) /\ Len(c) \in i - 1 .. Len(c)
    BY <1>1
  <2>2. SubSeq(c, 1, i - 1) \o SubSeq(c, (i - 1) + 1, Len(c)) = SubSeq(c, 1, Len(c))
    BY <2>1, ConcatAdjacentSubSeq
  <2>3. (i - 1) + 1 = i
    OBVIOUS
  <2>. QED  BY <2>2, <2>3, SubSeqFull
<1>4. SubSeq(c, i, j) \o SubSeq(c, j + 1, Len(c)) = SubSeq(c, i, Len(c))
  <2>1. Len(c) \in j .. Len(c)
    BY <1>1
  <2>. QED  BY <2>1, ConcatAdjacentSubSeq
<1>5. /\ tally(c, l) = tally(SubSeq(c, 1, i - 1), l) + tally(SubSeq(c, i, Len(c)), l)
      /\ tally(SubSeq(c, i, Len(c)), l) = tally(SubSeq(c, i, j), l) + tally(SubSeq(c, j + 1, Len(c)), l)
  <2>1. tally(SubSeq(c, 1, i - 1) \o SubSeq(c, i, Len(c)), l)
          = tally(SubSeq(c, 1, i - 1), l) + tally(SubSeq(c, i, Len(c)), l)
    BY <1>2, TallyOfConcat
  <2>2. tally(SubSeq(c, i, j) \o SubSeq(c, j + 1, Len(c)), l)
          = tally(SubSeq(c, i, j), l) + tally(SubSeq(c, j + 1, Len(c)), l)
    BY <1>2, TallyOfConcat
  <2>. QED  BY <1>3, <1>4, <2>1, <2>2
<1>6. /\ tally(SubSeq(c, 1, i - 1), l) \in Nat /\ tally(SubSeq(c, i, j), l) \in Nat
      /\ tally(SubSeq(c, j + 1, Len(c)), l) \in Nat
  BY <1>2, TallyType
<1>. QED  BY <1>2, <1>5, <1>6

-----------------------------------------------------------------------------
(* Hooks and markers in a part of a file.                                  *)

LEMMA PlacesAre ==
    ASSUME NEW S, NEW c \in Seq(S), NEW l
    PROVE  /\ IsFiniteSet(places(c, l)) /\ IsFiniteSet(loose(c, l)) /\ IsFiniteSet(marked(c, l))
           /\ Cardinality(places(c, l)) \in Nat /\ Cardinality(loose(c, l)) \in Nat
           /\ Cardinality(marked(c, l)) \in Nat
           /\ places(c, l) = loose(c, l) \cup marked(c, l)
           /\ tally(c, l) = Cardinality(places(c, l))
<1>1. DOMAIN c = 1 .. Len(c) /\ Len(c) \in Nat
  BY LenProperties
<1>2. IsFiniteSet(places(c, l))
  <2>1. places(c, l) \subseteq 1 .. Len(c)
    BY DEF places
  <2>2. IsFiniteSet(1 .. Len(c))
    BY <1>1, FS_Interval
  <2>. QED  BY <2>1, <2>2, FS_Subset
<1>3. loose(c, l) \subseteq places(c, l) /\ marked(c, l) \subseteq places(c, l)
  BY DEF loose, marked
<1>4. IsFiniteSet(loose(c, l)) /\ IsFiniteSet(marked(c, l))
  BY <1>2, <1>3, FS_Subset
<1>5. places(c, l) = loose(c, l) \cup marked(c, l)
  BY DEF loose, marked, joined, behind
<1>6. tally(c, l) = Cardinality(places(c, l))
  BY <1>1 DEF tally, places
<1>. QED  BY <1>2, <1>4, <1>5, <1>6, FS_CardinalityType

LEMMA SoundTally ==
    ASSUME NEW S, NEW c \in Seq(S), NEW n \in Nat, sound(c, n), NEW l \in Own
    PROVE  tally(c, l) <= n + 1
<1> DEFINE A == loose(c, l)
           B == marked(c, l)
<1>1. /\ IsFiniteSet(A) /\ IsFiniteSet(B) /\ tally(c, l) = Cardinality(A \cup B)
      /\ Cardinality(A) \in Nat /\ Cardinality(B) \in Nat
  BY PlacesAre
<1>2. Cardinality(A) <= n /\ Cardinality(B) <= 1
  BY DEF sound
<1> HIDE DEF A, B
<1>3. Cardinality(A \cup B) = Cardinality(A) + Cardinality(B) - Cardinality(A \cap B)
  BY <1>1, FS_Union
<1>4. Cardinality(A \cap B) \in Nat
  BY <1>1, FS_Intersection, FS_CardinalityType
<1>. QED  BY <1>1, <1>2, <1>3, <1>4

LEMMA SoundMore ==
    ASSUME NEW S, NEW c \in Seq(S), NEW n \in Nat, NEW m \in Nat, n <= m, sound(c, n)
    PROVE  sound(c, m)
<1>1. \A l : Cardinality(loose(c, l)) \in Nat
  BY PlacesAre
<1>. QED  BY <1>1 DEF sound

LEMMA SoundEmpty == ASSUME NEW n \in Nat PROVE sound(<<>>, n)
<1>1. Len(<<>>) = 0
  OBVIOUS
<1>2. \A l : places(<<>>, l) = {}
  BY <1>1 DEF places
<1>3. \A l : loose(<<>>, l) = {} /\ marked(<<>>, l) = {}
  BY <1>2 DEF loose, marked
<1>4. Cardinality({}) = 0
  BY FS_EmptySet
<1>5. ASSUME NEW l \in Own
      PROVE  Cardinality(loose(<<>>, l)) <= n /\ Cardinality(marked(<<>>, l)) <= 1
  <2>1. Cardinality(loose(<<>>, l)) = 0 /\ Cardinality(marked(<<>>, l)) = 0
    BY <1>3, <1>4
  <2>. QED  BY <2>1
<1>. QED  BY <1>5 DEF sound

\* d has hooks and markers of c only, and in their order: f says where they were.
thins(f, c, d) ==
    /\ \A j \in 1 .. Len(d) : d[j] \in Own \cup {"marker"} => f[j] \in 1 .. Len(c) /\ c[f[j]] = d[j]
    /\ \A i, j \in 1 .. Len(d) :
          i < j /\ d[i] \in Own \cup {"marker"} /\ d[j] \in Own \cup {"marker"} => f[i] < f[j]

\* And none of them was parted from its marker.
keeps(f, c, d) == \A j \in 1 .. Len(d) : d[j] \in Own /\ joined(c, f[j]) => joined(d, j)

LEMMA Embeds ==
    ASSUME NEW S, NEW T, IsFiniteSet(T), S \subseteq Nat, T \subseteq Nat, NEW f,
           \A j \in S : f[j] \in T, \A i, j \in S : i < j => f[i] < f[j]
    PROVE  Cardinality(S) <= Cardinality(T)
<1> DEFINE g == [j \in S |-> f[j]]
<1>1. g \in [S -> T]
  OBVIOUS
<1>2. \A i, j \in S : g[i] = g[j] => i = j
  <2>1. \A i, j \in S : i \in Nat /\ j \in Nat /\ f[i] \in Nat /\ f[j] \in Nat /\ g[i] = f[i] /\ g[j] = f[j]
    OBVIOUS
  <2> HIDE DEF g
  <2>. QED  BY <2>1
<1>3. g \in Injection(S, T)
  <2> HIDE DEF g
  <2>. QED  BY <1>1, <1>2 DEF Injection, IsInjective
<1>. QED  BY <1>3, FS_Injection

LEMMA Thin ==
    ASSUME NEW S, NEW c \in Seq(S), NEW d \in Seq(S), NEW n \in Nat, sound(c, n), NEW f, thins(f, c, d)
    PROVE  sound(d, n + 1) /\ (keeps(f, c, d) => sound(d, n))
<1>1. Len(c) \in Nat /\ Len(d) \in Nat
  BY LenProperties
<1>2. ASSUME NEW l \in Own
      PROVE  /\ \A j \in places(d, l) : f[j] \in places(c, l)
             /\ \A i, j \in places(d, l) : i < j => f[i] < f[j]
             /\ \A j \in marked(d, l) : f[j] \in marked(c, l)
             /\ keeps(f, c, d) => \A j \in loose(d, l) : f[j] \in loose(c, l)
  <2>1. \A j \in places(d, l) : j \in 1 .. Len(d) /\ d[j] = l
    BY DEF places
  <2>2. \A j \in places(d, l) : f[j] \in places(c, l)
    BY <2>1 DEF thins, places
  <2>3. \A i, j \in places(d, l) : i < j => f[i] < f[j]
    BY <2>1 DEF thins
  <2>4. ASSUME NEW j \in marked(d, l) PROVE f[j] \in marked(c, l)
    <3>1. PICK m \in 1 .. j - 1 : d[m] = "marker"
      BY DEF marked, behind
    <3>2. j \in places(d, l) /\ j \in 1 .. Len(d) /\ d[j] = l
      BY <2>1 DEF marked
    <3>3. m \in 1 .. Len(d) /\ m < j
      BY <1>1, <3>1, <3>2
    <3>4. f[m] \in 1 .. Len(c) /\ c[f[m]] = "marker" /\ f[m] < f[j] /\ f[j] \in places(c, l)
      BY <2>2, <3>1, <3>2, <3>3 DEF thins
    <3>5. f[m] \in 1 .. f[j] - 1
      BY <1>1, <3>4 DEF places
    <3>. QED  BY <3>4, <3>5 DEF marked, behind
  <2>5. ASSUME keeps(f, c, d), NEW j \in loose(d, l) PROVE f[j] \in loose(c, l)
    <3>1. j \in places(d, l) /\ ~joined(d, j) /\ j \in 1 .. Len(d) /\ d[j] \in Own
      BY <2>1 DEF loose
    <3>2. ~joined(c, f[j])
      BY <2>5, <3>1 DEF keeps
    <3>. QED  BY <2>2, <3>1, <3>2 DEF loose
  <2>. QED  BY <2>2, <2>3, <2>4, <2>5
<1>3. \A l : /\ places(d, l) \subseteq Nat /\ places(c, l) \subseteq Nat
             /\ loose(d, l) \subseteq places(d, l) /\ loose(c, l) \subseteq places(c, l)
             /\ marked(d, l) \subseteq places(d, l) /\ marked(c, l) \subseteq places(c, l)
  BY <1>1 DEF places, loose, marked
<1>4. ASSUME NEW l \in Own PROVE Cardinality(marked(d, l)) <= 1
  <2>1. Cardinality(marked(d, l)) <= Cardinality(marked(c, l))
    BY <1>2, <1>3, PlacesAre, Embeds
  <2>2. Cardinality(marked(c, l)) <= 1
    BY DEF sound
  <2>. QED  BY <2>1, <2>2, PlacesAre
<1>5. ASSUME NEW l \in Own PROVE Cardinality(loose(d, l)) <= n + 1
  <2>1. Cardinality(places(d, l)) <= Cardinality(places(c, l))
    BY <1>2, <1>3, PlacesAre, Embeds
  <2>2. Cardinality(places(c, l)) <= n + 1
    BY SoundTally, PlacesAre
  <2>3. Cardinality(loose(d, l)) <= Cardinality(places(d, l))
    BY <1>3, PlacesAre, FS_Subset
  <2>. QED  BY <2>1, <2>2, <2>3, PlacesAre
<1>6. ASSUME keeps(f, c, d), NEW l \in Own PROVE Cardinality(loose(d, l)) <= n
  <2>1. Cardinality(loose(d, l)) <= Cardinality(loose(c, l))
    BY <1>2, <1>3, <1>6, PlacesAre, Embeds
  <2>2. Cardinality(loose(c, l)) <= n
    BY DEF sound
  <2>. QED  BY <2>1, <2>2, PlacesAre
<1>. QED  BY <1>4, <1>5, <1>6 DEF sound

\* What a file begins with says which hooks there stand behind a marker.
LEMMA Beginning ==
    ASSUME NEW S, NEW c \in Seq(S), NEW d \in Seq(S), Len(c) <= Len(d),
           \A k \in 1 .. Len(c) : d[k] = c[k], NEW i \in 1 .. Len(c)
    PROVE  (joined(d, i) <=> joined(c, i)) /\ (behind(d, i) <=> behind(c, i))
<1>1. Len(c) \in Nat /\ \A k \in 1 .. i : k \in 1 .. Len(c) /\ d[k] = c[k]
  BY LenProperties
<1>2. \A m \in 1 .. i - 1 : m \in 1 .. i /\ \A k \in m + 1 .. i : k \in 1 .. i
  BY <1>1
<1>. QED  BY <1>1, <1>2 DEF joined, behind

LEMMA SoundBeginning ==
    ASSUME NEW S, NEW c \in Seq(S), NEW n \in Nat, sound(c, n), NEW k \in 0 .. Len(c)
    PROVE  SubSeq(c, 1, k) \in Seq(S) /\ sound(SubSeq(c, 1, k), n)
<1> DEFINE d == SubSeq(c, 1, k)
           f == [j \in 1 .. Len(d) |-> j]
<1>1. Len(c) \in Nat /\ \A j \in 1 .. Len(c) : c[j] \in S
  BY LenProperties, ElementOfSeq
<1>2. d \in Seq(S) /\ Len(d) = k /\ \A j \in 1 .. k : d[j] = c[j]
  BY <1>1, SubSeqProperties
<1> HIDE DEF d
<1>3. thins(f, c, d)
  BY <1>1, <1>2 DEF thins
<1>4. keeps(f, c, d)
  <2>1. Len(d) <= Len(c) /\ \A j \in 1 .. Len(d) : c[j] = d[j] /\ f[j] = j
    BY <1>1, <1>2
  <2>. QED  BY <1>2, <2>1, Beginning DEF keeps
<1> HIDE DEF f
<1>. QED  BY <1>2, <1>3, <1>4, Thin DEF d

-----------------------------------------------------------------------------
(* What install appends.                                                   *)

LEMMA LinesAre ==
    /\ Codex!Line = {"marker", "note", "edit", "prompt", "hook", "section"}
    /\ <<>> \in Seq(Codex!Line)
    /\ \A x \in Codex!Line : <<x>> \in Seq(Codex!Line)
  BY DEF Codex!Line

LEMMA Holds ==
    ASSUME NEW c \in Seq(Codex!Line), NEW L
    PROVE  Codex!contains(c, L) <=> \E i \in DOMAIN c : c[i] \in L
  BY DEF Codex!contains, Codex!Range

\* A hook can be appended that stands behind the last marker, with hooks only between.
ready(c) == Len(c) > 0 /\ (c[Len(c)] = "marker" \/ (c[Len(c)] \in Own /\ joined(c, Len(c))))

LEMMA AppendLine ==
    ASSUME NEW c \in Seq(Codex!Line), NEW n \in Nat, sound(c, n), NEW x \in Codex!Line,
           x = "marker" \/ (x \in Own /\ ready(c) /\ marked(c, x) = {})
    PROVE  /\ c \o <<x>> \in Seq(Codex!Line) /\ sound(c \o <<x>>, n) /\ ready(c \o <<x>>)
           /\ \A l \in Own : l # x => marked(c \o <<x>>, l) = marked(c, l)
<1> DEFINE d == c \o <<x>>
           k == Len(c) + 1
<1>1. Len(c) \in Nat /\ k \in Nat
  BY LenProperties
<1>2. d \in Seq(Codex!Line) /\ Len(d) = k /\ d[k] = x /\ \A i \in 1 .. Len(c) : d[i] = c[i]
  <2>1. <<x>> \in Seq(Codex!Line) /\ Len(<<x>>) = 1 /\ <<x>>[1] = x
    BY LinesAre
  <2>2. /\ d \in Seq(Codex!Line) /\ Len(d) = Len(c) + Len(<<x>>)
        /\ \A i \in 1 .. Len(c) + Len(<<x>>) : d[i] = IF i <= Len(c) THEN c[i] ELSE <<x>>[i - Len(c)]
    BY <2>1, ConcatProperties
  <2> HIDE DEF d
  <2>. QED  BY <1>1, <2>1, <2>2
<1> HIDE DEF d
<1>3. \A i \in 1 .. Len(c) : (joined(d, i) <=> joined(c, i)) /\ (behind(d, i) <=> behind(c, i))
  <2>1. Len(c) <= Len(d)
    BY <1>1, <1>2
  <2>. QED  BY <1>2, <2>1, Beginning
<1>4. \A l : places(d, l) = places(c, l) \cup (IF l = x THEN {k} ELSE {})
  BY <1>1, <1>2 DEF places
<1>5. x \in Own => joined(d, k)
  <2> SUFFICES ASSUME x \in Own PROVE joined(d, k)
    OBVIOUS
  <2>1. ready(c) /\ x # "marker"
    BY DEF Own
  <2>2. CASE c[Len(c)] = "marker"
    <3>1. Len(c) \in 1 .. k - 1 /\ d[Len(c)] = "marker" /\ \A j \in Len(c) + 1 .. k : j = k
      BY <1>1, <1>2, <2>1, <2>2 DEF ready
    <3>. QED  BY <1>2, <3>1 DEF joined
  <2>3. CASE joined(c, Len(c)) /\ Len(c) > 0
    <3>1. PICK m \in 1 .. Len(c) - 1 : c[m] = "marker" /\ \A j \in m + 1 .. Len(c) : c[j] \in Own
      BY <2>3 DEF joined
    <3>2. m \in 1 .. k - 1 /\ m \in 1 .. Len(c)
      BY <1>1, <3>1
    <3>3. \A j \in m + 1 .. k : d[j] \in Own
      <4>1. \A j \in m + 1 .. k : j = k \/ (j \in m + 1 .. Len(c) /\ j \in 1 .. Len(c))
        BY <1>1, <3>1
      <4>. QED  BY <1>2, <3>1, <4>1
    <3>. QED  BY <1>2, <3>1, <3>2, <3>3 DEF joined
  <2>. QED  BY <2>1, <2>2, <2>3 DEF ready
<1>6. ASSUME NEW l \in Own
      PROVE  loose(d, l) = loose(c, l) /\ marked(d, l) \subseteq marked(c, l) \cup (IF l = x THEN {k} ELSE {})
             /\ marked(c, l) \subseteq marked(d, l)
  <2>1. places(c, l) \subseteq 1 .. Len(c)
    BY DEF places
  <2>. QED  BY <1>3, <1>4, <1>5, <2>1 DEF loose, marked
<1>7. \A l \in Own : l # x => marked(d, l) = marked(c, l)
  BY <1>6
<1>8. ASSUME NEW l \in Own PROVE Cardinality(marked(d, l)) <= 1
  <2>1. CASE l = x
    <3>1. marked(c, l) = {}
      BY <2>1 DEF Own
    <3>2. marked(d, l) \subseteq {k}
      BY <1>6, <2>1, <3>1
    <3>3. IsFiniteSet({k}) /\ Cardinality({k}) = 1
      BY FS_Singleton
    <3>4. Cardinality(marked(d, l)) <= Cardinality({k})
      BY <3>2, <3>3, FS_Subset
    <3>. QED  BY <3>3, <3>4
  <2>2. CASE l # x
    BY <1>7, <2>2 DEF sound
  <2>. QED  BY <2>1, <2>2
<1>9. sound(d, n)
  BY <1>6, <1>8 DEF sound
<1>10. ready(d)
  BY <1>1, <1>2, <1>5 DEF ready
<1>. QED  BY <1>2, <1>7, <1>9, <1>10 DEF d

LEMMA Installed ==
    ASSUME NEW c \in Seq(Codex!Line), NEW n \in Nat, sound(c, n)
    PROVE  /\ Codex!install(c) \in Seq(Codex!Line) /\ sound(Codex!install(c), n)
           /\ \A l \in {"note", "section"} : tally(Codex!install(c), l) = tally(c, l)
<1> DEFINE E == IF Codex!has_codex_edit_hook_text(c) THEN <<>> ELSE <<"edit">>
           P == IF Codex!has_codex_prompt_hook_text(c) THEN <<>> ELSE <<"prompt">>
           M == <<"marker">>
           c1 == c \o M
           c2 == c1 \o E
           c3 == c2 \o P
<1>1. CASE Codex!has_codex_edit_hook_text(c) /\ Codex!has_codex_prompt_hook_text(c)
  <2>1. Codex!install(c) = c
    BY <1>1 DEF Codex!install
  <2>. QED  BY <2>1
<1>2. CASE ~(Codex!has_codex_edit_hook_text(c) /\ Codex!has_codex_prompt_hook_text(c))
  <2>1. Codex!install(c) = c3
    BY <1>2 DEF Codex!install
  <2>2. M \in Seq(Codex!Line) /\ E \in Seq(Codex!Line) /\ P \in Seq(Codex!Line)
    BY LinesAre
  \* A hook that is missed does not stand behind a marker.
  <2>3. /\ ~Codex!has_codex_edit_hook_text(c) => marked(c, "edit") = {}
        /\ ~Codex!has_codex_prompt_hook_text(c) => marked(c, "prompt") = {}
    <3>1. ASSUME NEW l \in Own, NEW i \in marked(c, l) PROVE Codex!has_marker(c) /\ Codex!contains(c, {l})
      <4>1. PICK m \in 1 .. i - 1 : c[m] = "marker"
        BY <3>1 DEF marked, behind
      <4>2. i \in 1 .. Len(c) /\ c[i] = l /\ Len(c) \in Nat /\ DOMAIN c = 1 .. Len(c)
        BY <3>1, LenProperties DEF marked, places
      <4>3. m \in DOMAIN c /\ i \in DOMAIN c
        BY <4>1, <4>2
      <4>. QED  BY <4>1, <4>2, <4>3, Holds DEF Codex!has_marker
    <3>2. Codex!contains(c, {"edit"}) => Codex!contains(c, {"edit", "prompt"})
      BY Holds
    <3>. QED
      BY <3>1, <3>2 DEF Codex!has_codex_edit_hook_text, Codex!has_codex_prompt_hook_text, Own
  <2>4. /\ c1 \in Seq(Codex!Line) /\ sound(c1, n) /\ ready(c1)
        /\ \A l \in Own : marked(c1, l) = marked(c, l)
    BY AppendLine, LinesAre DEF Own
  <2> HIDE DEF c1
  <2>5. c2 \in Seq(Codex!Line) /\ sound(c2, n) /\ ready(c2) /\ marked(c2, "prompt") = marked(c1, "prompt")
    <3>1. CASE Codex!has_codex_edit_hook_text(c)
      <4>1. c2 = c1
        BY <2>4, <3>1, ConcatEmptySeq
      <4>. QED  BY <2>4, <4>1
    <3>2. CASE ~Codex!has_codex_edit_hook_text(c)
      <4>1. marked(c1, "edit") = {}
        BY <2>3, <2>4, <3>2 DEF Own
      <4>. QED  BY <2>4, <3>2, <4>1, AppendLine, LinesAre DEF Own
    <3>. QED  BY <3>1, <3>2
  <2> HIDE DEF c2
  <2>6. c3 \in Seq(Codex!Line) /\ sound(c3, n)
    <3>1. CASE Codex!has_codex_prompt_hook_text(c)
      <4>1. c3 = c2
        BY <2>5, <3>1, ConcatEmptySeq
      <4>. QED  BY <2>5, <4>1
    <3>2. CASE ~Codex!has_codex_prompt_hook_text(c)
      <4>1. marked(c2, "prompt") = {}
        BY <2>3, <2>4, <2>5, <3>2 DEF Own
      <4>. QED  BY <2>5, <3>2, <4>1, AppendLine, LinesAre DEF Own
    <3>. QED  BY <3>1, <3>2
  <2>7. \A l \in {"note", "section"} : tally(c3, l) = tally(c, l)
    <3> TAKE l \in {"note", "section"}
    <3>1. tally(M, l) = 0 /\ tally(E, l) = 0 /\ tally(P, l) = 0
      <4>1. tally(<<>>, l) = 0
        BY FS_EmptySet DEF tally
      <4>. QED  BY <4>1, TallyOfOne
    <3> HIDE DEF M, E, P, c1, c2, c3
    <3>2. tally(c1, l) = tally(c, l) + tally(M, l)
      BY <2>2, TallyOfConcat DEF c1
    <3>3. tally(c2, l) = tally(c1, l) + tally(E, l)
      BY <2>2, <2>4, TallyOfConcat DEF c2
    <3>4. tally(c3, l) = tally(c2, l) + tally(P, l)
      BY <2>2, <2>5, TallyOfConcat DEF c3
    <3>5. tally(c, l) \in Nat
      BY TallyType
    <3> HIDE DEF M, E, P, c3
    <3>. QED  BY <3>1, <3>2, <3>3, <3>4, <3>5
  <2>. QED  BY <2>1, <2>6, <2>7
<1>. QED  BY <1>1, <1>2

-----------------------------------------------------------------------------
(* A file without some of its lines.                                       *)

LEMMA Around ==
    ASSUME NEW S, NEW c \in Seq(S), NEW a \in 1 .. Len(c) + 1, NEW b \in a .. Len(c) + 1
    PROVE  /\ SubSeq(c, 1, a - 1) \in Seq(S) /\ SubSeq(c, b, Len(c)) \in Seq(S)
           /\ SubSeq(c, 1, a - 1) \o SubSeq(c, b, Len(c)) \in Seq(S)
           /\ Len(SubSeq(c, 1, a - 1) \o SubSeq(c, b, Len(c))) = Len(c) - (b - a)
           /\ \A j \in 1 .. Len(c) - (b - a) :
                 (SubSeq(c, 1, a - 1) \o SubSeq(c, b, Len(c)))[j] = c[IF j < a THEN j ELSE j + (b - a)]
<1>1. Len(c) \in Nat /\ a \in Nat /\ b \in Nat /\ 1 <= a /\ a <= b /\ b <= Len(c) + 1
  <2>1. Len(c) \in Nat
    BY LenProperties
  <2>. QED  BY <2>1
<1> DEFINE s == SubSeq(c, 1, a - 1)
           t == SubSeq(c, b, Len(c))
<1>2. \A k \in 1 .. Len(c) : c[k] \in S
  BY ElementOfSeq
<1>3. s \in Seq(S) /\ Len(s) = a - 1 /\ \A i \in 1 .. a - 1 : s[i] = c[i]
  <2>1. 1 \in Int /\ a - 1 \in Int /\ \A k \in 1 .. a - 1 : c[k] \in S
    BY <1>1, <1>2
  <2>2. /\ s \in Seq(S) /\ Len(s) = (IF 1 <= a - 1 THEN (a - 1) - 1 + 1 ELSE 0)
        /\ \A i \in 1 .. (a - 1) - 1 + 1 : s[i] = c[1 + i - 1]
    BY <2>1, SubSeqProperties
  <2> HIDE DEF s
  <2>. QED  BY <1>1, <2>2
<1>4. t \in Seq(S) /\ Len(t) = Len(c) + 1 - b /\ \A i \in 1 .. Len(c) + 1 - b : t[i] = c[b + i - 1]
  <2>1. b \in Int /\ Len(c) \in Int /\ \A k \in b .. Len(c) : c[k] \in S
    BY <1>1, <1>2
  <2>2. /\ t \in Seq(S) /\ Len(t) = (IF b <= Len(c) THEN Len(c) - b + 1 ELSE 0)
        /\ \A i \in 1 .. Len(c) - b + 1 : t[i] = c[b + i - 1]
    BY <2>1, SubSeqProperties
  <2> HIDE DEF t
  <2>. QED  BY <1>1, <2>2
<1>5. /\ s \o t \in Seq(S) /\ Len(s \o t) = Len(s) + Len(t)
      /\ \A j \in 1 .. Len(s) + Len(t) : (s \o t)[j] = IF j <= Len(s) THEN s[j] ELSE t[j - Len(s)]
  BY <1>3, <1>4, ConcatProperties
<1> HIDE DEF s, t
<1>6. Len(s \o t) = Len(c) - (b - a)
  BY <1>1, <1>3, <1>4, <1>5
<1>7. ASSUME NEW j \in 1 .. Len(c) - (b - a)
      PROVE  (s \o t)[j] = c[IF j < a THEN j ELSE j + (b - a)]
  <2>1. j \in Nat /\ 1 <= j /\ j <= Len(c) - (b - a)
    BY <1>1
  <2>2. j \in 1 .. Len(s) + Len(t)
    BY <1>1, <1>3, <1>4, <2>1
  <2>3. CASE j < a
    BY <1>1, <1>3, <1>5, <2>1, <2>2, <2>3
  <2>4. CASE ~(j < a)
    <3>1. (s \o t)[j] = t[j - Len(s)] /\ j - Len(s) = j - a + 1
      BY <1>1, <1>3, <1>5, <2>1, <2>2, <2>4
    <3>2. j - a + 1 \in 1 .. Len(c) + 1 - b /\ b + (j - a + 1) - 1 = j + (b - a)
      BY <1>1, <2>1, <2>4
    <3>. QED  BY <1>4, <2>4, <3>1, <3>2
  <2>. QED  BY <2>3, <2>4
<1>. QED  BY <1>3, <1>4, <1>5, <1>6, <1>7 DEF s, t

\* No hook is parted from its marker when all goes from the first marker on, to
\* a line that is not aitrack's, or one line that is not a marker.
LEMMA SoundAround ==
    ASSUME NEW c \in Seq(Codex!Line), NEW n \in Nat, sound(c, n),
           NEW a \in 1 .. Len(c) + 1, NEW b \in a .. Len(c) + 1, NEW d \in Seq(Codex!Line),
           d = SubSeq(c, 1, a - 1) \o SubSeq(c, b, Len(c))
    PROVE  /\ sound(d, n + 1)
           /\ \/ /\ \A i \in 1 .. a - 1 : c[i] # "marker"
                 /\ b <= Len(c) => c[b] \notin Own \cup {"marker"}
              \/ b = a + 1 /\ c[a] # "marker"
              => sound(d, n)
<1>1. Len(c) \in Nat /\ a \in Nat /\ b \in Nat /\ 1 <= a /\ a <= b /\ b <= Len(c) + 1
  <2>1. Len(c) \in Nat
    BY LenProperties
  <2>. QED  BY <2>1
<1>2. PICK k \in Nat, N \in Nat : b = a + k /\ N + k = Len(c) /\ a <= N + 1
  <2>1. b - a \in Nat /\ Len(c) - (b - a) \in Nat /\ b = a + (b - a)
        /\ Len(c) - (b - a) + (b - a) = Len(c) /\ a <= Len(c) - (b - a) + 1
    BY <1>1
  <2>. QED  BY <2>1
<1>3. /\ Len(d) = N
      /\ \A j \in 1 .. N : (j < a => d[j] = c[j]) /\ (j >= a => d[j] = c[j + k])
  <2>1. b - a = k /\ Len(c) - (b - a) = N
    BY <1>1, <1>2
  <2>2. /\ Len(d) = Len(c) - (b - a)
        /\ \A j \in 1 .. Len(c) - (b - a) : d[j] = c[IF j < a THEN j ELSE j + (b - a)]
    BY Around
  <2>3. \A j \in 1 .. N : d[j] = c[IF j < a THEN j ELSE j + k]
    BY <2>1, <2>2
  <2>4. \A j \in 1 .. N : (j >= a) = ~(j < a)
    BY <1>1
  <2>. QED  BY <2>1, <2>2, <2>3, <2>4
<1> DEFINE f == [j \in 1 .. N |-> IF j < a THEN j ELSE j + k]
<1>4. ASSUME NEW j \in 1 .. N
      PROVE  /\ j \in Nat /\ 1 <= j /\ j <= N
             /\ (j < a /\ f[j] = j) \/ (j >= a /\ f[j] = j + k)
             /\ f[j] \in 1 .. Len(c) /\ d[j] = c[f[j]]
  <2>1. j \in Nat /\ 1 <= j /\ j <= N
    BY <1>2
  <2>2. f[j] = IF j < a THEN j ELSE j + k
    OBVIOUS
  <2> HIDE DEF f
  <2>3. (j < a /\ f[j] = j) \/ (j >= a /\ f[j] = j + k)
    BY <1>1, <2>1, <2>2
  <2>4. f[j] \in 1 .. Len(c)
    BY <1>1, <1>2, <2>1, <2>3
  <2>. QED  BY <1>3, <2>1, <2>3, <2>4
<1> HIDE DEF f
<1>7. \A i, j \in 1 .. N : i < j => f[i] < f[j]
  <2> SUFFICES ASSUME NEW i \in 1 .. N, NEW j \in 1 .. N, i < j PROVE f[i] < f[j]
    OBVIOUS
  <2>1. i \in Nat /\ ((i < a /\ f[i] = i) \/ (i >= a /\ f[i] = i + k))
    BY <1>4
  <2>2. j \in Nat /\ ((j < a /\ f[j] = j) \/ (j >= a /\ f[j] = j + k))
    BY <1>4
  <2>. QED  BY <1>1, <1>2, <2>1, <2>2
<1>5. thins(f, c, d)
  BY <1>3, <1>4, <1>7 DEF thins
<1>6. ASSUME \/ /\ \A i \in 1 .. a - 1 : c[i] # "marker"
                /\ b <= Len(c) => c[b] \notin Own \cup {"marker"}
             \/ b = a + 1 /\ c[a] # "marker"
      PROVE  keeps(f, c, d)
  <2>1. ASSUME NEW j \in 1 .. N, joined(c, f[j]) PROVE joined(d, j)
    <3>1. PICK m \in 1 .. f[j] - 1 : c[m] = "marker" /\ \A x \in m + 1 .. f[j] : c[x] \in Own
      BY <2>1 DEF joined
    <3>2. /\ j \in Nat /\ 1 <= j /\ j <= N
          /\ (j < a /\ f[j] = j) \/ (j >= a /\ f[j] = j + k)
          /\ f[j] \in Nat /\ m \in Nat /\ 1 <= m /\ m < f[j] /\ f[j] <= Len(c)
      <4>1. /\ j \in Nat /\ 1 <= j /\ j <= N /\ f[j] \in 1 .. Len(c)
            /\ (j < a /\ f[j] = j) \/ (j >= a /\ f[j] = j + k)
        BY <1>4
      <4>2. f[j] \in Nat /\ f[j] <= Len(c)
        BY <1>1, <4>1
      <4>3. m \in Nat /\ 1 <= m /\ m < f[j]
        BY <3>1, <4>2
      <4>. QED  BY <4>1, <4>2, <4>3
    <3>3. m < a \/ m >= b
      <4>1. CASE b = a + 1 /\ c[a] # "marker"
        BY <1>1, <3>1, <3>2, <4>1
      <4>2. CASE b <= Len(c) /\ c[b] \notin Own \cup {"marker"}
        <5>1. ~(b \in m + 1 .. f[j])
          BY <3>1, <4>2
        <5>. QED  BY <1>1, <1>2, <3>2, <5>1
      <4>3. CASE b = Len(c) + 1
        BY <1>1, <1>2, <3>2, <4>3
      <4>. QED  BY <1>1, <1>6, <4>1, <4>2, <4>3
    \* The marker's place now.
    <3>4. PICK x \in 1 .. N : x < j /\ f[x] = m
      <4>1. CASE m < a
        <5>1. m \in 1 .. N /\ m < j
          <6>1. m < j
            <7>1. CASE j < a
              BY <3>2, <7>1
            <7>2. CASE j >= a
              BY <1>1, <3>2, <4>1, <7>2
            <7>. QED  BY <1>1, <3>2, <7>1, <7>2
          <6>. QED  BY <1>2, <3>2, <6>1
        <5>2. f[m] = m
          <6>1. (m < a /\ f[m] = m) \/ (m >= a /\ f[m] = m + k)
            BY <1>4, <5>1
          <6>. QED  BY <1>1, <3>2, <4>1, <6>1
        <5>. QED  BY <5>1, <5>2
      <4>2. CASE m >= b
        <5>1. PICK x \in 1 .. N : x >= a /\ x + k = m /\ x < j
          <6>1. m - k \in Int /\ m - k >= a /\ (m - k) + k = m
            BY <1>1, <1>2, <3>2, <4>2
          <6>2. j >= a
            BY <1>1, <3>2, <4>2
          <6>3. m - k < j
            BY <1>1, <1>2, <3>2, <6>2
          <6>4. m - k \in 1 .. N
            BY <1>1, <1>2, <3>2, <6>1, <6>3
          <6>. QED  BY <6>1, <6>3, <6>4
        <5>2. f[x] = m
          <6>1. x \in Nat /\ ((x < a /\ f[x] = x) \/ (x >= a /\ f[x] = x + k))
            BY <1>4, <5>1
          <6>. QED  BY <1>1, <5>1, <6>1
        <5>. QED  BY <5>1, <5>2
      <4>. QED  BY <3>3, <4>1, <4>2
    <3>5. d[x] = "marker" /\ x \in 1 .. j - 1
      <4>1. d[x] = c[f[x]]
        BY <1>4
      <4>2. x \in 1 .. j - 1
        BY <1>2, <3>2, <3>4
      <4>. QED  BY <3>1, <3>4, <4>1, <4>2
    <3>6. ASSUME NEW y \in x + 1 .. j PROVE d[y] \in Own
      <4>1. y \in 1 .. N /\ x < y /\ (y < j \/ y = j)
        BY <1>2, <3>2, <3>4
      <4>2. f[x] < f[y] /\ (f[y] < f[j] \/ f[y] = f[j])
        BY <1>7, <3>4, <4>1
      <4>3. f[y] \in m + 1 .. f[j]
        <5>1. f[y] \in Nat
          <6>1. f[y] \in 1 .. Len(c)
            BY <1>4, <4>1
          <6>. QED  BY <1>1, <6>1
        <5>2. m < f[y]
          BY <3>4, <4>2
        <5>3. f[y] <= f[j]
          <6>1. f[j] \in Nat
            BY <3>2
          <6>2. f[y] < f[j] \/ f[y] = f[j]
            BY <4>2
          <6>. QED  BY <5>1, <6>1, <6>2
        <5>. QED  BY <3>2, <5>1, <5>2, <5>3
      <4>. QED  BY <1>4, <3>1, <4>1, <4>3
    <3>. QED  BY <3>5, <3>6 DEF joined
  <2>. QED  BY <1>3, <2>1 DEF keeps
<1>. QED  BY <1>5, <1>6, Thin

-----------------------------------------------------------------------------
(* What remove leaves.                                                     *)

earliest(c, set) == IF set = {} THEN Len(c) + 1 ELSE CHOOSE i \in set : \A j \in set : i <= j

LEMMA Earliest ==
    ASSUME NEW S, NEW c \in Seq(S), NEW set, set \subseteq 1 .. Len(c)
    PROVE  /\ earliest(c, set) \in 1 .. Len(c) + 1
           /\ earliest(c, set) \in set \/ (set = {} /\ earliest(c, set) = Len(c) + 1)
           /\ \A j \in set : earliest(c, set) <= j
<1>1. Len(c) \in Nat
  BY LenProperties
<1>2. CASE set = {}
  BY <1>1, <1>2 DEF earliest
<1>3. CASE set # {}
  <2>1. \E i \in set : \A j \in set : i <= j
    <3>1. set \subseteq Nat
      BY <1>1
    <3>. QED  BY <1>3, <3>1, LeastNumber
  <2>2. earliest(c, set) \in set /\ \A j \in set : earliest(c, set) <= j
    BY <1>3, <2>1 DEF earliest
  <2>3. earliest(c, set) \in 1 .. Len(c)
    BY <2>2
  <2>4. earliest(c, set) \in 1 .. Len(c) + 1
    BY <1>1, <2>3
  <2>. QED  BY <2>2, <2>4
<1>. QED  BY <1>2, <1>3

\* The block runs from the first mark to the end that remove looks for.
start(c) == earliest(c, {i \in 1 .. Len(c) : Codex!marks(c[i])})
block(c) == earliest(c, {i \in start(c) .. Len(c) : c[i] = "marker"})
end(c) == earliest(c, {i \in block(c) .. Len(c) : c[i] # "marker" /\ ~Codex!part_of_block(c[i])})

LEMMA BlockIs ==
    ASSUME NEW c \in Seq(Codex!Line)
    PROVE  /\ Codex!remove_codex_block(c) = SubSeq(c, 1, start(c) - 1) \o SubSeq(c, end(c), Len(c))
           /\ start(c) \in 1 .. Len(c) + 1 /\ end(c) \in start(c) .. Len(c) + 1
           /\ end(c) <= Len(c) => c[end(c)] \notin Own \cup {"marker"}
           /\ \A i \in 1 .. start(c) - 1 : c[i] # "marker"
           /\ (\A i \in DOMAIN c : c[i] # "note") =>
                 \A i \in start(c) .. end(c) - 1 : c[i] # "section"
<1>1. Len(c) \in Nat /\ DOMAIN c = 1 .. Len(c)
  BY LenProperties
<1>2. Codex!remove_codex_block(c) = SubSeq(c, 1, start(c) - 1) \o SubSeq(c, end(c), Len(c))
  BY DEF Codex!remove_codex_block, start, block, end, earliest
<1> DEFINE Sm == {i \in 1 .. Len(c) : Codex!marks(c[i])}
           Bm == {i \in start(c) .. Len(c) : c[i] = "marker"}
           Em == {i \in block(c) .. Len(c) : c[i] # "marker" /\ ~Codex!part_of_block(c[i])}
<1>3. /\ start(c) \in 1 .. Len(c) + 1
      /\ start(c) \in Sm \/ start(c) = Len(c) + 1
  BY Earliest DEF start
<1>4. /\ block(c) \in 1 .. Len(c) + 1
      /\ block(c) \in Bm \/ (Bm = {} /\ block(c) = Len(c) + 1)
      /\ \A j \in Bm : block(c) <= j
  <2>1. Bm \subseteq 1 .. Len(c)
    BY <1>1, <1>3
  <2>. QED  BY <2>1, Earliest DEF block
<1>5. block(c) \in start(c) .. Len(c) + 1
  BY <1>1, <1>3, <1>4
<1>6. /\ end(c) \in 1 .. Len(c) + 1
      /\ end(c) \in Em \/ (Em = {} /\ end(c) = Len(c) + 1)
      /\ \A j \in Em : end(c) <= j
  <2>1. Em \subseteq 1 .. Len(c)
    BY <1>1, <1>4
  <2>. QED  BY <2>1, Earliest DEF end
<1>7. end(c) \in start(c) .. Len(c) + 1
  BY <1>1, <1>3, <1>5, <1>6
<1>8. end(c) <= Len(c) => c[end(c)] \notin Own \cup {"marker"}
  BY <1>1, <1>6 DEF Codex!part_of_block, Own
<1>10. \A i \in 1 .. start(c) - 1 : c[i] # "marker"
  <2>1. \A i \in Sm : start(c) <= i
    BY Earliest DEF start
  <2>. QED  BY <1>1, <1>3, <2>1 DEF Codex!marks
<1>9. ASSUME \A i \in DOMAIN c : c[i] # "note", NEW i \in start(c) .. end(c) - 1
      PROVE  c[i] # "section"
  <2>1. i \in 1 .. Len(c) /\ start(c) <= Len(c)
    BY <1>1, <1>3, <1>6, <1>9
  <2>2. start(c) \in Bm
    BY <1>1, <1>3, <1>9, <2>1 DEF Codex!marks
  <2>3. block(c) = start(c)
    BY <1>4, <1>5, <2>2
  <2>4. i \notin Em
    BY <1>6, <1>9, <2>1
  <2>5. c[i] = "marker" \/ Codex!part_of_block(c[i])
    BY <1>9, <2>1, <2>3, <2>4
  <2>. QED  BY <2>5 DEF Codex!part_of_block
<1>. QED  BY <1>2, <1>3, <1>7, <1>8, <1>9, <1>10

LEMMA Removed ==
    ASSUME NEW c \in Seq(Codex!Line), NEW n \in Nat, sound(c, n)
    PROVE  /\ Codex!remove_codex_block(c) \in Seq(Codex!Line)
           /\ sound(Codex!remove_codex_block(c), n)
           /\ \A l \in Codex!Line : tally(Codex!remove_codex_block(c), l) <= tally(c, l)
           /\ tally(c, "note") = 0 => tally(Codex!remove_codex_block(c), "section") = tally(c, "section")
<1> DEFINE s == SubSeq(c, 1, start(c) - 1)
           b == SubSeq(c, start(c), end(c) - 1)
           t == SubSeq(c, end(c), Len(c))
<1>1. Len(c) \in Nat /\ DOMAIN c = 1 .. Len(c)
  BY LenProperties
<1>2. /\ start(c) \in 1 .. Len(c) + 1 /\ end(c) \in start(c) .. Len(c) + 1
      /\ Codex!remove_codex_block(c) = s \o t
  BY BlockIs
<1>3. \A l : tally(c, l) = tally(s, l) + tally(b, l) + tally(t, l)
  <2> TAKE l
  <2>1. start(c) \in 1 .. Len(c) + 1 /\ end(c) - 1 \in start(c) - 1 .. Len(c) /\ (end(c) - 1) + 1 = end(c)
    BY <1>1, <1>2
  <2>. QED  BY <2>1, Cut
<1>4. s \in Seq(Codex!Line) /\ t \in Seq(Codex!Line) /\ s \o t \in Seq(Codex!Line)
  BY <1>2, Around
<1>12. b \in Seq(Codex!Line)
  <2>1. start(c) \in Int /\ end(c) - 1 \in Int /\ \A k \in start(c) .. end(c) - 1 : c[k] \in Codex!Line
    BY <1>1, <1>2, ElementOfSeq
  <2>. QED  BY <2>1, SubSeqProperties
<1>5. \A l : tally(s \o t, l) = tally(s, l) + tally(t, l)
  BY <1>4, TallyOfConcat
<1>6. \A l : tally(s, l) \in Nat /\ tally(b, l) \in Nat /\ tally(t, l) \in Nat
  BY <1>4, <1>12, TallyType
<1>7. tally(c, "note") = 0 => tally(b, "section") = 0
  <2> SUFFICES ASSUME tally(c, "note") = 0
               PROVE  \A i \in DOMAIN b : b[i] # "section"
    BY <1>12, TallyType
  <2>1. \A i \in DOMAIN c : c[i] # "note"
    BY TallyType
  <2>2. \A i \in start(c) .. end(c) - 1 : c[i] # "section"
    BY <2>1, BlockIs
  <2>3. \A i \in 1 .. Len(b) : b[i] = c[start(c) + i - 1] /\ start(c) + i - 1 \in start(c) .. end(c) - 1
    <3>1. start(c) \in Int /\ end(c) - 1 \in Int /\ \A k \in start(c) .. end(c) - 1 : c[k] \in Codex!Line
      BY <1>1, <1>2, ElementOfSeq
    <3>2. /\ Len(b) = IF start(c) <= end(c) - 1 THEN (end(c) - 1) - start(c) + 1 ELSE 0
          /\ \A i \in 1 .. (end(c) - 1) - start(c) + 1 : b[i] = c[start(c) + i - 1]
      BY <3>1, SubSeqProperties
    <3>3. start(c) \in Nat /\ end(c) \in Nat /\ start(c) <= end(c)
      BY <1>1, <1>2
    <3> HIDE DEF b
    <3>4. Len(b) = end(c) - start(c)
      BY <3>2, <3>3
    <3>. QED  BY <3>2, <3>3, <3>4
  <2>. QED  BY <1>12, <2>2, <2>3, LenProperties
<1>8. sound(s \o t, n)
  BY <1>2, <1>4, BlockIs, SoundAround
<1> HIDE DEF s, b, t
<1>10. \A l \in Codex!Line : tally(s \o t, l) <= tally(c, l)
  BY <1>3, <1>5, <1>6
<1>11. tally(c, "note") = 0 => tally(s \o t, "section") = tally(c, "section")
  BY <1>3, <1>5, <1>6, <1>7
<1>. QED  BY <1>2, <1>4, <1>8, <1>10, <1>11

-----------------------------------------------------------------------------
(* The steps.                                                              *)

LEMMA CodexInit == Codex!Init => CodexTypeOK /\ OnceInv /\ SectionsInv
<1> SUFFICES ASSUME Codex!Init PROVE CodexTypeOK /\ OnceInv /\ SectionsInv
  OBVIOUS
<1> DEFINE old == <<"marker", "edit">>
<1>1. toml \in {<<>>, <<"section">>, old} /\ ctext = <<>> /\ disturbed = 0 /\ cpc = "idle"
  BY DEF Codex!Init
<1>2. old \in Seq(Codex!Line) /\ Len(old) = 2 /\ old[1] = "marker" /\ old[2] = "edit"
  BY DEF Codex!Line
<1>3. toml \in Seq(Codex!Line) /\ ctext \in Seq(Codex!Line)
  BY <1>1, <1>2, LinesAre
<1>4. sound(<<>>, 0)
  BY SoundEmpty
<1>5. sound(<<"section">>, 0)
  <2>1. Len(<<"section">>) = 1 /\ <<"section">>[1] = "section"
    OBVIOUS
  <2>2. \A l \in Own : places(<<"section">>, l) = {}
    BY <2>1 DEF places, Own
  <2>3. \A l \in Own : loose(<<"section">>, l) = {} /\ marked(<<"section">>, l) = {}
    BY <2>2 DEF loose, marked
  <2>. QED  BY <2>3, FS_EmptySet DEF sound
<1>6. sound(old, 0)
  <2>1. \A i \in 1 .. 2 : i \in {1, 2}
    OBVIOUS
  <2>2. joined(old, 2)
    <3>1. 1 \in 1 .. 2 - 1 /\ \A k \in 1 + 1 .. 2 : k = 2
      OBVIOUS
    <3>. QED  BY <1>2, <3>1 DEF joined, Own
  <2> HIDE DEF old
  <2>3. places(old, "prompt") = {} /\ places(old, "edit") = {2}
    BY <1>2, <2>1 DEF places
  <2>4. /\ \A l \in Own : loose(old, l) = {}
        /\ \A l \in Own : marked(old, l) = {} \/ marked(old, l) = {2}
    BY <2>2, <2>3 DEF loose, marked, Own
  <2>5. Cardinality({}) = 0 /\ Cardinality({2}) = 1
    BY FS_EmptySet, FS_Singleton
  <2>6. ASSUME NEW l \in Own
        PROVE  Cardinality(loose(old, l)) <= 0 /\ Cardinality(marked(old, l)) <= 1
    BY <2>4, <2>5
  <2>. QED  BY <2>6 DEF sound
<1>7. tally(toml, "note") = 0 /\ tally(toml, "section") = sections
  <2>1. \A l : tally(<<>>, l) = 0
    BY FS_EmptySet DEF tally
  <2>2. \A l \in {"note", "section"} : tally(old, l) = 0
    <3>1. DOMAIN old = {1, 2}
      OBVIOUS
    <3>2. \A l \in {"note", "section"} : {i \in DOMAIN old : old[i] = l} = {}
      BY <1>2, <3>1
    <3>. QED  BY <3>2, FS_EmptySet DEF tally
  <2>3. tally(<<"section">>, "section") = 1 /\ tally(<<"section">>, "note") = 0
    BY TallyOfOne
  <2>4. sections = IF toml = <<"section">> THEN 1 ELSE 0
    BY DEF Codex!Init
  <2>5. old # <<"section">> /\ <<>> # <<"section">>
    BY <1>2
  <2> HIDE DEF old
  <2>. QED  BY <1>1, <2>1, <2>2, <2>3, <2>4, <2>5
<1>8. sections \in Int
  BY DEF Codex!Init
<1> HIDE DEF old
<1>9. OnceInv
  BY <1>1, <1>4, <1>5, <1>6 DEF OnceInv
<1>. QED  BY <1>1, <1>3, <1>7, <1>8, <1>9 DEF CodexTypeOK, SectionsInv, complete, running, writing

LEMMA InstallStep ==
    ASSUME CodexTypeOK, OnceInv, SectionsInv, Codex!InstallHook
    PROVE  CodexTypeOK' /\ OnceInv' /\ SectionsInv'
<1>1. /\ cpc = "idle" /\ UNCHANGED <<toml, sections, disturbed, ctorn>>
      /\ UNCHANGED <<cpc, ctext>> \/ (cpc' = "init" /\ ctext' = Codex!install(toml))
  BY DEF Codex!InstallHook, Codex!user_vars
<1>2. toml \in Seq(Codex!Line) /\ disturbed \in Nat /\ sound(toml, disturbed)
  BY DEF CodexTypeOK, OnceInv
<1>3. /\ Codex!install(toml) \in Seq(Codex!Line) /\ sound(Codex!install(toml), disturbed)
      /\ \A l \in {"note", "section"} : tally(Codex!install(toml), l) = tally(toml, l)
  BY <1>2, Installed
<1>4. SectionsInv'
  BY <1>1, <1>3 DEF SectionsInv, complete, running, writing
<1>. QED  BY <1>1, <1>3, <1>4 DEF CodexTypeOK, OnceInv

LEMMA RemoveStep ==
    ASSUME CodexTypeOK, OnceInv, SectionsInv, Codex!RemoveHook
    PROVE  CodexTypeOK' /\ OnceInv' /\ SectionsInv'
<1>1. /\ cpc = "idle" /\ UNCHANGED <<toml, sections, disturbed, ctorn>>
      /\ cpc' = "remove" /\ ctext' = Codex!remove_codex_block(toml)
  BY DEF Codex!RemoveHook, Codex!user_vars
<1>2. toml \in Seq(Codex!Line) /\ disturbed \in Nat /\ sound(toml, disturbed)
  BY DEF CodexTypeOK, OnceInv
<1>3. /\ ctext' \in Seq(Codex!Line) /\ sound(ctext', disturbed)
      /\ \A l \in Codex!Line : tally(ctext', l) <= tally(toml, l)
      /\ tally(toml, "note") = 0 => tally(ctext', "section") = tally(toml, "section")
  BY <1>1, <1>2, Removed
<1>4. tally(toml, "note") \in Nat /\ tally(ctext', "note") \in Nat /\ "note" \in Codex!Line
  BY <1>2, <1>3, TallyType, LinesAre
<1>5. tally(toml, "note") = 0 => tally(ctext', "note") = 0
  BY <1>3, <1>4
<1>6. SectionsInv'
  BY <1>1, <1>3, <1>5 DEF SectionsInv, complete, running, writing
<1>. QED  BY <1>1, <1>3, <1>6 DEF CodexTypeOK, OnceInv

LEMMA FileSteps ==
    ASSUME CodexTypeOK, OnceInv, SectionsInv,
           Codex!Truncate \/ Codex!WriteText \/ Codex!Crash
    PROVE  CodexTypeOK' /\ OnceInv' /\ SectionsInv'
<1>1. /\ toml \in Seq(Codex!Line) /\ ctext \in Seq(Codex!Line) /\ disturbed \in Nat
      /\ sound(toml, disturbed) /\ sound(ctext, disturbed) /\ sound(<<>>, disturbed)
      /\ <<>> \in Seq(Codex!Line)
  BY SoundEmpty, LinesAre DEF CodexTypeOK, OnceInv
<1>2. UNCHANGED <<sections, disturbed>>
  BY DEF Codex!Truncate, Codex!WriteText, Codex!Crash, Codex!user_vars
<1>3. CASE Codex!Truncate
  <2>1. /\ toml' = <<>> /\ cpc \in {"init", "remove"} /\ cpc' \in {"write_init", "write_remove"}
        /\ UNCHANGED <<ctext, ctorn>>
    BY <1>3 DEF Codex!Truncate
  <2>. QED
    BY <1>1, <1>2, <2>1 DEF CodexTypeOK, OnceInv, SectionsInv, complete, running, writing
<1>4. CASE Codex!WriteText
  <2>1. /\ toml' = ctext /\ ctext' = <<>> /\ cpc \in {"write_init", "write_remove"} /\ cpc' = "idle"
        /\ UNCHANGED ctorn
    BY <1>4 DEF Codex!WriteText
  <2>. QED
    BY <1>1, <1>2, <2>1 DEF CodexTypeOK, OnceInv, SectionsInv, complete, running, writing
<1>5. CASE Codex!Crash
  <2>1. ctext' = <<>> /\ cpc' = "idle"
    BY <1>5 DEF Codex!Crash
  <2>2. CASE cpc \in {"init", "remove"}
    <3>1. UNCHANGED <<toml, ctorn>>
      BY <1>5, <2>2 DEF Codex!Crash
    <3>. QED
      BY <1>1, <1>2, <2>1, <2>2, <3>1 DEF CodexTypeOK, OnceInv, SectionsInv, complete, running, writing
  <2>3. CASE cpc \notin {"init", "remove"}
    <3>1. PICK n \in 0 .. Len(ctext) : toml' = SubSeq(ctext, 1, n) /\ ctorn'
      BY <1>5, <2>3 DEF Codex!Crash
    <3>2. toml' \in Seq(Codex!Line) /\ sound(toml', disturbed)
      BY <1>1, <3>1, SoundBeginning
    <3>. QED
      BY <1>1, <1>2, <2>1, <3>1, <3>2 DEF CodexTypeOK, OnceInv, SectionsInv
  <2>. QED  BY <2>2, <2>3
<1>. QED  BY <1>3, <1>4, <1>5

LEMMA InsertStep ==
    ASSUME CodexTypeOK, OnceInv, SectionsInv, Codex!InsertLine
    PROVE  CodexTypeOK' /\ OnceInv' /\ SectionsInv'
<1>1. PICK l \in {"section", "hook"} \cup (IF Notes THEN {"note"} ELSE {}),
           i \in 1 .. Len(toml) + 1 :
        /\ toml' = SubSeq(toml, 1, i - 1) \o <<l>> \o SubSeq(toml, i, Len(toml))
        /\ sections' = sections + (IF l = "section" THEN 1 ELSE 0)
        /\ disturbed' = disturbed + (IF i <= Len(toml) /\ toml[i] \in Own THEN 1 ELSE 0)
        /\ cpc = "idle" /\ UNCHANGED <<cpc, ctext, ctorn>>
  BY DEF Codex!InsertLine, Codex!InsertAt, Codex!edited, Codex!disturbs, Own
<1>2. /\ toml \in Seq(Codex!Line) /\ Len(toml) \in Nat /\ disturbed \in Nat /\ sound(toml, disturbed)
      /\ l \in Codex!Line /\ l \notin Own \cup {"marker"} /\ (~Notes => l # "note")
      /\ i \in Nat /\ 1 <= i /\ i <= Len(toml) + 1
  <2>1. toml \in Seq(Codex!Line) /\ Len(toml) \in Nat
    BY LenProperties DEF CodexTypeOK
  <2>2. l \in Codex!Line /\ l \notin Own \cup {"marker"} /\ (~Notes => l # "note")
    BY <1>1 DEF Codex!Line, Own
  <2>. QED  BY <2>1, <2>2 DEF CodexTypeOK, OnceInv
<1> DEFINE s == SubSeq(toml, 1, i - 1)
           t == SubSeq(toml, i, Len(toml))
           f == [j \in 1 .. Len(toml) + 1 |-> IF j < i THEN j ELSE j - 1]
<1>3. /\ s \in Seq(Codex!Line) /\ t \in Seq(Codex!Line) /\ <<l>> \in Seq(Codex!Line)
      /\ Len(s) = i - 1 /\ \A k \in 1 .. i - 1 : s[k] = toml[k]
      /\ Len(t) = Len(toml) + 1 - i /\ \A k \in 1 .. Len(toml) + 1 - i : t[k] = toml[i + k - 1]
  <2>1. /\ \A k \in 1 .. Len(toml) : toml[k] \in Codex!Line
        /\ 1 \in Int /\ i - 1 \in Int /\ i \in Int /\ Len(toml) \in Int
    BY <1>2, ElementOfSeq
  <2>2. (\A k \in 1 .. i - 1 : toml[k] \in Codex!Line) /\ (\A k \in i .. Len(toml) : toml[k] \in Codex!Line)
    BY <1>2, <2>1
  <2>3. /\ s \in Seq(Codex!Line) /\ Len(s) = (IF 1 <= i - 1 THEN (i - 1) - 1 + 1 ELSE 0)
        /\ \A k \in 1 .. (i - 1) - 1 + 1 : s[k] = toml[1 + k - 1]
    BY <2>1, <2>2, SubSeqProperties
  <2>4. /\ t \in Seq(Codex!Line) /\ Len(t) = (IF i <= Len(toml) THEN Len(toml) - i + 1 ELSE 0)
        /\ \A k \in 1 .. Len(toml) - i + 1 : t[k] = toml[i + k - 1]
    BY <2>1, <2>2, SubSeqProperties
  <2> HIDE DEF s, t
  <2>. QED  BY <1>2, <2>3, <2>4, LinesAre
<1>4. toml' = s \o <<l>> \o t
  BY <1>1
<1>5. \A x : tally(toml', x) = tally(toml, x) + (IF x = l THEN 1 ELSE 0)
  <2> TAKE x
  <2>1. tally(toml, x) = tally(s, x) + tally(t, x)
    <3>1. i - 1 \in i - 1 .. Len(toml) /\ (i - 1) + 1 = i /\ i \in 1 .. Len(toml) + 1
      BY <1>2
    <3>2. tally(toml, x) = tally(s, x) + tally(SubSeq(toml, i, i - 1), x) + tally(t, x)
      BY <1>2, <3>1, Cut
    <3>3. SubSeq(toml, i, i - 1) = <<>>
      BY <3>1, SubSeqEmpty
    <3>4. tally(SubSeq(toml, i, i - 1), x) = 0
      BY <3>3, FS_EmptySet DEF tally
    <3>5. tally(s, x) \in Nat /\ tally(t, x) \in Nat
      BY <1>3, TallyType
    <3> HIDE DEF s, t
    <3>. QED  BY <3>2, <3>4, <3>5
  <2> HIDE DEF s, t
  <2>2. s \o <<l>> \in Seq(Codex!Line)
    BY <1>3, ConcatProperties
  <2>3. tally(s \o <<l>> \o t, x) = tally(s \o <<l>>, x) + tally(t, x)
    BY <1>3, <2>2, TallyOfConcat
  <2>4. tally(s \o <<l>>, x) = tally(s, x) + tally(<<l>>, x)
    BY <1>3, TallyOfConcat
  <2>5. tally(<<l>>, x) = IF x = l THEN 1 ELSE 0
    BY TallyOfOne
  <2>6. tally(s, x) \in Nat /\ tally(t, x) \in Nat
    BY <1>3, TallyType
  <2>. QED  BY <1>4, <2>1, <2>3, <2>4, <2>5, <2>6
<1>6. /\ toml' \in Seq(Codex!Line) /\ Len(toml') = Len(toml) + 1
      /\ \A j \in 1 .. Len(toml) + 1 : toml'[j] = IF j = i THEN l ELSE toml[f[j]]
  <2>1. Len(<<l>>) = 1 /\ <<l>>[1] = l
    OBVIOUS
  <2> DEFINE u == s \o <<l>>
  <2>2. /\ u \in Seq(Codex!Line) /\ Len(u) = Len(s) + 1
        /\ \A j \in 1 .. Len(s) + 1 : u[j] = IF j <= Len(s) THEN s[j] ELSE <<l>>[j - Len(s)]
    BY <1>3, <2>1, ConcatProperties
  <2>3. toml' = u \o t
    BY <1>4
  <2> HIDE DEF u, s, t
  <2>4. /\ toml' \in Seq(Codex!Line) /\ Len(toml') = Len(u) + Len(t)
        /\ \A j \in 1 .. Len(u) + Len(t) : toml'[j] = IF j <= Len(u) THEN u[j] ELSE t[j - Len(u)]
    BY <1>3, <2>2, <2>3, ConcatProperties
  <2>5. Len(u) = i /\ Len(toml') = Len(toml) + 1 /\ Len(u) + Len(t) = Len(toml) + 1
    BY <1>2, <1>3, <2>2, <2>4
  <2>6. ASSUME NEW j \in 1 .. Len(toml) + 1 PROVE toml'[j] = IF j = i THEN l ELSE toml[f[j]]
    <3>1. CASE j < i
      <4>1. j \in 1 .. i - 1 /\ j \in 1 .. Len(s) + 1 /\ j <= Len(s) /\ j <= Len(u) /\ f[j] = j
        BY <1>2, <1>3, <2>5, <3>1
      <4>2. toml'[j] = u[j]
        BY <2>4, <2>5, <4>1
      <4>3. u[j] = s[j] /\ s[j] = toml[j]
        BY <1>3, <2>2, <4>1
      <4>. QED  BY <3>1, <4>1, <4>2, <4>3
    <3>2. CASE j = i
      BY <1>2, <1>3, <2>1, <2>2, <2>4, <2>5, <3>2
    <3>3. CASE j > i
      <4>1. j - i \in 1 .. Len(toml) + 1 - i /\ i + (j - i) - 1 = j - 1 /\ ~(j <= Len(u)) /\ f[j] = j - 1
        BY <1>2, <2>5, <3>3
      <4>. QED  BY <1>3, <2>4, <2>5, <3>3, <4>1
    <3>. QED  BY <1>2, <3>1, <3>2, <3>3
  <2>. QED  BY <2>4, <2>5, <2>6
<1> HIDE DEF s, t
<1>7. \A j \in 1 .. Len(toml) + 1 :
        f[j] = (IF j < i THEN j ELSE j - 1) /\ (j # i => f[j] \in 1 .. Len(toml))
  BY <1>2
<1>8. thins(f, toml, toml')
  <2>1. \A j \in 1 .. Len(toml') : toml'[j] \in Own \cup {"marker"} => j # i
    BY <1>2, <1>6
  <2>2. \A j, k \in 1 .. Len(toml') : j < k /\ j # i /\ k # i => f[j] < f[k]
    BY <1>2, <1>6, <1>7
  <2> HIDE DEF f
  <2>. QED  BY <1>6, <1>7, <2>1, <2>2 DEF thins
<1>9. ASSUME ~(i <= Len(toml) /\ toml[i] \in Own) PROVE keeps(f, toml, toml')
  <2> HIDE DEF f
  <2>1. ASSUME NEW j \in 1 .. Len(toml'), toml'[j] \in Own, joined(toml, f[j]) PROVE joined(toml', j)
    <3>1. j # i /\ j \in Nat /\ j >= 1 /\ j <= Len(toml) + 1 /\ f[j] \in 1 .. Len(toml)
          /\ f[j] = IF j < i THEN j ELSE j - 1
      BY <1>2, <1>6, <1>7, <2>1
    <3>2. PICK m \in 1 .. f[j] - 1 : toml[m] = "marker" /\ \A k \in m + 1 .. f[j] : toml[k] \in Own
      BY <2>1 DEF joined
    <3>3. m \in Nat /\ 1 <= m /\ m < f[j]
      BY <1>2, <3>1, <3>2
    <3>4. ~(i \in m + 1 .. f[j])
      BY <1>2, <1>9, <3>1, <3>2, <3>3
    <3>5. CASE m >= i
      <4>1. m + 1 \in 1 .. Len(toml) + 1 /\ m + 1 # i /\ f[m + 1] = m /\ m + 1 \in 1 .. j - 1
        <5>1. m + 1 \in 1 .. Len(toml) + 1 /\ ~(m + 1 < i)
          BY <1>2, <3>1, <3>3, <3>5
        <5>2. f[m + 1] = IF m + 1 < i THEN m + 1 ELSE m + 1 - 1
          BY <1>7, <5>1
        <5>3. m + 1 # i /\ m + 1 - 1 = m
          BY <1>2, <3>3, <3>5
        <5>4. m + 1 \in 1 .. j - 1
          BY <1>2, <3>1, <3>3, <3>5
        <5>. QED  BY <5>1, <5>2, <5>3, <5>4
      <4>2. toml'[m + 1] = "marker"
        BY <1>6, <3>2, <4>1
      <4>3. ASSUME NEW k \in (m + 1) + 1 .. j PROVE toml'[k] \in Own
        <5>1. k \in 1 .. Len(toml) + 1 /\ k # i /\ ~(k < i) /\ k - 1 \in m + 1 .. f[j]
          BY <1>2, <3>1, <3>3, <3>5
        <5>2. f[k] = k - 1
          BY <1>7, <5>1
        <5>. QED  BY <1>6, <3>2, <5>1, <5>2
      <4>. QED  BY <4>1, <4>2, <4>3 DEF joined
    <3>6. CASE m < i
      <4>1. f[j] < i /\ j < i /\ f[j] = j
        BY <1>2, <3>1, <3>3, <3>4, <3>6
      <4>2. \A k \in 1 .. j : k \in 1 .. Len(toml) + 1 /\ k < i /\ k # i
        BY <1>2, <3>1, <4>1
      <4>3. \A k \in 1 .. j : toml'[k] = toml[k]
        BY <1>6, <1>7, <4>2
      <4>4. m \in 1 .. j - 1 /\ m \in 1 .. j /\ \A k \in m + 1 .. j : k \in 1 .. j /\ k \in m + 1 .. f[j]
        BY <3>1, <3>3, <4>1
      <4>. QED  BY <3>2, <4>3, <4>4 DEF joined
    <3>. QED  BY <1>2, <3>3, <3>5, <3>6
  <2>. QED  BY <2>1 DEF keeps
<1> HIDE DEF f
<1>10. sound(toml', disturbed') /\ disturbed' \in Nat /\ disturbed <= disturbed'
  <2>1. CASE i <= Len(toml) /\ toml[i] \in Own
    <3>1. disturbed' = disturbed + 1
      BY <1>1, <2>1
    <3>. QED  BY <1>2, <1>6, <1>8, <3>1, Thin
  <2>2. CASE ~(i <= Len(toml) /\ toml[i] \in Own)
    <3>1. disturbed' = disturbed
      BY <1>1, <1>2, <2>2
    <3>. QED  BY <1>2, <1>6, <1>8, <1>9, <2>2, <3>1, Thin
  <2>. QED  BY <2>1, <2>2
<1>11. OnceInv'
  <2>1. ctext \in Seq(Codex!Line) /\ sound(ctext, disturbed)
    BY DEF CodexTypeOK, OnceInv
  <2>2. sound(ctext, disturbed')
    BY <1>2, <1>10, <2>1, SoundMore
  <2>. QED  BY <1>1, <1>10, <2>2 DEF OnceInv
<1>12. \A x : tally(toml, x) \in Nat
  BY <1>2, TallyType
<1>13. SectionsInv'
  <2>1. ~Notes /\ ~ctorn => complete(toml)
    BY <1>1 DEF SectionsInv, writing
  <2>2. ~Notes /\ ~ctorn => tally(toml', "note") = 0 /\ tally(toml', "section") = sections'
    BY <1>1, <1>2, <1>5, <1>12, <2>1 DEF complete
  <2>. QED  BY <1>1, <2>2 DEF SectionsInv, complete, running
<1>14. sections' \in Int
  BY <1>1 DEF CodexTypeOK
<1>. QED  BY <1>1, <1>6, <1>10, <1>11, <1>13, <1>14 DEF CodexTypeOK

LEMMA DeleteStep ==
    ASSUME CodexTypeOK, OnceInv, SectionsInv, Codex!DeleteLine
    PROVE  CodexTypeOK' /\ OnceInv' /\ SectionsInv'
<1>1. PICK i \in DOMAIN toml :
        /\ toml' = SubSeq(toml, 1, i - 1) \o SubSeq(toml, i + 1, Len(toml))
        /\ sections' = sections + (IF toml[i] = "section" THEN -1 ELSE 0)
        /\ disturbed' = disturbed + (IF toml[i] = "marker" THEN 1 ELSE 0)
        /\ cpc = "idle" /\ UNCHANGED <<cpc, ctext, ctorn>>
  BY DEF Codex!DeleteLine, Codex!RemoveAt, Codex!edited, Codex!disturbs
<1>2. /\ toml \in Seq(Codex!Line) /\ Len(toml) \in Nat /\ i \in 1 .. Len(toml)
      /\ disturbed \in Nat /\ sound(toml, disturbed)
  BY <1>1, LenProperties DEF CodexTypeOK, OnceInv
<1>3. i \in 1 .. Len(toml) + 1 /\ i + 1 \in i .. Len(toml) + 1
  BY <1>2
<1> DEFINE s == SubSeq(toml, 1, i - 1)
           t == SubSeq(toml, i + 1, Len(toml))
<1>4. s \in Seq(Codex!Line) /\ t \in Seq(Codex!Line) /\ toml' \in Seq(Codex!Line)
  BY <1>1, <1>2, <1>3, Around
<1>5. sound(toml', disturbed') /\ disturbed' \in Nat /\ disturbed <= disturbed'
  <2>1. CASE toml[i] = "marker"
    <3>1. disturbed' = disturbed + 1
      BY <1>1, <2>1
    <3>2. sound(toml', disturbed + 1)
      BY <1>1, <1>2, <1>3, <1>4, SoundAround
    <3>. QED  BY <1>2, <3>1, <3>2
  <2>2. CASE toml[i] # "marker"
    <3>1. disturbed' = disturbed
      BY <1>1, <1>2, <2>2
    <3>2. sound(toml', disturbed)
      BY <1>1, <1>2, <1>3, <1>4, <2>2, SoundAround
    <3>. QED  BY <1>2, <3>1, <3>2
  <2>. QED  BY <2>1, <2>2
<1>6. OnceInv'
  <2>1. ctext \in Seq(Codex!Line) /\ sound(ctext, disturbed)
    BY DEF CodexTypeOK, OnceInv
  <2>2. sound(ctext, disturbed')
    BY <1>2, <1>5, <2>1, SoundMore
  <2>. QED  BY <1>1, <1>5, <2>2 DEF OnceInv
<1>8. \A x : tally(toml, x) = tally(s \o t, x) + (IF x = toml[i] THEN 1 ELSE 0)
  <2> TAKE x
  <2>1. i \in i - 1 .. Len(toml) /\ i \in 1 .. Len(toml) + 1
    BY <1>2
  <2>2. tally(toml, x) = tally(s, x) + tally(SubSeq(toml, i, i), x) + tally(t, x)
    BY <1>2, <2>1, Cut
  <2>3. SubSeq(toml, i, i) = <<toml[i]>>
    <3>1. SubSeq(toml, i, i) = <<toml[i]>> \o SubSeq(toml, i + 1, i)
      <4>1. i \in 1 .. i
        BY <1>2
      <4>. QED  BY <1>2, <4>1, SubSeqRecursiveFirst
    <3>2. SubSeq(toml, i + 1, i) = <<>>
      BY <1>2, SubSeqEmpty
    <3>3. <<toml[i]>> \in Seq(Codex!Line)
      BY <1>2, LinesAre, ElementOfSeq
    <3>. QED  BY <3>1, <3>2, <3>3, ConcatEmptySeq
  <2>4. tally(<<toml[i]>>, x) = IF toml[i] = x THEN 1 ELSE 0
    BY TallyOfOne
  <2>5. tally(s, x) \in Nat /\ tally(t, x) \in Nat
    BY <1>4, TallyType
  <2>6. tally(s \o t, x) = tally(s, x) + tally(t, x)
    BY <1>4, TallyOfConcat
  <2> HIDE DEF s, t
  <2>. QED  BY <2>2, <2>3, <2>4, <2>5, <2>6
<1>9. toml' = s \o t
  BY <1>1
<1> HIDE DEF s, t
<1>10. \A x : tally(toml, x) = tally(toml', x) + (IF x = toml[i] THEN 1 ELSE 0) /\ tally(toml', x) \in Nat
  BY <1>4, <1>8, <1>9, TallyType
<1>12. SectionsInv'
  <2>1. ~Notes /\ ~ctorn => complete(toml)
    BY <1>1 DEF SectionsInv, writing
  <2>2. /\ tally(toml, "note") = tally(toml', "note") + (IF "note" = toml[i] THEN 1 ELSE 0)
        /\ tally(toml, "section") = tally(toml', "section") + (IF "section" = toml[i] THEN 1 ELSE 0)
        /\ tally(toml', "note") \in Nat /\ tally(toml', "section") \in Nat
    BY <1>10
  <2>3. ~Notes /\ ~ctorn => tally(toml', "note") = 0 /\ tally(toml', "section") = sections'
    BY <1>1, <2>1, <2>2 DEF complete
  <2>. QED  BY <1>1, <2>3 DEF SectionsInv, complete, running
<1>13. sections' \in Int
  BY <1>1 DEF CodexTypeOK
<1>. QED  BY <1>1, <1>4, <1>5, <1>6, <1>12, <1>13 DEF CodexTypeOK

\* CodexConfig, the inductive invariant: in config.toml, and in what a command is about to
\* write, each hook of aitrack stands once behind a marker, and loose as often as the user
\* parted one from its marker; without notes, no section is lost but by a killed writer.
THEOREM CodexInvariant == Codex!Spec => [](CodexTypeOK /\ OnceInv /\ SectionsInv)
<1>1. Codex!Init => CodexTypeOK /\ OnceInv /\ SectionsInv
  BY CodexInit
<1>2. CodexTypeOK /\ OnceInv /\ SectionsInv /\ [Codex!Next]_(Codex!vars)
      => CodexTypeOK' /\ OnceInv' /\ SectionsInv'
  <2> SUFFICES ASSUME CodexTypeOK, OnceInv, SectionsInv, [Codex!Next]_(Codex!vars)
               PROVE  CodexTypeOK' /\ OnceInv' /\ SectionsInv'
    OBVIOUS
  <2>1. CASE UNCHANGED Codex!vars
    BY <2>1 DEF Codex!vars, Codex!user_vars, CodexTypeOK, OnceInv, SectionsInv, complete, running, writing
  <2>. QED  BY <2>1, InstallStep, RemoveStep, FileSteps, InsertStep, DeleteStep DEF Codex!Next
<1>. QED  BY <1>1, <1>2, PTL DEF Codex!Spec

LEMMA CountIs == \A l : Codex!count(l) = tally(toml, l)
  BY DEF Codex!count, tally, Cardinality, Codex!Cardinality

\* CodexConfig: however install, remove, kills and the edits of users follow each other,
\* config.toml has each hook of aitrack at most once, and once more for every edit that parted
\* one from its marker; also beside notes that look like a marker.
THEOREM CodexHookedOnce == Codex!Spec => []Codex!HookedOnce
<1>1. CodexTypeOK /\ OnceInv => Codex!HookedOnce
  <2> SUFFICES ASSUME CodexTypeOK, OnceInv PROVE Codex!HookedOnce
    OBVIOUS
  <2>1. \A l \in Own : tally(toml, l) <= disturbed + 1
    BY SoundTally DEF CodexTypeOK, OnceInv
  <2>2. tally(toml, "edit") <= disturbed + 1 /\ tally(toml, "prompt") <= disturbed + 1
    BY <2>1 DEF Own
  <2>. QED  BY <2>2, CountIs DEF Codex!HookedOnce, CodexTypeOK
<1>. QED  BY <1>1, CodexInvariant, PTL

\* CodexConfig: as long as no comment of the user's starts with the marker, and no command is
\* killed while it writes, install and remove lose no section of config.toml that is not a hook.
THEOREM CodexSectionsStay ==
    ASSUME ~Notes
    PROVE  Codex!Spec => []Codex!SectionsStay
<1>1. SectionsInv => Codex!SectionsStay
  BY CountIs DEF SectionsInv, Codex!SectionsStay, complete, writing
<1>. QED  BY <1>1, CodexInvariant, PTL

=============================================================================
