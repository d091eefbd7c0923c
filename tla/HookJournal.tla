------------------------------ MODULE HookJournal ------------------------------
(***************************************************************************)
(* The journal of hook events, hook-events.jsonl (client/src/lib.rs).      *)
(* Every hook process appends the event it was given, then reads the file  *)
(* and, when it has too many bytes or lines, truncates it and writes its   *)
(* newest lines back.  Nothing locks the file, and lines have all lengths: *)
(* what is written back over a longer file leaves the end of a line.       *)
(***************************************************************************)
EXTENDS Integers, Sequences, FiniteSets

CONSTANTS
    Proc,
    Size,                    \* how many bytes an event can have, its newline included
    Limit,                   \* HOOK_EVENTS_MAX_LINES
    MaxBytes,                \* HOOK_EVENTS_MAX_FILE_BYTES
    MaxEvents, MaxCrashes    \* bounds of the model

VARIABLES
    file,            \* its bytes: whose event each is, and how many are left of its line
    pc,              \* "idle", "prune", "truncate", "write"
    kept,            \* each process: the bytes it will write back
    events, crashes

vars == <<file, pc, kept, events, crashes>>

Init ==
    /\ file = <<>>
    /\ pc = [p \in Proc |-> "idle"]
    /\ kept = [p \in Proc |-> <<>>]
    /\ events = 0 /\ crashes = 0

goto(p, place) == pc' = [pc EXCEPT ![p] = place]

line(e, n) == [i \in 1 .. n |-> [event |-> e, left |-> n - i]]

\* append_private_file: O_APPEND.  An event too long for any file is not recorded.
AppendEvent(p) ==
    /\ pc[p] = "idle" /\ events < MaxEvents
    /\ events' = events + 1
    /\ \E n \in Size : n <= MaxBytes /\ file' = file \o line(events', n)
    /\ goto(p, "prune")
    /\ UNCHANGED <<kept, crashes>>

-----------------------------------------------------------------------------
(* prune_hook_event_file.  A line is named by the place of its newline.    *)

bytes_of(f, ends) == {i \in DOMAIN f : i + f[i].left \in ends}

\* All but blank lines: an end can be a newline alone.
lines(f) == {e \in 2 .. Len(f) : f[e].left = 0 /\ f[e - 1].left # 0}

\* Mutated form: the bytes are not looked at.
too_many_lines(f) == Cardinality(lines(f)) > Limit

too_long(f) == Len(f) > MaxBytes \/ Cardinality(lines(f)) > Limit

\* From the newest line back, without those too long for any file.
newest(f) ==
    LET fitting == {e \in lines(f) : Cardinality(bytes_of(f, {e})) <= MaxBytes}
        since(e) == {d \in fitting : d >= e}
    IN  {e \in fitting : /\ Cardinality(since(e)) <= Limit
                         /\ Cardinality(bytes_of(f, since(e))) <= MaxBytes}

\* The bytes at these places, in their order.
picked(f, places) ==
    [k \in 1 .. Cardinality(places) |->
        f[CHOOSE i \in places : Cardinality({j \in places : j <= i}) = k]]

ReadJournal(p) ==
    /\ pc[p] = "prune"
    /\ IF too_long(file)
       THEN kept' = [kept EXCEPT ![p] = picked(file, bytes_of(file, newest(file)))]
            /\ goto(p, "truncate")
       ELSE UNCHANGED kept /\ goto(p, "idle")
    /\ UNCHANGED <<file, events, crashes>>

\* write_private_file: the file is opened and truncated,
Truncate(p) ==
    /\ pc[p] = "truncate"
    /\ file' = <<>>
    /\ goto(p, "write")
    /\ UNCHANGED <<kept, events, crashes>>

\* and written from its beginning on, over whatever is there since.
written(bytes, over) == bytes \o SubSeq(over, Len(bytes) + 1, Len(over))

WriteBack(p) ==
    /\ pc[p] = "write"
    /\ file' = written(kept[p], file)
    /\ kept' = [kept EXCEPT ![p] = <<>>]
    /\ goto(p, "idle")
    /\ UNCHANGED <<events, crashes>>

Crash(p) ==
    /\ pc[p] # "idle" /\ crashes < MaxCrashes
    /\ crashes' = crashes + 1
    /\ kept' = [kept EXCEPT ![p] = <<>>]
    /\ goto(p, "idle")
    /\ UNCHANGED <<file, events>>

Next == \E p \in Proc :
    AppendEvent(p) \/ ReadJournal(p) \/ Truncate(p) \/ WriteBack(p) \/ Crash(p)

Spec == Init /\ [][Next]_vars

-----------------------------------------------------------------------------
resting == \A p \in Proc : pc[p] = "idle"

(* Whatever the processes' reads, truncations and writes do to each other, *)
(* no line is made of two events' bytes: each is an event as it came or    *)
(* the end of one, and the next event begins a line of its own.            *)
LinesAreApart ==
    \A i \in DOMAIN file : file[i].left # 0 =>
        /\ i < Len(file)
        /\ file[i + 1] = [event |-> file[i].event, left |-> file[i].left - 1]

(* The journal is bounded: at rest it exceeds its limit of bytes by at     *)
(* most that limit for each process that was killed.  A process            *)
(* that finds it too long truncates it, however many others appended       *)
(* meanwhile, and what is left of longer files does not add up.            *)
JournalIsBounded == resting => Len(file) <= MaxBytes * (1 + crashes)

(* Both: no two events in a line, and no journal that keeps growing.       *)
JournalIsSound == LinesAreApart /\ JournalIsBounded

(* What does not hold (lib.rs:1275, prune_hook_event_file_keeps_recent_    *)
(* lines_and_bounds_size): two processes that prune at once can leave more *)
(* lines than the limit,                                                   *)
LinesAreBounded == resting => Cardinality(lines(file)) <= Limit + crashes

(* the end of an event, or an event twice,                                 *)
EventsAreWhole == \A e \in lines(file) : Cardinality(bytes_of(file, {e})) \in Size
NoneTwice == \A i, j \in DOMAIN file : file[i] = file[j] => i = j

(* and nothing of an event that was appended after the other had read.     *)
RecentStay == resting /\ events > 0 => \E i \in DOMAIN file : file[i].event = events
=============================================================================
