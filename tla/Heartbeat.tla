------------------------------- MODULE Heartbeat -------------------------------
(***************************************************************************)
(* Heartbeats: what the hooks of a device look like, sent at the end of a  *)
(* capture but at most hourly (client/src/heartbeat.rs), and the device's  *)
(* row on the Go server.  Captures run concurrently and share the time of  *)
(* the last heartbeat through the client's database; requests and answers  *)
(* get lost and overtake each other; the wall clock may be set back.       *)
(***************************************************************************)
EXTENDS Integers, FiniteSets

CONSTANTS
    Proc,
    Tool,                    \* the tools with a native hook
    Interval,                \* HEARTBEAT_INTERVAL_SECS, in ticks
    MaxChanges, MaxBacks     \* bounds of the model

VARIABLES
    hooks,       \* the tools whose hook is installed
    age,         \* now - last_heartbeat_ts by the device's clock, "never" as Interval
    quiet,       \* history: ticks since a request was last sent, up to Interval
    recorded,    \* history: ticks since the server last stored one, up to Interval
    pc,          \* "idle", "send" or "forced", "wait", "ok", "failed"
    seen,        \* the hooks each process put into its payload
    since,       \* ticks since it read the clock, up to Interval
    row,         \* hooks_json of the device on the server
    changes, backs

wall == <<age, quiet, recorded, since>>
vars == <<hooks, wall, pc, seen, row, changes, backs>>

\* Mutated form: without the model's bound.
uncapped(n) == n

capped(n) == IF n > Interval THEN Interval ELSE n

Init ==
    /\ hooks = Tool
    /\ age = Interval /\ quiet = Interval /\ recorded = Interval
    /\ pc = [p \in Proc |-> "idle"]
    /\ seen = [p \in Proc |-> {}]
    /\ since = [p \in Proc |-> 0]
    /\ row \in SUBSET Tool
    /\ changes = 0 /\ backs = 0

goto(p, place) == pc' = [pc EXCEPT ![p] = place]

\* send_heartbeat: `now - last < HEARTBEAT_INTERVAL_SECS` returns.
due == age >= Interval

\* A hook fires and its edit is recorded; or the user runs `aitrack heartbeat`.
Capture(p) ==
    /\ pc[p] = "idle" /\ hooks # {}
    /\ goto(p, IF due THEN "send" ELSE "idle")
    /\ since' = [since EXCEPT ![p] = 0]
    /\ UNCHANGED <<hooks, age, quiet, recorded, seen, row, changes, backs>>

Forced(p) ==
    /\ pc[p] = "idle"
    /\ goto(p, "forced")
    /\ since' = [since EXCEPT ![p] = 0]
    /\ UNCHANGED <<hooks, age, quiet, recorded, seen, row, changes, backs>>

\* detect_tool_statuses, and the request goes out.
Send(p) ==
    /\ pc[p] \in {"send", "forced"}
    /\ seen' = [seen EXCEPT ![p] = hooks]
    /\ quiet' = 0
    /\ goto(p, "wait")
    /\ UNCHANGED <<hooks, age, recorded, since, row, changes, backs>>

\* Mutated form: the hooks of the payload are added to those of the row.
merged(old, new) == old \cup new

\* DO UPDATE SET hooks_json = excluded.hooks_json: whatever the row held.
upserted(old, new) == new

\* RecordHeartbeat and Upsert; the answer may be lost.
Record(p) ==
    /\ pc[p] = "wait"
    /\ row' = upserted(row, seen[p])
    /\ recorded' = 0
    /\ \E answer \in {"ok", "failed"} : goto(p, answer)
    /\ UNCHANGED <<hooks, age, quiet, since, seen, changes, backs>>

\* Refused, or never arrived.
Lost(p) ==
    /\ pc[p] = "wait"
    /\ goto(p, "failed")
    /\ UNCHANGED <<hooks, wall, seen, row, changes, backs>>

\* Mutated form: the time is kept whatever the answer.
keeps_time_always(p) == TRUE

keeps_time(p) == pc[p] = "ok"

\* Mutated form: the time is read again when the answer is there.
since_answer(p) == 0

since_read(p) == since[p]

\* set_last_heartbeat(now): the time read before the request.
End(p) ==
    /\ pc[p] \in {"ok", "failed"}
    /\ age' = IF keeps_time(p) THEN since_read(p) ELSE age
    /\ goto(p, "idle")
    /\ seen' = [seen EXCEPT ![p] = {}]
    /\ UNCHANGED <<hooks, quiet, recorded, since, row, changes, backs>>

Tick ==
    /\ age' = capped(age + 1) /\ quiet' = capped(quiet + 1) /\ recorded' = capped(recorded + 1)
    /\ since' = [p \in Proc |-> IF pc[p] = "idle" THEN 0 ELSE capped(since[p] + 1)]
    /\ wall' # wall
    /\ UNCHANGED <<hooks, pc, seen, row, changes, backs>>

\* The device's clock is set back, soon after a heartbeat, by up to Interval ticks.
SetBack ==
    /\ age < Interval
    /\ backs < MaxBacks /\ backs' = backs + 1
    /\ \E n \in 1 .. Interval :
        /\ age' = age - n
        /\ since' = [p \in Proc |-> IF pc[p] = "idle" THEN 0 ELSE since[p] - n]
    /\ UNCHANGED <<hooks, quiet, recorded, pc, seen, row, changes>>

\* A hook is removed, or installed again.
ChangeHooks ==
    /\ changes < MaxChanges /\ changes' = changes + 1
    /\ \E t \in Tool : hooks' = IF t \in hooks THEN hooks \ {t} ELSE hooks \cup {t}
    /\ UNCHANGED <<wall, pc, seen, row, backs>>

Next ==
    \/ \E p \in Proc :
        Capture(p) \/ Forced(p) \/ Send(p) \/ Record(p) \/ Lost(p) \/ End(p)
    \/ Tick \/ SetBack \/ ChangeHooks

Spec == Init /\ [][Next]_vars

\* Edits go on being captured while a hook is installed, time passes, a request is
\* answered or not, and one that is made again and again is answered in the end.
FairSpec ==
    /\ Spec
    /\ WF_vars(Tick)
    /\ \A p \in Proc :
        /\ WF_vars(Capture(p)) /\ WF_vars(Send(p)) /\ WF_vars(End(p))
        /\ WF_vars(Record(p) \/ Lost(p))
        /\ SF_vars(Record(p) /\ pc'[p] = "ok")

-----------------------------------------------------------------------------
(* Type correctness.                                                       *)
TypeOK ==
    /\ hooks \in SUBSET Tool /\ row \in SUBSET Tool
    /\ age \in -(Interval * MaxBacks) .. Interval
    /\ {quiet, recorded} \subseteq 0 .. Interval
    /\ pc \in [Proc -> {"idle", "send", "forced", "wait", "ok", "failed"}]
    /\ seen \in [Proc -> SUBSET Tool]
    /\ since \in [Proc -> -(Interval * MaxBacks) .. Interval]

(* A heartbeat that failed does not count: captures are throttled only     *)
(* while the server's row is from the last interval, whatever order the    *)
(* processes' requests and answers came in.                                *)
ThrottledOnSuccess == age < Interval => recorded <= age

(* An interval after the last request, the next capture sends one          *)
(* (docs/SECURITY_MODEL.md:165, "if the last heartbeat is more than an     *)
(* hour ago").  It fails when the clock is set back: the time kept is then *)
(* in the future and no heartbeat goes out until the clock is there again. *)
DueAfterInterval == quiet >= Interval => due

\* Both: the throttle follows the heartbeats that succeeded.
ThrottleFollowsSuccess == ThrottledOnSuccess /\ DueAfterInterval

(* Captures send at most one heartbeat per interval (CHANGELOG.md:337).    *)
(* Two that end together both read the old time, and both send.            *)
AtMostOnePerInterval ==
    [][\A p \in Proc : pc[p] = "send" /\ pc'[p] = "wait" => quiet >= Interval]_vars

(* While some hook is left, the server's row comes to show the hooks the   *)
(* device has, even if older payloads overtook newer ones in between.      *)
RowFollowsHooks ==
    \A T \in SUBSET Tool : T # {} /\ <>[](hooks = T) => <>[](row = T)

(* The server notices that a hook was removed (docs/SECURITY_MODEL.md:17,  *)
(* "within an hour").  Not when it was the last one: heartbeats are sent   *)
(* at the end of captures, and there are none any more.                    *)
RemovalIsNoticed == <>[](hooks = {}) => <>[](row = {})
=============================================================================
