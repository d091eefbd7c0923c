---------------------------- MODULE UsageDelivery ----------------------------
(***************************************************************************)
(* What the upload of usage rollups promises, without outbox, processes or *)
(* retries: the server only ever holds totals the device had, and the      *)
(* device takes a total for delivered only after the server accepted it.   *)
(***************************************************************************)
CONSTANTS Rollup, Value, None

VARIABLES
    local,       \* the device's total of each rollup, None without a row
    clean,       \* the rollups whose total is not marked dirty
    server,      \* the server's total
    known        \* history: the totals the server ever accepted

vars == <<local, clean, server, known>>

Total == Value \cup {None}

TypeOK ==
    /\ local \in [Rollup -> Total]
    /\ clean \subseteq Rollup
    /\ server \in [Rollup -> Total]
    /\ known \in [Rollup -> SUBSET Value]

Init ==
    /\ local = [r \in Rollup |-> None]
    /\ clean = {}
    /\ server = [r \in Rollup |-> None]
    /\ known = [r \in Rollup |-> {}]

Recount(r, v) ==
    /\ local' = [local EXCEPT ![r] = v]
    /\ clean' = clean \ {r}
    /\ UNCHANGED <<server, known>>

\* One request, with the totals of the rollups rs as the device once had them.
Accept(rs, total) ==
    /\ server' = [r \in Rollup |-> IF r \in rs THEN total[r] ELSE server[r]]
    /\ known' = [r \in Rollup |-> IF r \in rs THEN known[r] \cup {total[r]} ELSE known[r]]
    /\ UNCHANGED <<local, clean>>

Acknowledge(rs) ==
    /\ \A r \in rs : local[r] \in known[r]
    /\ clean' = clean \cup rs
    /\ UNCHANGED <<local, server, known>>

Next ==
    \/ \E r \in Rollup, v \in Total : Recount(r, v)
    \/ \E rs \in SUBSET Rollup, total \in [Rollup -> Value] : Accept(rs, total)
    \/ \E rs \in SUBSET Rollup : Acknowledge(rs)

Spec == Init /\ [][Next]_vars

\* A total counts as delivered only once the server accepted it.
CleanIsKnown == \A r \in clean : local[r] \in known[r]
=============================================================================
