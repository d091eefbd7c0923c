----------------------------- MODULE EditDelivery -----------------------------
(***************************************************************************)
(* What the edit pipeline promises, without processes, requests, retries   *)
(* or faults: a captured record reaches the server at most once, unaltered *)
(* and under its own signature, and the client lets go of a record only    *)
(* when the server has it.                                                 *)
(***************************************************************************)
CONSTANT Record          \* signed records

VARIABLES
    captured,            \* records the client has signed
    stored,              \* records the server has
    settled              \* records the client takes for delivered

delivery_vars == <<captured, stored, settled>>

DeliveryInit == captured = {} /\ stored = {} /\ settled = {}

CaptureRecord(r) ==
    /\ r \in Record
    /\ captured' = captured \cup {r}
    /\ UNCHANGED <<stored, settled>>

\* The server stores one captured record it did not have.
StoreRecord(r) ==
    /\ r \in captured \ stored
    /\ stored' = stored \cup {r}
    /\ UNCHANGED <<captured, settled>>

\* The client takes stored records for delivered.
Settle(R) ==
    /\ R \subseteq stored
    /\ settled' = settled \cup R
    /\ UNCHANGED <<captured, stored>>

\* The client's table forgets delivered records (prune, clean).
Forget(R) ==
    /\ R \subseteq settled
    /\ settled' = settled \ R
    /\ UNCHANGED <<captured, stored>>

DeliveryNext ==
    \/ \E r \in Record : CaptureRecord(r)
    \/ \E r \in captured : StoreRecord(r)
    \/ \E R \in SUBSET stored : Settle(R)
    \/ \E R \in SUBSET settled : Forget(R)

DeliverySpec == DeliveryInit /\ [][DeliveryNext]_delivery_vars
=============================================================================
