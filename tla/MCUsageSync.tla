----------------------------- MODULE MCUsageSync -----------------------------
(***************************************************************************)
(* Instances of the usage outbox, one per scene:                           *)
(*   "caps"       one process at a time, two rollups: payloads are retried,*)
(*                expire, are cut by the caps or lost with their process   *)
(*   "race"       two processes and one rollup                             *)
(*   "snapshots"  one process at a time and a subscription snapshot; too   *)
(*                little is put into the outbox for the caps               *)
(***************************************************************************)
EXTENDS MCUsageOutbox

VARIABLE scene

InitScene == scene \in {"caps", "race", "snapshots"} /\ Init

working == {p \in Proc : pc[p] # "idle"}
used == {r \in Row : row[r].val # None}

NextScene ==
    /\ UNCHANGED scene
    /\ \/ /\ scene = "caps" /\ Next
          /\ Cardinality(working') <= 1 /\ used' \cap Sub = {} /\ fails' <= 2
       \/ /\ scene = "race" /\ Next
          /\ used' \subseteq OneRollup /\ fails' <= 1 /\ crashes' = 0
       \/ /\ scene = "snapshots" /\ Next
          /\ Cardinality(working') <= 1 /\ used' \subseteq Sub /\ changes' <= 2 /\ now' = 0

SyncSpec == InitScene /\ [][NextScene]_<<scene, vars>>
=============================================================================
