---------------------------- MODULE MCUsageOutbox ----------------------------
(* Small instances of UsageOutbox for TLC. *)
EXTENDS UsageOutbox, TLC

CONSTANTS none, v1, v2, s1, p1, p2

OneRollup  == {1}
TwoRollups == {1, 2}

ProcSymmetry == Permutations({p1, p2})
=============================================================================
