---------------------------- MODULE MCUsageRollups ----------------------------
(* Small instances of UsageRollups for TLC. *)
EXTENDS UsageRollups, TLC

CONSTANTS f1, f2, f3, f4, p1, p2

uses(a, b, c) == [use |-> [d \in Day |-> IF d = 1 THEN a ELSE IF d = 2 THEN b ELSE c],
                  big |-> FALSE, bad |-> FALSE]

Nothing == uses(0, 0, 0)
Empty   == [f \in File |-> Nothing]
Growing == {uses(1, 0, 0), uses(1, 1, 0), uses(0, 1, 1), [uses(1, 1, 0) EXCEPT !.big = TRUE]}
TwoDays == {uses(1, 1, 0), uses(0, 2, 0)}
Spread  == [f \in File |-> uses(1, 1, 0)]

\* The walk of the folders meets f1 first.
Walk == (f1 :> 1) @@ (f2 :> 2) @@ (f3 :> 3) @@ (f4 :> 5)

NoWindows == {}
FirstDay  == {[from |-> 1, to |-> 1]}

ProcSymmetry == Permutations({p1, p2})
=============================================================================
