--------------------------- MODULE MCCaptureProcess ---------------------------
(* Small instances of CaptureProcess for TLC. *)
EXTENDS CaptureProcess, TLC

CONSTANTS noval, marker, k1, p1, p2

Edit(d) == [tool |-> "claude", path |-> "a.rs", diff |-> d, meta |-> noval]

OneEvent  == {Edit("d1")}
TwoEvents == {Edit("d1"), [Edit("d2") EXCEPT !.meta = "m"]}

InRepo  == [url |-> "r1", branch |-> "main", sha |-> "s1"]
Outside == [url |-> noval, branch |-> noval, sha |-> noval]
Contexts == {InRepo, Outside}
MoreContexts == {InRepo, [InRepo EXCEPT !.url = "r2"], Outside}

ProcSymmetry == Permutations({p1, p2})
=============================================================================
