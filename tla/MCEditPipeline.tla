---------------------------- MODULE MCEditPipeline ----------------------------
(* Small instances of EditPipeline for TLC. *)
EXTENDS EditPipeline, TLC

CONSTANTS noval, marker, k1, p1, p2, h1, h2

Edit1 == [tool |-> "claude", path |-> "a.rs", diff |-> "d1", meta |-> noval]
Edit2 == [Edit1 EXCEPT !.diff = "d2"]
OneEdit  == {Edit1}
TwoEdits == {Edit1, Edit2}

Main     == [url |-> "r1", branch |-> "main", sha |-> "s1"]
Detached == [Main EXCEPT !.branch = noval]
Outside  == [url |-> noval, branch |-> noval, sha |-> noval]

InRepo     == {Main}
MayBackfill == {Main, Outside}
MayDetach  == {Main, Outside, Detached}

NoEvents == {}
NoFaults == {}

HandlerSymmetry == Permutations({h1, h2})
Symmetry == HandlerSymmetry \cup Permutations({p1, p2})
=============================================================================
