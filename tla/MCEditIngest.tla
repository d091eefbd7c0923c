----------------------------- MODULE MCEditIngest -----------------------------
(* Small instances of EditIngest for TLC. *)
EXTENDS EditIngest, TLC

CONSTANTS noval, marker, k1, h1, h2

EventA == [tool |-> "claude", path |-> "a.rs", diff |-> "d1", meta |-> "m"]
EventB == [EventA EXCEPT !.diff = noval]
Events == {EventA, EventB}

Main    == [url |-> "r1", branch |-> "main", sha |-> "s1"]
Other   == [Main EXCEPT !.url = "r2"]
Outside == [url |-> noval, branch |-> noval, sha |-> noval]
Repos == {Main, Other, Outside}

Signed(e, c, ts) ==
    [event |-> e, repo |-> c, ts |-> ts, sig |-> compute_record_sig(k1, ts, e, c)]

\* Edits signed with the key of the request's token: three for a whitelisted
\* repository, one flagged for its diff and its repository, and one whose
\* repository was filled in after it was signed.
GoodA == Signed(EventA, Main, 1)
GoodB == Signed(EventB, Main, 1)
GoodC == Signed(EventA, Main, 2)
Foreign == Signed(EventB, Other, 1)
Bare  == Signed(EventA, Outside, 1)
Filled == [Bare EXCEPT !.repo = Main]

AllEdits  == {GoodA, Foreign, Filled}
GoodEdits == {GoodA, GoodB, GoodC}
MixedEdits == AllEdits \cup GoodEdits

AllFaults == {"count", "save", "retain", "abort"}

NoEvents == {}
Flagged  == {EventB}
NoFaults == {}

HandlerSymmetry == Permutations({h1, h2})
=============================================================================
