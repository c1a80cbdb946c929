---------------------------- MODULE MCContainment ----------------------------
(* Small instances of Containment for TLC. *)
EXTENDS Containment, TLC

CONSTANTS u1, u2, u3, p1, p2, n1, i1, i2, lot, tool, shift

ThreeUsers == {u1, u2, u3}
TwoThreads == {p1, p2}

\* The lot went into both items, the tool touched one, the shift none.
Matches == (lot :> {i1, i2}) @@ (tool :> {i1}) @@ (shift :> {})

Symmetry == Permutations(ThreeUsers) \cup Permutations(TwoThreads)
=============================================================================
