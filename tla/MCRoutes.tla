------------------------------- MODULE MCRoutes -------------------------------
(* Small instances of Routes for TLC. *)
EXTENDS Routes, TLC

CONSTANTS r1, r2, i1, i2, p1, p2

TwoThreads == {p1, p2}

\* One item takes the active revision, the other asks for the second one.
ItemRoute == i1 :> r1 @@ i2 :> r1
ItemAsks == i1 :> 0 @@ i2 :> 2

Symmetry == Permutations(TwoThreads)
=============================================================================
