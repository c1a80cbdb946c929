---------------------------- MODULE MCIntegrityLog ----------------------------
(* Small instances of IntegrityLog for TLC. *)
EXTENDS IntegrityLog, TLC

CONSTANTS s1, s2, p1, p2

TwoThreads == {p1, p2}

Symmetry == Permutations(TwoThreads) \cup Permutations({s1, s2})
=============================================================================
