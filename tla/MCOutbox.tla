------------------------------ MODULE MCOutbox ------------------------------
(* Small instances of Outbox for TLC. *)
EXTENDS Outbox, TLC

CONSTANTS w1, w2, o1, o2, m1, m2

OneWorker == {w1}
TwoWorkers == {w1, w2}
NoOperator == {}
OneOperator == {o1}
OneMessage == {m1}
TwoMessages == {m1, m2}

Symmetry == Permutations({w1, w2}) \cup Permutations({m1, m2})
=============================================================================
