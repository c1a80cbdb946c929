------------------------- MODULE MCEventProjection -------------------------
(* Small instances of EventProjection for TLC. *)
EXTENDS EventProjection, TLC

CONSTANTS p1, p2, t1, t2, e1, e2, inv, s1, s2, i1, v1, v2, n1, n2

OneProc == {p1}
TwoProcs == {p1, p2}
NoThread == {}
OneThread == {t1}
NoHome == <<>>
Home == t1 :> p1

\* Two events of one source, the first also sent with other content.
TwinEvents == {e1, e2}
TwinSource == e1 :> s1 @@ e2 :> s1
TwinItem == e1 :> i1 @@ e2 :> i1
TwinNumber == e1 :> 1 @@ e2 :> 2
TwinCovers == e1 :> {} @@ e2 :> {}
TwinRequests == {[id |-> e1, body |-> v1, nonce |-> n1],
                 [id |-> e1, body |-> v2, nonce |-> n2],
                 [id |-> e2, body |-> v1, nonce |-> n2]}

\* An invalidation from a calibration system: one that names no item.
VoidEvents == {e1, inv}
VoidSource == e1 :> s1 @@ inv :> s2
VoidItem == e1 :> i1 @@ inv :> None
VoidNumber == e1 :> 1 @@ inv :> 1
VoidCovers == e1 :> {} @@ inv :> {e1}
VoidRequests == {[id |-> e1, body |-> v1, nonce |-> None],
                 [id |-> inv, body |-> v1, nonce |-> n1]}
=============================================================================
