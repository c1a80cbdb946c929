-------------------------- MODULE MCNonconformance --------------------------
(* Small instances of Nonconformance for TLC. *)
EXTENDS Nonconformance, TLC

CONSTANTS c1, h1, x1, x2, d1

OneController == {c1}
ControllerAndReviewer == {c1, h1}
OneReplay == {x1}
TwoReplays == {x1, x2}

\* A defect, then a good inspection.
Repaired == <<d1, None>>
RepairedAs == <<{"TRUSTED", "DOUBTFUL", "INVALIDATED"}, {"TRUSTED"}>>

\* The same, and nothing casts doubt on them.
SurelyAs == <<{"TRUSTED"}, {"TRUSTED"}>>

\* A good inspection, then the same defect twice.
Repeated == <<None, d1, d1>>
RepeatedAs == <<{"TRUSTED"}, {"TRUSTED", "INVALIDATED"}, {"TRUSTED", "DOUBTFUL"}>>

OrderAndRelease == {[verdict |-> "confirmed", disposition |-> "REWORK_REQUIRED"],
                    [verdict |-> "confirmed", disposition |-> "RELEASED"]}

AnyRequest == Request

Symmetry == Permutations({x1, x2})
=============================================================================
