-------------------------------- MODULE MCSpans --------------------------------
(* Spans on two implementations, the current SDK and one without the newest entries,
   and a few handles. *)
EXTENDS Spans, TLC

CONSTANTS current, older

TwoImpls == {current, older}
TwoFeatures == current :> 3 @@ older :> 1

Symmetry == Permutations(Handles) \cup Permutations(Snapshots)

(* What a call answered enables nothing and no invariant but FailureIsExplained reads it. *)
WithoutAnswers == <<objects, stopped>>
===============================================================================
