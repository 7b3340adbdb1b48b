---------------------------- MODULE MCAgentRuns ----------------------------
(* Three inputs teach one lesson: two of one exchange, one of which comes  *)
(* with the opposite policy, and one with a blank result.  Two exchanges    *)
(* are enough evidence.                                                     *)
EXTENDS AgentRuns

CONSTANTS i1, i2, i3, x, y, lesson, opposite

MCExchangeOf == (i1 :> x) @@ (i2 :> x) @@ (i3 :> y)
MCSuggestedBy == (i1 :> {}) @@ (i2 :> {opposite}) @@ (i3 :> {})
MCLessonOf == [i \in Inputs |-> lesson]
Symmetry == Permutations(Records)
MCOpposite == (lesson :> opposite) @@ (opposite :> lesson)
=============================================================================
