--------------------------- MODULE MCReviewChain ---------------------------
(* Instances of ReviewChain for TLC. *)
EXTENDS ReviewChain, TLC

CONSTANTS good, weak, forged, ann, bob

memory(status, superseded, confidence) ==
  [status |-> status, superseded |-> superseded, confidence |-> confidence]
thresholds == [frozen |-> TRUE, delta |-> 0, percent |-> 50]
bundle(records) ==
  [task |-> "t", linked |-> TRUE, usedWithout |-> 0, usedWith |-> 1, scoreWithout |-> 1,
   scoreWith |-> 2, first |-> 1, second |-> 2, delta |-> 1, records |-> records,
   thresholds |-> thresholds]

confirmed == memory("active", FALSE, "confirmed")
\* half of the records are verified, which is just enough,
Half == bundle(<<confirmed, memory("active", FALSE, "inferred")>>)
\* or a third: one of the confirmed ones was superseded
Third == bundle(<<confirmed, memory("active", TRUE, "confirmed"),
                  memory("active", FALSE, "inferred")>>)
\* an evaluation whose verdict does not follow from its facts
Forgery == Enriched([build_utility_evaluation(Third) EXCEPT !.verdict = "A",
                                                            !.status = "sufficient"])
Inputs == good :> [from |-> "bundle", bundle |-> Half]
            @@ weak :> [from |-> "bundle", bundle |-> Third]
            @@ forged :> [from |-> "caller", enriched |-> Forgery]

command(seq, action, by) == [seq |-> seq, action |-> action, by |-> by]
Orders == {command(1, "defer", ann), command(1, "accept", bob),
           command(2, "accept", ann), command(2, "reject", bob)}
Symmetric == Permutations(Callers)
=============================================================================
