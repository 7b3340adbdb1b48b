--------------------------- MODULE LearningChain ---------------------------
(* The producers of the learning chain, as functions: an experiment with and  *)
(* without memory is evaluated (learning_loop/evidence.py, evaluation.py),    *)
(* the evaluation is copied into an enriched one (enrichment.py), readmitted  *)
(* by the reflection builder, classified by the eligibility matrix, and,      *)
(* when eligible, turned into a request for a human decision. Scores and      *)
(* thresholds are integers; a ratio threshold is a percentage, compared       *)
(* without division. A content hash is the content itself.                    *)
EXTENDS Integers, FiniteSets, Sequences

Strata == {"verified", "unknown", "contradicted"}

\* bug: a superseded record still counts as verified
classify_by_status(r) ==
  CASE r.status = "conflicted"                               -> "contradicted"
    [] r.confidence = "confirmed" /\ r.status = "active"     -> "verified"
    [] OTHER                                                 -> "unknown"

\* The stratum of one memory record: contradicted before verified before unknown.
classify_memory_record(r) ==
  CASE r.status = "conflicted" \/ r.superseded               -> "contradicted"
    [] ~(r.status = "conflicted" \/ r.superseded)
         /\ r.confidence = "confirmed" /\ r.status = "active" -> "verified"
    [] OTHER                                                 -> "unknown"

build_memory_evidence_composition(records) ==
  [s \in Strata |->
     Cardinality({i \in DOMAIN records : classify_memory_record(records[i]) = s})]

Total(c) == c["verified"] + c["unknown"] + c["contradicted"]

check_evidence_sufficiency(c, percent) ==
  IF Total(c) > 0 /\ 100 * c["verified"] >= percent * Total(c)
  THEN "sufficient" ELSE "insufficient"

generate_validation_verdict(delta, status, thresholds) ==
  CASE ~thresholds.frozen \/ status = "insufficient"                            -> "C"
    [] thresholds.frozen /\ status = "sufficient" /\ delta > thresholds.delta   -> "A"
    [] thresholds.frozen /\ status = "sufficient" /\ ~(delta > thresholds.delta) -> "B"

\* What enters the identity of an evaluation: the facts, not what follows from them.
EvaluationIdentity(b, c) ==
  [task |-> b.task, first |-> b.first, second |-> b.second, delta |-> b.delta,
   composition |-> c, thresholds |-> b.thresholds]

build_utility_evaluation(b) ==
  LET c      == build_memory_evidence_composition(b.records)
      status == check_evidence_sufficiency(c, b.thresholds.percent)
  IN  [id |-> EvaluationIdentity(b, c), delta |-> b.delta, composition |-> c,
       thresholds |-> b.thresholds, status |-> status,
       verdict |-> generate_validation_verdict(b.delta, status, b.thresholds)]

\* The checks of evaluate_experiment_bundle before anything is computed: both
\* runs and the comparison are of one experiment, only the second run used
\* memory, and the comparison's scores are those of the runs.
BundleAccepted(b) ==
  /\ b.linked
  /\ b.usedWithout = 0 /\ b.usedWith > 0
  /\ b.first = b.scoreWithout /\ b.second = b.scoreWith
  /\ b.delta = b.second - b.first
  /\ b.thresholds.percent \in 0 .. 100

\* An enriched evaluation: the snapshot and, next to it, the id it is filed under.
Enriched(s) == [id |-> s.id, snapshot |-> s]

\* build_reflection's readmission: status and verdict are recomputed from the
\* facts in the snapshot, and the id outside must be the id inside.
Readmitted(e) ==
  LET s      == e.snapshot
      status == IF Total(s.composition) = 0 THEN "insufficient"
                ELSE check_evidence_sufficiency(s.composition, s.thresholds.percent)
  IN  /\ s.status = status
      /\ s.verdict = generate_validation_verdict(s.delta, status, s.thresholds)
      /\ e.id = s.id

\* The eligibility matrix.
FSM_MATRIX_V1 ==
  [verdict : {"A", "B"}, contradicted : BOOLEAN, unknown : BOOLEAN, status : {"eligible"}]
    \cup [verdict : {"C"}, contradicted : BOOLEAN, unknown : BOOLEAN, status : {"ineligible"}]

\* The preconditions P1 to P8 on a reflection's outcome, read off the snapshot it copies.
Preconditions(s) ==
  /\ s.verdict \in {"A", "B", "C"} /\ s.status \in {"sufficient", "insufficient"}
  /\ \A k \in Strata : s.composition[k] >= 0
  /\ s.status = check_evidence_sufficiency(s.composition, s.thresholds.percent)
  /\ s.verdict \in {"A", "B"} => s.status = "sufficient" /\ s.thresholds.frozen
  /\ s.verdict = "A" => s.delta > s.thresholds.delta
  /\ s.verdict = "B" => s.delta <= s.thresholds.delta
  /\ s.verdict = "C" => ~(s.thresholds.frozen /\ s.status = "sufficient")

\* _fsm_lookup: exactly one row of the matrix matches.
EligibilityStatus(s) ==
  LET row == CHOOSE r \in FSM_MATRIX_V1 :
               /\ r.verdict = s.verdict
               /\ r.contradicted = (s.composition["contradicted"] > 0)
               /\ r.unknown = (s.composition["unknown"] > 0)
  IN  row.status

\* _expected_chain: what a chain is made of, in the order of publication; nothing
\* for an input that a producer rejects.
ExpectedChain(e) ==
  IF ~(Readmitted(e) /\ Preconditions(e.snapshot)) THEN <<>>
  ELSE <<"E", "R", "El">> \o
         (IF EligibilityStatus(e.snapshot) = "eligible" THEN <<"Q">> ELSE <<>>)
=============================================================================
