--------------------------- MODULE MCLearningRun ---------------------------
(* Two criteria, so that a run can pass with one candidate or fail with    *)
(* two, and two reviewers that may overlap.                                *)
EXTENDS LearningRun
=============================================================================
