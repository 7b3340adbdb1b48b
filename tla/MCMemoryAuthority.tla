------------------------- MODULE MCMemoryAuthority -------------------------
EXTENDS MemoryAuthority, TLC

CONSTANTS c1, c2, m1, x1

None(kind) == [kind |-> kind, target |-> m1, new |-> x1]

\* a merge into a memory that a context transition replaces
MergeAndTransition == c1 :> None("merge") @@ c2 :> None("context_transition")
\* a replacement, and a conflict to be settled
UpdateAndConflict == c1 :> None("UPDATE") @@ c2 :> None("REVIEW_REQUIRED")

AllPoints == Points \ {"idle"}
\* every point but those at which only some of the planned files are replaced
WholePoints == AllPoints \ {"replacing", "undoing", "restoring"}

Symmetric == Permutations(Procs)
=============================================================================
