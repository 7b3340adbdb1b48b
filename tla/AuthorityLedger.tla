-------------------------- MODULE AuthorityLedger --------------------------
(***************************************************************************)
(* What AuthorityStore gives its callers (review/authority.py), without    *)
(* locks, files or crashes: decisions are published and never withdrawn,   *)
(* and a decision is committed at most once and for good.  Committing is a *)
(* compare-and-swap on the generation, with the one exception the code     *)
(* makes: the receipt is written before the generation file, so that after *)
(* a crash between the two other decisions of the generation just left can *)
(* still be committed, until someone advances the file.                    *)
(***************************************************************************)
EXTENDS Naturals

VARIABLES
  published,  \* decisions published
  committed,  \* decisions whose activation is committed
  generation, \* the active-set generation
  behind      \* TRUE: generation.json still names the generation before

vars == <<published, committed, generation, behind>>

Init == published = {} /\ committed = {} /\ generation = 0 /\ behind = FALSE

\* Decisions only accumulate.  A decision binds a generation that was current
\* when it was made, or an earlier one if activations overtook it.
Publish ==
  /\ published \subseteq published'
  /\ \A d \in published' \ published : d.gen <= generation
  /\ UNCHANGED <<committed, generation, behind>>

\* The compare-and-swap.
Commit(d) ==
  /\ ~behind
  /\ d \notin committed
  /\ d.gen = generation
  /\ committed' = committed \cup {d}
  /\ generation' = generation + 1
  /\ behind' = TRUE
  /\ UNCHANGED published

\* A commit that overtakes the generation file: it uses the generation that an
\* earlier commit used, and does not move on.
Overtake(d) ==
  /\ behind
  /\ d \notin committed
  /\ d.gen + 1 = generation
  /\ committed' = committed \cup {d}
  /\ UNCHANGED <<published, generation, behind>>

\* The generation file follows.
Settle == behind /\ behind' = FALSE /\ UNCHANGED <<published, committed, generation>>

Next == Publish \/ Settle \/ \E d \in published : Commit(d) \/ Overtake(d)

Spec == Init /\ [][Next]_vars

=============================================================================
