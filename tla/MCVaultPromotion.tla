------------------------- MODULE MCVaultPromotion -------------------------
(* Instances of VaultPromotion for TLC. *)
EXTENDS VaultPromotion, TLC

\* Names of one kind are interchangeable: nothing compares or orders them.
Interchangeable ==
  Permutations(Cands) \cup Permutations(Targets) \cup Permutations(Plans)
    \cup Permutations(Texts) \cup Permutations(Procs)
=============================================================================
