--------------------------- MODULE MCMemoryIndex ---------------------------
(* One memory record that can be renamed, one conversation of two versions, *)
(* two raw files that can trade contents.                                   *)
EXTENDS MemoryIndex

Symmetry == Permutations(Indexers)
=============================================================================
