---------------------------- MODULE MCNeedsReview ---------------------------
(* Small instances of NeedsReview.                                         *)
EXTENDS NeedsReview, TLC

Symmetry == Permutations(Call) \cup Permutations(Path) \cup Permutations(Hash)
=============================================================================
