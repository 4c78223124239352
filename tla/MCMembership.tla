--------------------------- MODULE MCMembership ----------------------------
(* Small instances of Membership.                                          *)
EXTENDS Membership, TLC

Symmetry == Permutations(Call) \cup Permutations(Org)
=============================================================================
