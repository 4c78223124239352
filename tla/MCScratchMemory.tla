--------------------------- MODULE MCScratchMemory --------------------------
(* Small instances of ScratchMemory.                                       *)
EXTENDS ScratchMemory, TLC

CallSymmetry == Permutations(Call)
HashSymmetry == Permutations(Hash)
Symmetry == CallSymmetry \cup HashSymmetry
=============================================================================
