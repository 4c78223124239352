-------------------------- MODULE MCGitIngestion --------------------------
(* Small instances of GitIngestion.                                        *)
EXTENDS GitIngestion, TLC

WorkerSymmetry == Permutations(Worker)
DataSymmetry == Permutations(Path) \cup Permutations(Hash)
=============================================================================
