------------------------------ MODULE MCBackup ------------------------------
(* Backup with interchangeable workers.                                    *)
EXTENDS Backup, TLC

Symmetry == Permutations(Worker)
=============================================================================
