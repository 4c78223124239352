-------------------------- MODULE MCEmbeddingJobs --------------------------
(* Small instances of EmbeddingJobs.                                       *)
EXTENDS EmbeddingJobs, TLC

WorkerSymmetry == Permutations(Worker)
=============================================================================
