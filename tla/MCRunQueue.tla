----------------------------- MODULE MCRunQueue -----------------------------
(* Instances of RunQueue for TLC. *)
EXTENDS RunQueue, TLC

\* Workers are interchangeable: ids are only compared for equality.
WorkerSymmetry == Permutations(Worker)
=============================================================================
