--------------------------- MODULE MCQueuedSwarm ----------------------------
(***************************************************************************)
(* Small instances of QueuedSwarm for TLC.                                 *)
(***************************************************************************)
EXTENDS QueuedSwarm, TLC

\* Workers and tasks are interchangeable in the safety runs.
Symmetry == Permutations(Worker) \union Permutations(Task)
=============================================================================
