------------------------------ MODULE MCTaskQueue ------------------------------
(* TaskQueue on small instances: symmetry of queries and listeners.        *)
EXTENDS TaskQueue, TLC

\* Queries, and listeners, are interchangeable in every definition.
QuerySymmetry == Permutations(Task) \cup Permutations(Listener)
=============================================================================
