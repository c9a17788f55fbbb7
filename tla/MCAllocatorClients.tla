-------------------------- MODULE MCAllocatorClients --------------------------
(* AllocatorClients on small instances: sets of model values and symmetry. *)
EXTENDS AllocatorClients, TLC

\* Keys, and clients, are interchangeable in every definition.
KeyAndClientSymmetry == Permutations(Key) \cup Permutations(Client)
=============================================================================
