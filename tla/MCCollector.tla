---------------------------- MODULE MCCollector ----------------------------
(* Collector on small instances: sets of model values and symmetry.        *)
EXTENDS Collector

\* Keys are interchangeable in every definition.
KeySymmetry == Permutations(Key)

\* The lock RedisAllocatorPolicy keeps beside the pool's (allocator.py 446, 505).
PolicyLock == {<<"pool", "policy_update_lock">>}
=============================================================================
