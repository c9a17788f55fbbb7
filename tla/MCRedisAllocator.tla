--------------------------- MODULE MCRedisAllocator ---------------------------
(* RedisAllocator on small instances: sets of model values and symmetry.   *)
EXTENDS Diagnostics

\* Keys are interchangeable in every definition of RedisAllocator and FreeList.
KeySymmetry == Permutations(Key)

\* Every pool there can be, sound or not, over the keys of the instance (walks
\* and links do not look at the expiry).
AnyPool ==
    LET item == [prev : Key \cup {Nil, Allocated}, next : Key \cup {Nil, Allocated},
                 expiry : {"never"}]
    IN  [entry : UNION {[S -> item] : S \in SUBSET Key},
         head : Key \cup {Nil}, tail : Key \cup {Nil}]

\* The diagnostics are exact but for the pools that are overlooked: with no free
\* key locked, check_invariants reports nothing of the others if and only if they
\* are sound lists.
ASSUME DiagnosticsAreExact ==
    \A p \in AnyPool : CheckInvariants(p, {}) = {} <=> WellFormed(p) \/ Overlooked(p)
=============================================================================
