----------------------------- MODULE MCPoolUpdater -----------------------------
(* PoolUpdater on small instances; a .cfg cannot write records.            *)
EXTENDS PoolUpdater

\* One parameter, whose keys are assigned, with and without somebody who calls
\* refresh_pool_all; two parameters, whose keys are extended, without.
OneOrTwoParameters == {[params |-> 1, administered |-> TRUE],
                       [params |-> 1, administered |-> FALSE],
                       [params |-> 2, administered |-> FALSE]}
=============================================================================
