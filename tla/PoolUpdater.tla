------------------------------ MODULE PoolUpdater ------------------------------
(***************************************************************************)
(* How DefaultRedisAllocatorPolicy keeps a pool up to date (allocator.py   *)
(* 272-292, 395-539): before a malloc a process tries the update lock, the *)
(* winner asks the updater for keys and assigns or extends the pool.       *)
(*                                                                         *)
(* The updater turns through its parameters; the keys it fetches for a     *)
(* parameter are named by the parameter and the version the source has.    *)
(***************************************************************************)
EXTENDS Integers, FiniteSets

CONSTANTS Proc,
          Deployment,  \* the deployments: len(updater), and whether somebody
                       \* calls refresh_pool_all
          MaxVersion,  \* bound: how often the source changes
          SlowFetch    \* a fetch may outlast update_interval

ASSUME UpdaterConstantsAreValid ==
    /\ Deployment \subseteq [params : Nat \ {0}, administered : BOOLEAN]
    /\ MaxVersion \in Nat /\ SlowFetch \in BOOLEAN

VARIABLES deployment,  \* the one at hand
          source,      \* the version the source has now
          pool,        \* the members: <<parameter, version>>
          updateLock,  \* the policy update lock, with a TTL of update_interval
          proc         \* each process: where it is, fetches to go, keys so far,
                       \* its updater's index, the memo of _try_refresh_pool
pvars == <<deployment, source, pool, updateLock, proc>>

Parameter == 0 .. deployment.params - 1
Keys      == Parameter \X (0 .. MaxVersion)

Fresh == [pc |-> "out", todo |-> 0, got |-> {}, index |-> 0, memo |-> FALSE]

\* Every process is at one place of refresh_pool, its updater's index within the
\* parameters.
PUTypeOK ==
    /\ deployment \in Deployment
    /\ source \in 0 .. MaxVersion
    /\ pool \subseteq Keys
    /\ updateLock \in BOOLEAN
    /\ proc \in [Proc -> [pc : {"out", "refresh", "all"}, todo : 0 .. deployment.params,
                          got : SUBSET Keys, index : Parameter, memo : BOOLEAN]]

PUInit ==
    /\ deployment \in Deployment
    /\ source = 0
    /\ pool = {}
    /\ updateLock = FALSE
    /\ proc = [p \in Proc |-> Fresh]

Updating(p) == proc[p].pc = "refresh"

-----------------------------------------------------------------------------

\* Slip for the mutation runs: the lock is written without being tested.
TryRefreshForces(p) ==
    /\ proc[p].pc = "out" /\ ~proc[p].memo
    /\ updateLock' = TRUE
    /\ proc' = [proc EXCEPT ![p].pc = "refresh", ![p].todo = 1]
    /\ UNCHANGED <<deployment, source, pool>>

\* _try_refresh_pool, called by malloc: nothing within 5 seconds of its last
\* return; otherwise one attempt at the lock.
TryRefresh(p) ==
    /\ proc[p].pc = "out" /\ ~proc[p].memo
    /\ IF updateLock
       THEN /\ proc' = [proc EXCEPT ![p].memo = TRUE]
            /\ UNCHANGED updateLock
       ELSE /\ updateLock' = TRUE
            /\ proc' = [proc EXCEPT ![p].pc = "refresh", ![p].todo = 1]
    /\ UNCHANGED <<deployment, source, pool>>

\* refresh_pool_all: clear, then a round through all parameters, without the lock.
RefreshAll(p) ==
    /\ deployment.administered
    /\ proc[p].pc = "out"
    /\ pool' = {}
    /\ proc' = [proc EXCEPT ![p].pc = "all", ![p].todo = deployment.params]
    /\ UNCHANGED <<deployment, source, updateLock>>

\* Slip: the index of the updater is not taken modulo its length.
FetchRunsOut(p) ==
    /\ proc[p].pc # "out" /\ proc[p].todo > 0
    /\ \E new \in {{}, {<<proc[p].index, source>>}} :
          proc' = [proc EXCEPT ![p].todo  = @ - 1,
                               ![p].got   = @ \cup new,
                               ![p].index = @ + 1]
    /\ UNCHANGED <<deployment, source, pool, updateLock>>

\* The updater moves its index before it fetches; the source may have no keys.
Fetch(p) ==
    /\ proc[p].pc # "out" /\ proc[p].todo > 0
    /\ \E new \in {{}, {<<proc[p].index, source>>}} :
          proc' = [proc EXCEPT ![p].todo  = @ - 1,
                               ![p].got   = @ \cup new,
                               ![p].index = (@ + 1) % deployment.params]
    /\ UNCHANGED <<deployment, source, pool, updateLock>>

\* An exception leaves the lock to its TTL and is not remembered by the memo.
FetchFails(p) ==
    /\ proc[p].pc # "out" /\ proc[p].todo > 0
    /\ proc' = [proc EXCEPT ![p] = [Fresh EXCEPT !.index = (proc[p].index + 1) % deployment.params,
                                                 !.memo  = proc[p].memo]]
    /\ UNCHANGED <<deployment, source, pool, updateLock>>

\* assign for an updater of one parameter, extend otherwise, nothing without
\* keys; the lock is never released.
Apply(p) ==
    /\ proc[p].pc # "out" /\ proc[p].todo = 0
    /\ pool' = IF proc[p].got = {} THEN pool
               ELSE IF deployment.params = 1 THEN proc[p].got
               ELSE pool \cup proc[p].got
    /\ proc' = [proc EXCEPT ![p] = [Fresh EXCEPT !.index = proc[p].index,
                                                 !.memo  = Updating(p) \/ proc[p].memo]]
    /\ UNCHANGED <<deployment, source, updateLock>>

\* A process dies and another one takes its place.
Restart(p) ==
    /\ proc[p] # Fresh
    /\ proc' = [proc EXCEPT ![p] = Fresh]
    /\ UNCHANGED <<deployment, source, pool, updateLock>>

MemoExpires(p) ==
    /\ proc[p].memo
    /\ proc' = [proc EXCEPT ![p].memo = FALSE]
    /\ UNCHANGED <<deployment, source, pool, updateLock>>

\* Slip: update_interval <= 0 would be a lock without a TTL.
UpdateLockStays == FALSE /\ UNCHANGED pvars

UpdateLockExpires ==
    /\ updateLock
    /\ SlowFetch \/ \A p \in Proc : ~Updating(p)
    /\ updateLock' = FALSE
    /\ UNCHANGED <<deployment, source, pool, proc>>

SourceChanges ==
    /\ source < MaxVersion
    /\ source' = source + 1
    /\ UNCHANGED <<deployment, pool, updateLock, proc>>

\* gc drops a member whose expiry_duration has passed.
MemberExpires ==
    /\ \E k \in pool : pool' = pool \ {k}
    /\ UNCHANGED <<deployment, source, updateLock, proc>>

PUNext ==
    \/ \E p \in Proc : \/ TryRefresh(p) \/ RefreshAll(p) \/ Fetch(p) \/ FetchFails(p)
                       \/ Apply(p) \/ Restart(p) \/ MemoExpires(p)
    \/ UpdateLockExpires \/ SourceChanges \/ MemberExpires

PUSpec == PUInit /\ [][PUNext]_pvars

\* Processes keep allocating; TTLs run out; a fetch of a parameter that is tried
\* again and again brings its keys some time.
AnyParameter        == UNION {0 .. d.params - 1 : d \in Deployment}
FetchSucceeds(p, i) == proc[p].index = i /\ Fetch(p) /\ proc'[p].got # proc[p].got
Goes(p)             == TryRefresh(p) \/ Fetch(p) \/ FetchFails(p) \/ MemoExpires(p)

FairPUSpec ==
    /\ PUSpec
    /\ \A p \in Proc : /\ WF_pvars(Goes(p)) /\ SF_pvars(Apply(p))
                       /\ SF_pvars(~updateLock /\ TryRefresh(p))
                       /\ \A i \in AnyParameter : SF_pvars(FetchSucceeds(p, i))
    /\ SF_pvars(UpdateLockExpires)

-----------------------------------------------------------------------------
(* Properties.                                                             *)

\* Of the processes that refresh the pool in malloc, only the one that took the
\* update lock does (policy docstring, 406-408), as long as its fetch ends within
\* update_interval.  refresh_pool_all takes no lock and is not counted.
OneUpdater == Cardinality({p \in Proc : Updating(p)}) <= 1

\* A refresh never brings back older keys than the pool has had for the same
\* parameter: fetch and assign of one process are not overtaken by another's, as
\* long as nobody calls refresh_pool_all, which takes no lock.
Versions(ks, i) == {v \in 0 .. MaxVersion : <<i, v>> \in ks}

NoStaleRefresh ==
    [][\A p \in Proc : Apply(p) /\ ~deployment.administered =>
         \A i \in Parameter :
            \A v \in Versions(proc[p].got, i), w \in Versions(pool, i) : w <= v]_pvars

\* A step that nothing but a death explains: the memo of a process that never
\* fetched may also just run out.
Dies(p) == Restart(p) /\ ~Goes(p) /\ ~Apply(p)

\* Once the source is stable its keys arrive in the pool, again and again,
\* although processes have died holding the update lock and fetches fail. A
\* process that starts begins with the first parameter: the others are starved
\* if processes die for ever, so they stop dying at some time, and nobody goes on
\* clearing the pool with refresh_pool_all.
KeysArrive ==
    <>[][\A p \in Proc : ~RefreshAll(p) /\ ~Dies(p)]_pvars =>
       \A i \in AnyParameter : []<>(\/ <<i, MaxVersion>> \in pool
                                  \/ source < MaxVersion \/ i \notin Parameter)
=============================================================================
