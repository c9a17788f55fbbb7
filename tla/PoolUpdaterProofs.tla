--------------------------- MODULE PoolUpdaterProofs ---------------------------
(* The update of a pool, for any number of processes that die at any step, *)
(* any number of parameters and versions of the source.                    *)
EXTENDS PoolUpdater, FiniteSetTheorems, TLAPS

\* The steps of one process.
Steps(p) == \/ TryRefresh(p) \/ RefreshAll(p) \/ Fetch(p) \/ FetchFails(p)
            \/ Apply(p) \/ Restart(p) \/ MemoExpires(p)

Procs == [pc : {"out", "refresh", "all"}, todo : 0 .. deployment.params,
          got : SUBSET Keys, index : Parameter, memo : BOOLEAN]

\* The index of the updater stays within its parameters.
LEMMA IndexTurns ==
    ASSUME deployment \in Deployment, NEW i \in Parameter
    PROVE  /\ deployment.params \in Nat \ {0} /\ 0 \in Parameter
           /\ (i + 1) % deployment.params \in Parameter
  <1>1. deployment.params \in Nat \ {0}
    BY UpdaterConstantsAreValid
  <1>2. ASSUME NEW n \in Nat \ {0} PROVE (i + 1) % n \in 0 .. n - 1
    BY <1>2 DEF Parameter
  <1> QED
    BY <1>1, <1>2 DEF Parameter

\* A process that starts knows nothing.
LEMMA FreshTyped ==
    ASSUME deployment \in Deployment, NEW i \in Parameter, NEW m \in BOOLEAN
    PROVE  /\ Fresh \in Procs
           /\ [Fresh EXCEPT !.index = i, !.memo = m] \in Procs
  <1>1. 0 \in Parameter /\ 0 \in 0 .. deployment.params
    BY UpdaterConstantsAreValid DEF Parameter
  <1>2. Fresh \in Procs
    BY <1>1 DEF Fresh, Procs
  <1>3. ASSUME NEW r \in Procs PROVE [r EXCEPT !.index = i] \in Procs
    BY DEF Procs
  <1>4. ASSUME NEW r \in Procs PROVE [r EXCEPT !.memo = m] \in Procs
    BY DEF Procs
  <1> DEFINE mid == [Fresh EXCEPT !.index = i]
  <1>5. [Fresh EXCEPT !.index = i, !.memo = m] = [mid EXCEPT !.memo = m]
    OBVIOUS
  <1>6. mid \in Procs
    BY <1>2, <1>3
  <1> HIDE DEF mid
  <1> QED
    BY <1>2, <1>4, <1>5, <1>6

\* A process that is back knows its index and its memo.
LEMMA FreshIsOut ==
    ASSUME NEW i, NEW m
    PROVE  LET r == [Fresh EXCEPT !.index = i, !.memo = m]
           IN  r.pc = "out" /\ r.got = {} /\ Fresh.pc = "out" /\ Fresh.got = {}
  <1> DEFINE mid == [Fresh EXCEPT !.index = i]
  <1>1. mid.pc = "out" /\ mid.got = {} /\ Fresh.pc = "out" /\ Fresh.got = {}
    BY DEF Fresh
  <1>2. [Fresh EXCEPT !.index = i, !.memo = m] = [mid EXCEPT !.memo = m]
    OBVIOUS
  <1>3. mid = [Fresh EXCEPT !.index = i]
    OBVIOUS
  <1> HIDE DEF mid
  <1>4. DOMAIN mid = {"pc", "todo", "got", "index", "memo"}
    BY <1>3 DEF Fresh
  <1> QED
    BY <1>1, <1>2, <1>4

\* A process that moves leaves the others alone.
LEMMA OthersUntouched ==
    ASSUME PUTypeOK, NEW p \in Proc, Steps(p)
    PROVE  \A q \in Proc \ {p} : proc'[q] = proc[q]
  <1>0. proc \in [Proc -> Procs]
    BY DEF PUTypeOK, Procs
  <1>1. CASE TryRefresh(p) \/ RefreshAll(p) \/ MemoExpires(p)
    BY <1>0, <1>1 DEF TryRefresh, RefreshAll, MemoExpires
  <1>2. CASE Fetch(p)
    BY <1>0, <1>2 DEF Fetch
  <1>3. CASE FetchFails(p) \/ Apply(p) \/ Restart(p)
    BY <1>0, <1>3 DEF FetchFails, Apply, Restart
  <1> QED
    BY <1>1, <1>2, <1>3 DEF Steps

\* Whoever fails, applies or dies is out, with nothing fetched.
LEMMA LeavesFresh ==
    ASSUME PUTypeOK, NEW p \in Proc, FetchFails(p) \/ Apply(p) \/ Restart(p)
    PROVE  proc'[p].pc = "out" /\ proc'[p].got = {}
  <1>0. proc \in [Proc -> Procs]
    BY DEF PUTypeOK, Procs
  <1>1. PICK r : proc' = [proc EXCEPT ![p] = r] /\ r.pc = "out" /\ r.got = {}
    <2>1. CASE FetchFails(p)
      <3> DEFINE r == [Fresh EXCEPT !.index = (proc[p].index + 1) % deployment.params,
                                    !.memo = proc[p].memo]
      <3>1. proc' = [proc EXCEPT ![p] = r]
        BY <2>1 DEF FetchFails
      <3>2. r.pc = "out" /\ r.got = {}
        BY FreshIsOut
      <3> QED
        BY <3>1, <3>2
    <2>2. CASE Apply(p)
      <3> DEFINE r == [Fresh EXCEPT !.index = proc[p].index,
                                    !.memo = Updating(p) \/ proc[p].memo]
      <3>1. proc' = [proc EXCEPT ![p] = r]
        BY <2>2 DEF Apply
      <3>2. r.pc = "out" /\ r.got = {}
        BY FreshIsOut
      <3> QED
        BY <3>1, <3>2
    <2>3. CASE Restart(p)
      BY <2>3, FreshIsOut DEF Restart
    <2> QED
      BY <2>1, <2>2, <2>3
  <1> QED
    BY <1>0, <1>1

\* What a step leaves of the types.
LEMMA StepTyped == PUTypeOK /\ [PUNext]_pvars => PUTypeOK'
  <1> SUFFICES ASSUME PUTypeOK, [PUNext]_pvars PROVE PUTypeOK'
    OBVIOUS
  <1>0. /\ deployment \in Deployment /\ deployment.params \in Nat \ {0}
        /\ source \in 0 .. MaxVersion /\ pool \subseteq Keys /\ updateLock \in BOOLEAN
        /\ proc \in [Proc -> Procs] /\ MaxVersion \in Nat
    BY UpdaterConstantsAreValid DEF PUTypeOK, Procs
  <1>1. ASSUME UNCHANGED deployment, source' \in 0 .. MaxVersion, pool' \subseteq Keys,
               updateLock' \in BOOLEAN, proc' \in [Proc -> Procs]
        PROVE  PUTypeOK'
    BY <1>0, <1>1 DEF PUTypeOK, Procs, Keys, Parameter
  <1>2. ASSUME NEW p \in Proc, Steps(p) PROVE PUTypeOK'
    <2>1. UNCHANGED <<deployment, source>> /\ updateLock' \in BOOLEAN
      BY <1>0, <1>2 DEF Steps, TryRefresh, RefreshAll, Fetch, FetchFails, Apply, Restart,
                        MemoExpires
    <2>2. pool' \subseteq Keys
      BY <1>0, <1>2 DEF Steps, TryRefresh, RefreshAll, Fetch, FetchFails, Apply, Restart,
                        MemoExpires, Procs
    <2>3. proc[p] \in Procs /\ proc[p].index \in Parameter /\ proc[p].memo \in BOOLEAN
      BY <1>0 DEF Procs
    <2>4. ASSUME NEW r \in Procs, proc' = [proc EXCEPT ![p] = r] PROVE PUTypeOK'
      BY <1>0, <1>1, <2>1, <2>2, <2>4
    <2>5. CASE TryRefresh(p)
      <3>1. CASE updateLock
        <4>1. proc' = [proc EXCEPT ![p].memo = TRUE]
          BY <2>5, <3>1 DEF TryRefresh
        <4>2. [proc[p] EXCEPT !.memo = TRUE] \in Procs
          BY <2>3 DEF Procs
        <4>3. proc' = [proc EXCEPT ![p] = [proc[p] EXCEPT !.memo = TRUE]]
          BY <4>1
        <4> QED
          BY <2>4, <4>2, <4>3
      <3>2. CASE ~updateLock
        <4>1. proc' = [proc EXCEPT ![p].pc = "refresh", ![p].todo = 1]
          BY <2>5, <3>2 DEF TryRefresh
        <4> DEFINE mid == [proc EXCEPT ![p].pc = "refresh"]
        <4>2. mid \in [Proc -> Procs] /\ proc' = [mid EXCEPT ![p].todo = 1]
          BY <1>0, <4>1 DEF Procs
        <4> HIDE DEF mid
        <4>3. 1 \in 0 .. deployment.params
          BY <1>0
        <4>4. proc' \in [Proc -> Procs]
          BY <4>2, <4>3 DEF Procs
        <4> QED
          BY <1>0, <1>1, <2>1, <2>2, <4>4
      <3> QED
        BY <3>1, <3>2
    <2>6. CASE RefreshAll(p)
      <3>1. proc' = [proc EXCEPT ![p].pc = "all", ![p].todo = deployment.params]
        BY <2>6 DEF RefreshAll
      <3> DEFINE mid == [proc EXCEPT ![p].pc = "all"]
      <3>2. mid \in [Proc -> Procs] /\ proc' = [mid EXCEPT ![p].todo = deployment.params]
        BY <1>0, <3>1 DEF Procs
      <3> HIDE DEF mid
      <3>3. deployment.params \in 0 .. deployment.params
        BY <1>0
      <3>4. proc' \in [Proc -> Procs]
        BY <3>2, <3>3 DEF Procs
      <3> QED
        BY <1>0, <1>1, <2>1, <2>2, <3>4
    <2>7. CASE Fetch(p)
      <3>1. PICK new \in {{}, {<<proc[p].index, source>>}} :
               proc' = [proc EXCEPT ![p].todo  = @ - 1,
                                    ![p].got   = @ \cup new,
                                    ![p].index = (@ + 1) % deployment.params]
        BY <2>7 DEF Fetch
      <3>2. new \subseteq Keys
        BY <1>0, <2>3, <3>1 DEF Keys
      <3>3. PICK next \in Parameter : next = (proc[p].index + 1) % deployment.params
        BY <1>0, <2>3, IndexTurns
      <3> DEFINE one == [proc EXCEPT ![p].todo = @ - 1]
                 two == [one EXCEPT ![p].got = @ \cup new]
      <3>4. one \in [Proc -> Procs] /\ one[p].got \subseteq Keys /\ one[p].index = proc[p].index
        <4>1. proc[p].todo - 1 \in 0 .. deployment.params
          BY <1>0, <2>3, <2>7 DEF Fetch, Procs
        <4> QED
          BY <1>0, <4>1 DEF Procs
      <3>5. proc' = [two EXCEPT ![p].index = (@ + 1) % deployment.params]
        BY <3>1
      <3> HIDE DEF one
      <3>6. two \in [Proc -> Procs] /\ two[p].index = proc[p].index
        BY <3>2, <3>4 DEF Procs
      <3> HIDE DEF two
      <3>7. proc' = [two EXCEPT ![p].index = next]
        BY <3>3, <3>5, <3>6
      <3>8. proc' \in [Proc -> Procs]
        BY <3>6, <3>7 DEF Procs
      <3> QED
        BY <1>0, <1>1, <2>1, <2>2, <3>8
    <2>8. CASE FetchFails(p)
      <3>1. PICK next \in Parameter : next = (proc[p].index + 1) % deployment.params
        BY <1>0, <2>3, IndexTurns
      <3>2. proc' = [proc EXCEPT ![p] = [Fresh EXCEPT !.index = next, !.memo = proc[p].memo]]
        BY <2>8, <3>1 DEF FetchFails
      <3> QED
        BY <1>0, <2>3, <2>4, <3>2, FreshTyped
    <2>9. CASE Apply(p)
      <3>1. (Updating(p) \/ proc[p].memo) \in BOOLEAN
        BY <2>3 DEF Updating
      <3> DEFINE m == Updating(p) \/ proc[p].memo
                 r == [Fresh EXCEPT !.index = proc[p].index, !.memo = m]
      <3>2. proc' = [proc EXCEPT ![p] = r]
        BY <2>9 DEF Apply
      <3> HIDE DEF m
      <3>3. r \in Procs
        BY <1>0, <2>3, <3>1, FreshTyped DEF m
      <3> HIDE DEF r
      <3> QED
        BY <2>4, <3>2, <3>3
    <2>10. CASE Restart(p)
      BY <1>0, <2>3, <2>4, <2>10, FreshTyped DEF Restart
    <2>11. CASE MemoExpires(p)
      <3>1. proc' = [proc EXCEPT ![p] = [proc[p] EXCEPT !.memo = FALSE]]
        BY <2>11 DEF MemoExpires
      <3>2. [proc[p] EXCEPT !.memo = FALSE] \in Procs
        BY <2>3 DEF Procs
      <3> QED
        BY <2>4, <3>1, <3>2
    <2> QED
      BY <1>2, <2>5, <2>6, <2>7, <2>8, <2>9, <2>10, <2>11 DEF Steps
  <1>3. CASE UpdateLockExpires
    BY <1>0, <1>1, <1>3 DEF UpdateLockExpires
  <1>4. CASE SourceChanges
    BY <1>0, <1>1, <1>4 DEF SourceChanges
  <1>5. CASE MemberExpires
    BY <1>0, <1>1, <1>5 DEF MemberExpires
  <1>6. CASE UNCHANGED pvars
    BY <1>0, <1>1, <1>6 DEF pvars
  <1> QED
    BY <1>2, <1>3, <1>4, <1>5, <1>6 DEF PUNext, Steps

\* Members, keys fetched and the updater's index stay within the parameters and
\* the versions the source has had.
THEOREM UpdaterTypeCorrect == PUSpec => []PUTypeOK
  <1>1. PUInit => PUTypeOK
    <2> SUFFICES ASSUME PUInit PROVE PUTypeOK
      OBVIOUS
    <2>1. 0 \in Parameter /\ FALSE \in BOOLEAN
      BY UpdaterConstantsAreValid DEF PUInit, Parameter
    <2>2. Fresh \in Procs /\ proc = [p \in Proc |-> Fresh]
      BY <2>1, FreshTyped DEF PUInit
    <2>3. proc \in [Proc -> Procs]
      BY <2>2
    <2>4. deployment \in Deployment /\ source \in 0 .. MaxVersion /\ pool \subseteq Keys
      BY UpdaterConstantsAreValid DEF PUInit
    <2>5. updateLock \in BOOLEAN
      BY DEF PUInit
    <2> QED
      BY <2>3, <2>4, <2>5 DEF PUTypeOK, Procs
  <1> QED
    BY <1>1, StepTyped, PTL DEF PUSpec

-----------------------------------------------------------------------------

\* The process that updates the pool holds the update lock, alone.
OnlyHolderUpdates ==
    /\ \A p \in Proc : Updating(p) => updateLock
    /\ \A p, q \in Proc : Updating(p) /\ Updating(q) => p = q

\* The lock outlives the fetch.
THEOREM HolderInductive ==
    ASSUME ~SlowFetch
    PROVE  PUSpec => [](PUTypeOK /\ OnlyHolderUpdates)
  <1>1. PUInit => OnlyHolderUpdates
    BY DEF PUInit, OnlyHolderUpdates, Updating, Fresh
  <1>2. PUTypeOK /\ OnlyHolderUpdates /\ [PUNext]_pvars => OnlyHolderUpdates'
    <2> SUFFICES ASSUME PUTypeOK, OnlyHolderUpdates, [PUNext]_pvars PROVE OnlyHolderUpdates'
      OBVIOUS
    <2>0. proc \in [Proc -> Procs]
      BY DEF PUTypeOK, Procs
    <2>1. ASSUME UNCHANGED updateLock, \A q \in Proc : Updating(q)' => Updating(q)
          PROVE  OnlyHolderUpdates'
      BY <2>1 DEF OnlyHolderUpdates
    <2>2. ASSUME NEW p \in Proc, Steps(p) PROVE OnlyHolderUpdates'
      <3>1. \A q \in Proc \ {p} : Updating(q)' <=> Updating(q)
        BY <2>2, OthersUntouched DEF Updating
      <3>2. CASE TryRefresh(p)
        <4>1. CASE updateLock
          <5>1. UNCHANGED updateLock /\ ~Updating(p)'
            BY <2>0, <3>2, <4>1 DEF TryRefresh, Updating, Procs
          <5> QED
            BY <2>1, <3>1, <5>1
        <4>2. CASE ~updateLock
          <5>1. updateLock' /\ \A q \in Proc : ~Updating(q)
            BY <3>2, <4>2 DEF TryRefresh, OnlyHolderUpdates
          <5> QED
            BY <3>1, <5>1 DEF OnlyHolderUpdates
        <4> QED
          BY <4>1, <4>2
      <3>3. CASE ~TryRefresh(p)
        <4>1. UNCHANGED updateLock
          BY <2>2, <3>3 DEF Steps, RefreshAll, Fetch, FetchFails, Apply, Restart, MemoExpires
        <4>2. Updating(p)' => Updating(p)
          <5>1. CASE RefreshAll(p) \/ MemoExpires(p)
            BY <2>0, <5>1 DEF RefreshAll, MemoExpires, Updating, Procs
          <5>2. CASE Fetch(p)
            BY <2>0, <5>2 DEF Fetch, Updating, Procs
          <5>3. CASE FetchFails(p) \/ Apply(p) \/ Restart(p)
            BY <5>3, LeavesFresh DEF Updating
          <5> QED
            BY <2>2, <3>3, <5>1, <5>2, <5>3 DEF Steps
        <4> QED
          BY <2>1, <3>1, <4>1, <4>2
      <3> QED
        BY <3>2, <3>3
    <2>3. CASE UpdateLockExpires
      BY <2>3 DEF UpdateLockExpires, OnlyHolderUpdates, Updating
    <2>4. CASE SourceChanges \/ MemberExpires \/ UNCHANGED pvars
      BY <2>1, <2>4 DEF SourceChanges, MemberExpires, pvars, Updating
    <2> QED
      BY <2>2, <2>3, <2>4 DEF PUNext, Steps
  <1> QED
    BY <1>1, <1>2, UpdaterTypeCorrect, StepTyped, PTL DEF PUSpec

\* While fetches end within update_interval, only the process that took the update
\* lock refreshes the pool in malloc, whoever calls refresh_pool_all beside it.
THEOREM OneUpdaterOnly ==
    ASSUME ~SlowFetch
    PROVE  PUSpec => []OneUpdater
  <1>1. OnlyHolderUpdates => OneUpdater
    <2> SUFFICES ASSUME OnlyHolderUpdates PROVE OneUpdater
      OBVIOUS
    <2> DEFINE S == {p \in Proc : Updating(p)}
    <2>1. CASE S = {}
      BY <2>1, FS_EmptySet DEF OneUpdater
    <2>2. CASE S # {}
      <3>1. PICK p \in Proc : S = {p}
        BY <2>2 DEF OnlyHolderUpdates
      <3> QED
        BY <3>1, FS_Singleton DEF OneUpdater
    <2> QED
      BY <2>1, <2>2
  <1> QED
    BY <1>1, HolderInductive, PTL

-----------------------------------------------------------------------------

\* Without refresh_pool_all every process that fetches has the lock; what it has
\* fetched is no older than what the pool has of the same parameter.
NotOvertaken ==
    /\ \A p \in Proc : proc[p].pc = "out" => proc[p].got = {}
    /\ \A i \in Parameter, v \in 0 .. MaxVersion :
          /\ <<i, v>> \in pool => v <= source
          /\ \A p \in Proc : <<i, v>> \in proc[p].got => v <= source
    /\ ~deployment.administered =>
          /\ \A p \in Proc : proc[p].pc # "all"
          /\ \A p \in Proc : Updating(p) =>
                \A i \in Parameter, v, w \in 0 .. MaxVersion :
                   <<i, v>> \in proc[p].got /\ <<i, w>> \in pool => w <= v

\* What a step may do to the pool and to what the processes have fetched.
LEMMA OvertakesNobody ==
    ASSUME PUTypeOK, NotOvertaken, UNCHANGED deployment,
           source' \in 0 .. MaxVersion, source <= source',
           NEW p \in Proc,
           \A q \in Proc \ {p} : proc'[q] = proc[q],
           ~deployment.administered => proc'[p].pc # "all",
           proc'[p].pc = "out" => proc'[p].got = {},
           \A i \in Parameter, v \in 0 .. MaxVersion :
              /\ <<i, v>> \in proc'[p].got => v <= source'
              /\ <<i, v>> \in pool' \ pool => v <= source',
           ~deployment.administered =>
              /\ Updating(p)' =>
                   \A i \in Parameter, v, w \in 0 .. MaxVersion :
                      <<i, v>> \in proc'[p].got /\ <<i, w>> \in pool' => w <= v
              /\ \A q \in Proc \ {p} : Updating(q) => pool' \subseteq pool
    PROVE  NotOvertaken'
  <1>1. /\ Parameter' = Parameter /\ deployment' = deployment /\ MaxVersion \in Nat
        /\ source \in 0 .. MaxVersion
    BY UpdaterConstantsAreValid DEF Parameter, PUTypeOK
  <1>2. ASSUME NEW i \in Parameter, NEW v \in 0 .. MaxVersion
        PROVE  /\ <<i, v>> \in pool' => v <= source'
               /\ \A q \in Proc : <<i, v>> \in proc'[q].got => v <= source'
    BY <1>1, <1>2 DEF NotOvertaken
  <1>3. ASSUME ~deployment.administered, NEW q \in Proc
        PROVE  /\ proc'[q].pc # "all"
               /\ Updating(q)' =>
                     \A i \in Parameter, v, w \in 0 .. MaxVersion :
                        <<i, v>> \in proc'[q].got /\ <<i, w>> \in pool' => w <= v
    <2>1. CASE q = p
      BY <1>3, <2>1
    <2>2. CASE q # p
      <3>1. proc'[q] = proc[q] /\ (Updating(q)' <=> Updating(q))
        BY <2>2 DEF Updating
      <3> QED
        BY <1>3, <2>2, <3>1 DEF NotOvertaken
    <2> QED
      BY <2>1, <2>2
  <1>4. ASSUME NEW q \in Proc PROVE proc'[q].pc = "out" => proc'[q].got = {}
    BY <1>4 DEF NotOvertaken
  <1> QED
    BY <1>1, <1>2, <1>3, <1>4 DEF NotOvertaken

\* What a holder of the lock has fetched is inductive beside the lock.
THEOREM NotOvertakenInductive ==
    ASSUME ~SlowFetch
    PROVE  PUSpec => [](PUTypeOK /\ OnlyHolderUpdates /\ NotOvertaken)
  <1>1. PUInit => NotOvertaken
    BY DEF PUInit, NotOvertaken, Fresh, Updating
  <1>2. PUTypeOK /\ OnlyHolderUpdates /\ NotOvertaken /\ [PUNext]_pvars => NotOvertaken'
    <2> SUFFICES ASSUME PUTypeOK, OnlyHolderUpdates, NotOvertaken, [PUNext]_pvars
                 PROVE  NotOvertaken'
      OBVIOUS
    <2>0. /\ proc \in [Proc -> Procs] /\ source \in 0 .. MaxVersion /\ MaxVersion \in Nat
          /\ pool \subseteq Keys
      BY UpdaterConstantsAreValid DEF PUTypeOK, Procs
    <2>1. ASSUME NEW p \in Proc, Steps(p) PROVE NotOvertaken'
      <3>0. /\ UNCHANGED <<deployment, source>> /\ \A q \in Proc \ {p} : proc'[q] = proc[q]
            /\ source' \in 0 .. MaxVersion /\ source <= source'
        <4>1. UNCHANGED <<deployment, source>>
          BY <2>1 DEF Steps, TryRefresh, RefreshAll, Fetch, FetchFails, Apply, Restart,
                      MemoExpires
        <4> QED
          BY <2>0, <2>1, <4>1, OthersUntouched
      <3>1. CASE TryRefresh(p)
        <4>1. /\ pool' = pool /\ proc'[p].got = {} /\ proc'[p].pc \in {"out", "refresh"}
          BY <2>0, <3>1 DEF TryRefresh, Procs, NotOvertaken
        <4> QED
          BY <3>0, <4>1, OvertakesNobody
      <3>2. CASE RefreshAll(p)
        <4>1. deployment.administered /\ pool' = {} /\ proc'[p].got = {}
          BY <2>0, <3>2 DEF RefreshAll, Procs, NotOvertaken
        <4> QED
          BY <3>0, <4>1, OvertakesNobody
      <3>3. CASE MemoExpires(p)
        <4>1. pool' = pool /\ proc'[p].got = proc[p].got /\ proc'[p].pc = proc[p].pc
          BY <2>0, <3>3 DEF MemoExpires, Procs
        <4>2. Updating(p)' <=> Updating(p)
          BY <4>1 DEF Updating
        <4> QED
          BY <3>0, <4>1, <4>2, OvertakesNobody DEF NotOvertaken
      <3>4. CASE Fetch(p)
        <4>1. PICK new \in {{}, {<<proc[p].index, source>>}} :
                 proc' = [proc EXCEPT ![p].todo  = @ - 1,
                                      ![p].got   = @ \cup new,
                                      ![p].index = (@ + 1) % deployment.params]
          BY <3>4 DEF Fetch
        <4>2. /\ pool' = pool /\ proc'[p].got = proc[p].got \cup new
              /\ proc'[p].pc = proc[p].pc /\ proc[p].pc # "out"
          BY <2>0, <3>4, <4>1 DEF Fetch, Procs
        <4>3. \A i, v : <<i, v>> \in proc'[p].got => <<i, v>> \in proc[p].got \/ v = source
          BY <4>1, <4>2
        <4>4. \A i \in Parameter, w \in 0 .. MaxVersion : <<i, w>> \in pool => w <= source
          BY DEF NotOvertaken
        <4>5. Updating(p)' <=> Updating(p)
          BY <4>2 DEF Updating
        <4>6. \A i \in Parameter, v \in 0 .. MaxVersion :
                 <<i, v>> \in proc'[p].got => v <= source'
          BY <2>0, <3>0, <4>3 DEF NotOvertaken
        <4>7. ~deployment.administered /\ Updating(p)' =>
                 \A i \in Parameter, v, w \in 0 .. MaxVersion :
                    <<i, v>> \in proc'[p].got /\ <<i, w>> \in pool' => w <= v
          BY <2>0, <4>2, <4>3, <4>4, <4>5 DEF NotOvertaken
        <4>8. ~deployment.administered => proc'[p].pc # "all"
          BY <4>2 DEF NotOvertaken
        <4> QED
          BY <3>0, <4>2, <4>6, <4>7, <4>8, OvertakesNobody
      <3>5. CASE FetchFails(p) \/ Restart(p)
        <4>1. pool' = pool /\ proc'[p].pc = "out" /\ proc'[p].got = {}
          BY <3>5, LeavesFresh DEF FetchFails, Restart
        <4> QED
          BY <3>0, <4>1, OvertakesNobody
      <3>6. CASE Apply(p)
        <4>1. /\ pool' \subseteq pool \cup proc[p].got
              /\ proc'[p].pc = "out" /\ proc'[p].got = {} /\ proc[p].pc # "out"
          BY <3>6, LeavesFresh DEF Apply
        <4>2. ASSUME ~deployment.administered, NEW q \in Proc \ {p}, Updating(q)
              PROVE  FALSE
          <5>1. Updating(p)
            BY <2>0, <4>1, <4>2 DEF NotOvertaken, Updating, Procs
          <5> QED
            BY <4>2, <5>1 DEF OnlyHolderUpdates
        <4>3. \A i \in Parameter, v \in 0 .. MaxVersion :
                 <<i, v>> \in pool' \ pool => v <= source'
          BY <3>0, <4>1 DEF NotOvertaken
        <4>4. ~Updating(p)'
          BY <4>1 DEF Updating
        <4> QED
          BY <3>0, <4>1, <4>2, <4>3, <4>4, OvertakesNobody
      <3> QED
        BY <2>1, <3>1, <3>2, <3>3, <3>4, <3>5, <3>6 DEF Steps
    <2>2. ASSUME UNCHANGED <<deployment, proc>>, pool' \subseteq pool, source' \in Nat,
                 source <= source'
          PROVE  NotOvertaken'
      <3>1. Parameter' = Parameter
        BY <2>2 DEF Parameter
      <3>2. \A i \in Parameter, v \in 0 .. MaxVersion :
               /\ <<i, v>> \in pool' => v <= source'
               /\ \A p \in Proc : <<i, v>> \in proc'[p].got => v <= source'
        <4> SUFFICES ASSUME NEW i \in Parameter, NEW v \in 0 .. MaxVersion
                     PROVE  /\ <<i, v>> \in pool' => v <= source'
                            /\ \A p \in Proc : <<i, v>> \in proc'[p].got => v <= source'
          OBVIOUS
        <4>1. /\ <<i, v>> \in pool => v <= source
              /\ \A p \in Proc : <<i, v>> \in proc[p].got => v <= source
          BY DEF NotOvertaken
        <4>2. v <= source => v <= source'
          BY <2>0, <2>2
        <4> QED
          BY <2>2, <4>1, <4>2
      <3> QED
        BY <2>2, <3>1, <3>2 DEF NotOvertaken, Updating
    <2>3. CASE UpdateLockExpires \/ MemberExpires \/ SourceChanges \/ UNCHANGED pvars
      BY <2>0, <2>2, <2>3 DEF UpdateLockExpires, MemberExpires, SourceChanges, pvars
    <2> QED
      BY <2>1, <2>3 DEF PUNext, Steps
  <1> QED
    BY <1>1, <1>2, HolderInductive, StepTyped, PTL DEF PUSpec

\* While fetches end within update_interval and where nobody calls refresh_pool_all,
\* fetch and assign of one process are not overtaken by another's: a refresh brings
\* back no older keys of a parameter than the pool has.
THEOREM NoRefreshIsStale ==
    ASSUME ~SlowFetch
    PROVE  PUSpec => NoStaleRefresh
  <1>1. ASSUME PUTypeOK, NotOvertaken, NEW p \in Proc, Apply(p), ~deployment.administered,
               NEW i \in Parameter, NEW v \in Versions(proc[p].got, i),
               NEW w \in Versions(pool, i)
        PROVE  w <= v
    <2>1. Updating(p)
      BY <1>1 DEF Apply, Updating, NotOvertaken, PUTypeOK
    <2> QED
      BY <1>1, <2>1 DEF NotOvertaken, Versions
  <1>2. PUTypeOK /\ NotOvertaken =>
           [\A p \in Proc : Apply(p) /\ ~deployment.administered =>
              \A i \in Parameter :
                 \A v \in Versions(proc[p].got, i), w \in Versions(pool, i) : w <= v]_pvars
    BY <1>1
  <1> QED
    BY <1>2, NotOvertakenInductive, PTL DEF PUSpec, NoStaleRefresh
=============================================================================
