--------------------------- MODULE ThreadHealthProofs ---------------------------
(* What health_check counts, for any number of threads and idents.         *)
EXTENDS ThreadHealth, TLAPS

\* Threads of one process that renew in time.
InTime == Late = {} /\ ~Collide

Stages == {"off", "renewed", "running", "withdrawn"}

HealthTyped ==
    /\ members \subseteq Id /\ locked \subseteq Id /\ left \subseteq Id
    /\ thread \in [Thread -> [at : Stages, id : Id]]
    /\ listing \in [open : BOOLEAN, keys : SUBSET Id]
    /\ due \in [Thread -> {"no", "registered", "listed"}]

\* No two living threads have the same ident.
IdentsDistinct ==
    \A t, u \in Thread : t # u /\ ~At(t, "off") /\ ~At(u, "off") => thread[t].id # thread[u].id

\* From initialize to finalize a thread's ident is locked.
LivingLocked ==
    \A t \in Thread : At(t, "renewed") \/ At(t, "running") => thread[t].id \in locked

\* A registered thread is in the Set, and one registered since before the listing
\* in the listing too.
RegisteredListed ==
    \A t \in Thread : due[t] # "no" =>
        /\ At(t, "running") /\ thread[t].id \in members
        /\ due[t] = "listed" => listing.open /\ thread[t].id \in listing.keys

Runs(i) == \E t \in Thread : At(t, "running") /\ thread[t].id = i

\* Idents in the Set or in a listing belong to a running thread or were left there.
LeftOrRunning ==
    /\ \A i \in members : i \in left \/ Runs(i)
    /\ listing.open => \A i \in listing.keys : i \in left \/ Runs(i)

\* The inductive invariant.
HInv == HealthTyped /\ IdentsDistinct /\ LivingLocked /\ RegisteredListed /\ LeftOrRunning

\* No thread has started.
LEMMA HealthInit == THInit => HInv
  <1> SUFFICES ASSUME THInit PROVE HInv
    OBVIOUS
  <1>1. /\ thread \in [Thread -> [at : {"off"}, id : Id]]
        /\ members = {} /\ locked = {} /\ left = {}
        /\ listing = [open |-> FALSE, keys |-> {}]
        /\ due = [t \in Thread |-> "no"]
    BY DEF THInit, PoolInit
  <1>2. HealthTyped
    BY <1>1 DEF HealthTyped, Stages
  <1> QED
    BY <1>1, <1>2 DEF HInv, IdentsDistinct, LivingLocked, RegisteredListed, LeftOrRunning, At

\* What a thread's move to another stage leaves: its ident and the other threads.
LEMMA GoToFacts ==
    ASSUME HealthTyped, NEW t \in Thread, NEW stage \in Stages, GoTo(t, stage)
    PROVE  /\ thread' \in [Thread -> [at : Stages, id : Id]]
           /\ thread'[t].at = stage /\ thread[t].id \in Id
           /\ \A u \in Thread : thread'[u].id = thread[u].id
           /\ \A u \in Thread \ {t} : thread'[u].at = thread[u].at
  BY DEF HealthTyped, GoTo

\* initialize locks an ident no living thread has.
LEMMA StartKeeps ==
    ASSUME HInv, InTime, NEW t \in Thread, Start(t)
    PROVE  HInv'
  <1>0. HealthTyped /\ due[t] = "no"
    BY DEF HInv, RegisteredListed, Start, At, HealthTyped
  <1>1. PICK i \in Id : /\ \A u \in Thread : At(u, "off") \/ thread[u].id # i
                        /\ locked' = locked \cup {i}
                        /\ thread' = [thread EXCEPT ![t] = [at |-> "renewed", id |-> i]]
    BY DEF Start, InTime, InUse, Update
  <1>2. UNCHANGED <<members, listing, verdict, due, left>> /\ At(t, "off")
    BY DEF Start, Update, Monitor
  <1>3. /\ thread' \in [Thread -> [at : Stages, id : Id]]
        /\ thread'[t].at = "renewed" /\ thread'[t].id = i
        /\ \A u \in Thread \ {t} : thread'[u] = thread[u]
    BY <1>0, <1>1 DEF HealthTyped, Stages
  <1>4. HealthTyped'
    BY <1>0, <1>1, <1>2, <1>3 DEF HealthTyped
  <1>5. IdentsDistinct'
    BY <1>1, <1>2, <1>3 DEF HInv, IdentsDistinct, At
  <1>6. LivingLocked'
    BY <1>1, <1>3 DEF HInv, LivingLocked, At
  <1>7. RegisteredListed'
    BY <1>0, <1>2, <1>3 DEF HInv, RegisteredListed, At
  <1>8. LeftOrRunning'
    <2>1. ASSUME NEW x, Runs(x) PROVE Runs(x)'
      BY <1>2, <1>3, <2>1 DEF Runs, At
    <2> QED
      BY <1>2, <2>1 DEF HInv, LeftOrRunning
  <1> QED
    BY <1>4, <1>5, <1>6, <1>7, <1>8 DEF HInv

\* Its ident is in the Set as long as it runs.
LEMMA RegisterKeeps ==
    ASSUME HInv, NEW t \in Thread, Register(t)
    PROVE  HInv'
  <1>0. HealthTyped /\ "running" \in Stages
    BY DEF HInv, Stages
  <1>1. /\ members' = members \cup {thread[t].id} /\ UNCHANGED <<locked, listing>>
        /\ left' = left \ {thread[t].id}
        /\ due' = [due EXCEPT ![t] = IF @ = "no" THEN "registered" ELSE @]
        /\ GoTo(t, "running") /\ (At(t, "renewed") \/ At(t, "running"))
    BY DEF Register, Extend, Monitor
  <1>2. /\ thread' \in [Thread -> [at : Stages, id : Id]]
        /\ thread'[t].at = "running" /\ thread[t].id \in Id
        /\ \A u \in Thread : thread'[u].id = thread[u].id
        /\ \A u \in Thread \ {t} : thread'[u].at = thread[u].at
    BY <1>0, <1>1, GoToFacts
  <1>3. HealthTyped'
    BY <1>0, <1>1, <1>2 DEF HealthTyped
  <1>4. IdentsDistinct' /\ LivingLocked'
    BY <1>1, <1>2 DEF HInv, IdentsDistinct, LivingLocked, At
  <1>5. RegisteredListed'
    <2> SUFFICES ASSUME NEW u \in Thread, due'[u] # "no"
                 PROVE  /\ At(u, "running")' /\ thread'[u].id \in members'
                        /\ due'[u] = "listed" => listing'.open /\ thread'[u].id \in listing'.keys
      BY DEF RegisteredListed
    <2>1. CASE u = t
      <3>1. due'[t] = "listed" => due[t] = "listed"
        BY <1>0, <1>1 DEF HealthTyped
      <3> QED
        BY <1>1, <1>2, <2>1, <3>1 DEF HInv, RegisteredListed, At
    <2>2. CASE u # t
      <3>1. due'[u] = due[u]
        BY <1>0, <1>1, <2>2 DEF HealthTyped
      <3> QED
        BY <1>1, <1>2, <2>2, <3>1 DEF HInv, RegisteredListed, At
    <2> QED
      BY <2>1, <2>2
  <1>6. \A x : x = thread[t].id \/ Runs(x) => Runs(x)'
    BY <1>2 DEF Runs, At
  <1>7. LeftOrRunning'
    BY <1>1, <1>6 DEF HInv, LeftOrRunning
  <1> QED
    BY <1>3, <1>4, <1>5, <1>7 DEF HInv

\* finalize takes the ident out of the Set; a listing that is open may have it.
LEMMA WithdrawKeeps ==
    ASSUME HInv, NEW t \in Thread, Withdraw(t)
    PROVE  HInv'
  <1>0. HealthTyped /\ "withdrawn" \in Stages
    BY DEF HInv, Stages
  <1>1. /\ members' = members \ {thread[t].id} /\ UNCHANGED <<locked, listing>>
        /\ left' = IF listing.open THEN left \cup {thread[t].id} ELSE left
        /\ due' = [due EXCEPT ![t] = "no"]
        /\ GoTo(t, "withdrawn") /\ At(t, "running")
    BY DEF Withdraw, Shrink, Monitor
  <1>2. /\ thread' \in [Thread -> [at : Stages, id : Id]]
        /\ thread'[t].at = "withdrawn" /\ thread[t].id \in Id
        /\ \A u \in Thread : thread'[u].id = thread[u].id
        /\ \A u \in Thread \ {t} : thread'[u].at = thread[u].at
    BY <1>0, <1>1, GoToFacts
  <1>3. HealthTyped'
    BY <1>0, <1>1, <1>2 DEF HealthTyped
  <1>4. IdentsDistinct' /\ LivingLocked'
    BY <1>1, <1>2 DEF HInv, IdentsDistinct, LivingLocked, At
  <1>5. RegisteredListed'
    <2> SUFFICES ASSUME NEW u \in Thread, due'[u] # "no"
                 PROVE  /\ At(u, "running")' /\ thread'[u].id \in members'
                        /\ due'[u] = "listed" => listing'.open /\ thread'[u].id \in listing'.keys
      BY DEF RegisteredListed
    <2>1. u # t /\ due'[u] = due[u]
      BY <1>0, <1>1 DEF HealthTyped
    <2>2. At(u, "running") /\ thread[u].id # thread[t].id
      BY <1>1, <2>1 DEF HInv, RegisteredListed, IdentsDistinct, At
    <2> QED
      BY <1>1, <1>2, <2>1, <2>2 DEF HInv, RegisteredListed, At
  <1>6. \A x : x # thread[t].id /\ Runs(x) => Runs(x)'
    BY <1>2 DEF Runs, At
  <1>7. LeftOrRunning'
    BY <1>1, <1>6 DEF HInv, LeftOrRunning
  <1> QED
    BY <1>3, <1>4, <1>5, <1>7 DEF HInv

\* The lock of a thread that has withdrawn is nobody else's.
LEMMA FinishKeeps ==
    ASSUME HInv, NEW t \in Thread, Finish(t)
    PROVE  HInv'
  <1>0. HealthTyped /\ "off" \in Stages
    BY DEF HInv, Stages
  <1>1. /\ locked' = locked \ {thread[t].id} /\ UNCHANGED <<members, listing, due, left>>
        /\ GoTo(t, "off") /\ At(t, "withdrawn")
    BY DEF Finish, Unlock, Monitor
  <1>2. /\ thread' \in [Thread -> [at : Stages, id : Id]]
        /\ thread'[t].at = "off" /\ thread[t].id \in Id
        /\ \A u \in Thread : thread'[u].id = thread[u].id
        /\ \A u \in Thread \ {t} : thread'[u].at = thread[u].at
    BY <1>0, <1>1, GoToFacts
  <1>3. HealthTyped'
    BY <1>0, <1>1, <1>2 DEF HealthTyped
  <1>4. IdentsDistinct'
    BY <1>2 DEF HInv, IdentsDistinct, At
  <1>5. LivingLocked'
    BY <1>1, <1>2 DEF HInv, IdentsDistinct, LivingLocked, At
  <1>6. RegisteredListed'
    BY <1>1, <1>2 DEF HInv, RegisteredListed, At
  <1>7. \A x : Runs(x) => Runs(x)'
    BY <1>1, <1>2 DEF Runs, At
  <1>8. LeftOrRunning'
    BY <1>1, <1>7 DEF HInv, LeftOrRunning
  <1> QED
    BY <1>3, <1>4, <1>5, <1>6, <1>8 DEF HInv

\* A thread that dies leaves its ident.
LEMMA CrashKeeps ==
    ASSUME HInv, NEW t \in Thread, Crash(t)
    PROVE  HInv'
  <1>0. HealthTyped /\ "off" \in Stages
    BY DEF HInv, Stages
  <1>1. /\ UNCHANGED <<members, locked, listing>> /\ GoTo(t, "off")
        /\ due' = [due EXCEPT ![t] = "no"] /\ left' = left \cup {thread[t].id}
    BY DEF Crash, Monitor, poolvars
  <1>2. /\ thread' \in [Thread -> [at : Stages, id : Id]]
        /\ thread'[t].at = "off" /\ thread[t].id \in Id
        /\ \A u \in Thread : thread'[u].id = thread[u].id
        /\ \A u \in Thread \ {t} : thread'[u].at = thread[u].at
    BY <1>0, <1>1, GoToFacts
  <1>3. HealthTyped'
    BY <1>0, <1>1, <1>2 DEF HealthTyped
  <1>4. IdentsDistinct' /\ LivingLocked'
    BY <1>1, <1>2 DEF HInv, IdentsDistinct, LivingLocked, At
  <1>5. RegisteredListed'
    BY <1>0, <1>1, <1>2 DEF HInv, HealthTyped, RegisteredListed, At
  <1>6. \A x : x # thread[t].id /\ Runs(x) => Runs(x)'
    BY <1>2 DEF Runs, At
  <1>7. LeftOrRunning'
    BY <1>1, <1>6 DEF HInv, LeftOrRunning
  <1> QED
    BY <1>3, <1>4, <1>5, <1>7 DEF HInv

\* Threads renew in time, so only the lock of an ident without a thread runs out.
LEMMA LocksChangeKeeps ==
    ASSUME HInv, InTime,
           (\E t \in Thread : Renew(t)) \/ (\E i \in Id : LockExpires(i))
    PROVE  HInv'
  <1>1. /\ UNCHANGED <<members, thread, listing, due, left>>
        /\ locked' \subseteq Id
        /\ \A t \in Thread : ~At(t, "off") /\ thread[t].id \in locked => thread[t].id \in locked'
    BY DEF HInv, HealthTyped, Renew, Update, LockExpires, Expires, Unlock, InTime, Monitor
  <1>2. HealthTyped'
    BY <1>1 DEF HInv, HealthTyped
  <1>3. LivingLocked'
    BY <1>1 DEF HInv, LivingLocked, At
  <1>4. IdentsDistinct' /\ RegisteredListed' /\ LeftOrRunning'
    BY <1>1 DEF HInv, IdentsDistinct, RegisteredListed, LeftOrRunning, Runs, At
  <1> QED
    BY <1>2, <1>3, <1>4 DEF HInv

\* The monitor only reads; the registered threads are in what it lists.
LEMMA MonitorKeeps ==
    ASSUME HInv, ListKeys \/ Count
    PROVE  HInv'
  <1>0. HealthTyped /\ UNCHANGED <<members, locked, thread, left>>
    BY DEF HInv, ListKeys, Count, poolvars
  <1>1. IdentsDistinct' /\ LivingLocked'
    BY <1>0 DEF HInv, IdentsDistinct, LivingLocked, At
  <1>2. CASE ListKeys
    <2>1. /\ listing.open = FALSE /\ listing' = [open |-> TRUE, keys |-> members]
          /\ due' = [t \in Thread |-> IF due[t] = "registered" THEN "listed" ELSE due[t]]
      BY <1>0, <1>2 DEF ListKeys, Keys, HealthTyped
    <2>2. HealthTyped'
      BY <1>0, <2>1 DEF HealthTyped
    <2>3. RegisteredListed'
      BY <1>0, <2>1 DEF HInv, RegisteredListed, At
    <2>4. LeftOrRunning'
      BY <1>0, <2>1 DEF HInv, LeftOrRunning, Runs, At
    <2> QED
      BY <1>1, <2>2, <2>3, <2>4 DEF HInv
  <1>3. CASE Count
    <2>1. /\ listing' = [open |-> FALSE, keys |-> {}]
          /\ due' = [t \in Thread |-> IF due[t] = "listed" THEN "registered" ELSE due[t]]
      BY <1>3 DEF Count
    <2>2. HealthTyped'
      BY <1>0, <2>1 DEF HealthTyped
    <2>3. RegisteredListed'
      BY <1>0, <2>1 DEF HInv, RegisteredListed, At
    <2>4. LeftOrRunning'
      BY <1>0, <2>1 DEF HInv, LeftOrRunning, Runs, At
    <2> QED
      BY <1>1, <2>2, <2>3, <2>4 DEF HInv
  <1> QED
    BY <1>2, <1>3

\* Whoever changes the Set leaves the idents no thread runs with.
LEMMA AdministerKeeps ==
    ASSUME HInv, Administer
    PROVE  HInv'
  <1>1. /\ UNCHANGED <<locked, thread, listing>> /\ members' \subseteq Id
        /\ due' = [t \in Thread |-> IF thread[t].id \in members' THEN due[t] ELSE "no"]
        /\ left' = left \cup {i \in members' : \A t \in Thread : thread[t].id = i => ~At(t, "running")}
    BY DEF Administer, Clear, Assign, Monitor
  <1>2. HealthTyped'
    BY <1>1 DEF HInv, HealthTyped
  <1>3. IdentsDistinct' /\ LivingLocked'
    BY <1>1 DEF HInv, IdentsDistinct, LivingLocked, At
  <1>4. RegisteredListed'
    BY <1>1 DEF HInv, RegisteredListed, At
  <1>5. LeftOrRunning'
    BY <1>1 DEF HInv, LeftOrRunning, Runs, At
  <1> QED
    BY <1>2, <1>3, <1>4, <1>5 DEF HInv

\* Whatever threads, clock, monitor and administrator do.
LEMMA HealthNext ==
    ASSUME HInv, InTime, [THNext]_thvars
    PROVE  HInv'
  <1>1. CASE UNCHANGED thvars
    BY <1>1 DEF thvars, poolvars, HInv, HealthTyped, IdentsDistinct, LivingLocked,
                RegisteredListed, LeftOrRunning, Runs, At
  <1>2. CASE THNext
    BY <1>2, StartKeeps, RegisterKeeps, WithdrawKeeps, FinishKeeps, CrashKeeps,
       LocksChangeKeeps, MonitorKeeps, AdministerKeeps DEF THNext
  <1> QED
    BY <1>1, <1>2

\* HInv is inductive for threads of one process that renew in time.
THEOREM HealthInductive ==
    ASSUME InTime
    PROVE  THSpec => []HInv
  <1>1. THInit => HInv
    BY HealthInit
  <1>2. HInv /\ [THNext]_thvars => HInv'
    BY HealthNext
  <1> QED
    BY <1>1, <1>2, PTL DEF THSpec

\* health_check never reports a thread as free that runs since before its first
\* command, although the locks are read after the Set.
THEOREM RunningCounted ==
    ASSUME InTime
    PROVE  THSpec => RunningCountsAsLocked
  <1>1. HInv /\ [THNext]_thvars =>
           [Count => \A t \in Thread : due[t] = "listed" => thread[t].id \in verdict'.locked]_thvars
    <2> SUFFICES ASSUME HInv, Count, NEW t \in Thread, due[t] = "listed"
                 PROVE  thread[t].id \in verdict'.locked
      OBVIOUS
    <2>1. thread[t].id \in listing.keys \cap locked
      BY DEF HInv, RegisteredListed, LivingLocked
    <2> QED
      BY <2>1 DEF Count, LockedOf
  <1> QED
    BY <1>1, HealthInductive, PTL DEF THSpec, RunningCountsAsLocked

\* Whatever it reports as free was left by a crash, by an end under its listing or
\* by an administrator.
THEOREM CleanEnds ==
    ASSUME InTime
    PROVE  THSpec => CleanEndsLeaveNothing
  <1>1. HInv /\ [THNext]_thvars => [Count => verdict'.free \subseteq left]_thvars
    <2> SUFFICES ASSUME HInv, Count, NEW i \in verdict'.free
                 PROVE  i \in left
      OBVIOUS
    <2>1. listing.open /\ i \in listing.keys /\ i \notin locked
      BY DEF Count, LockedOf
    <2>2. i \in left \/ Runs(i)
      BY <2>1 DEF HInv, LeftOrRunning
    <2> QED
      BY <2>1, <2>2 DEF HInv, LivingLocked, Runs
  <1> QED
    BY <1>1, HealthInductive, PTL DEF THSpec, CleanEndsLeaveNothing
=============================================================================
