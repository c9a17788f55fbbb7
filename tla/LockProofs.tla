------------------------------- MODULE LockProofs -------------------------------
(* RedisLock keeps its word to callers that release in time.               *)
EXTENDS LockClients, TLAPS

\* What the lock's callers keep to: no update or unlock once their time is up, and
\* new time from one more rlock only if the lock's rlock renews.  RedisLock's does
\* not.
InTime == Late = {} /\ Hopeful = Renews

\* Owners do not undercount either: the owner of the key counts with its TTL.
OwnerCounts == value # Nil => due[value] = ttl

LCInv == DueTypeOK /\ PromisesKept /\ OwnerCounts

\* The initial state: no key, and nobody believes to own it.
LEMMA LCInitInv == LCInit => LCInv
  BY LockConstantsAreValid
  DEF LCInit, LockInit, LCInv, DueTypeOK, LockTypeOK, Results, PromisesKept, OwnerCounts

\* Any call that gives the key to an owner for n ticks, or leaves it alone,
\* keeps the types.
LEMMA GiveTyped ==
    ASSUME NEW v \in Owner, NEW n \in Timeouts, Give(v, n), v # Nil
    PROVE  value' = v /\ ttl' = n /\ n \in Nat /\ n > 0
  BY TimeoutsEnd, LockConstantsAreValid DEF Give

\* What a call returns is recorded for its caller.
LEMMA ReturnsTyped ==
    ASSUME LockTypeOK, NEW o \in Owner, NEW r \in {"none", "true", "false"}, Returns(o, r)
    PROVE  result' \in [Owner -> Results] /\ result'[o].answer = r
  BY DEF LockTypeOK, Returns, Results

\* Only the owner of a live value can still believe to own the key.
LEMMA OthersWait ==
    ASSUME LCInv, NEW o \in Owner, value \in {Nil, o}
    PROVE  \A p \in Owner \ {o} : due[p] = 0
  BY LockConstantsAreValid DEF LCInv, PromisesKept, DueTypeOK

\* The three things a call can do to the key: give it to the caller who trusts
\* the answer, take it from everybody, or leave it alone.  First: a call that
\* gives the key.
LEMMA GainKeeps ==
    ASSUME LCInv, NEW o \in Owner, NEW n \in Timeouts, NEW r \in {"none", "true"},
           value \in {Nil, o}, Give(o, n), Trusts(o, n), Returns(o, r)
    PROVE  LCInv'
  <1>1. n \in Nat /\ n > 0 /\ o # Nil
    BY TimeoutsEnd, LockConstantsAreValid
  <1>2. value' = o /\ ttl' = n /\ due' = [due EXCEPT ![o] = n]
    BY DEF Give, Trusts
  <1>3. LockTypeOK'
    <2>1. result' \in [Owner -> Results]
      BY ReturnsTyped DEF LCInv, DueTypeOK
    <2> QED
      BY <1>1, <1>2, <2>1 DEF LockTypeOK
  <1>4. due' \in [Owner -> Nat]
    BY <1>1, <1>2 DEF LCInv, DueTypeOK
  <1>5. PromisesKept'
    <2> SUFFICES ASSUME NEW p \in Owner, due'[p] > 0
                 PROVE  value' = p /\ ttl' >= due'[p]
      BY DEF PromisesKept
    <2>1. p = o
      BY <1>2, <1>4, OthersWait DEF LCInv, DueTypeOK
    <2> QED
      BY <1>1, <1>2, <2>1 DEF LCInv, DueTypeOK
  <1>6. OwnerCounts'
    BY <1>2 DEF OwnerCounts, LCInv, DueTypeOK
  <1> QED
    BY <1>3, <1>4, <1>5, <1>6 DEF LCInv, DueTypeOK

\* A call that deletes the key, made by its owner or when nobody had it.
LEMMA LossKeeps ==
    ASSUME LCInv, NEW o \in Owner, NEW r \in {"true", "false"},
           value \in {Nil, o}, Take, Trusts(o, 0), Returns(o, r)
    PROVE  LCInv'
  <1>1. value' = Nil /\ ttl' = -2 /\ due' = [due EXCEPT ![o] = 0]
    BY DEF Take, Trusts
  <1>2. LockTypeOK'
    <2>1. result' \in [Owner -> Results]
      BY ReturnsTyped DEF LCInv, DueTypeOK
    <2> QED
      BY <1>1, <2>1 DEF LockTypeOK
  <1>3. \A p \in Owner : due'[p] = 0
    BY <1>1, OthersWait DEF LCInv, DueTypeOK
  <1>4. due' \in [Owner -> Nat]
    BY <1>1 DEF LCInv, DueTypeOK
  <1> QED
    BY <1>1, <1>2, <1>3, <1>4 DEF LCInv, DueTypeOK, PromisesKept, OwnerCounts

\* A call that was refused.
LEMMA NothingKeeps ==
    ASSUME LCInv, NEW o \in Owner, NEW r \in {"true", "false"},
           Keep, due' = due \/ (Trusts(o, 0) /\ value \notin {Nil, o}), Returns(o, r)
    PROVE  LCInv'
  <1>1. value' = value /\ ttl' = ttl
    BY DEF Keep
  <1>2. LockTypeOK'
    <2>1. result' \in [Owner -> Results]
      BY ReturnsTyped DEF LCInv, DueTypeOK
    <2> QED
      BY <1>1, <2>1 DEF LockTypeOK, LCInv, DueTypeOK
  <1>3. /\ due' \in [Owner -> Nat]
        /\ \A p \in Owner : due'[p] > 0 => due'[p] = due[p]
        /\ \A p \in Owner : value = p => due'[p] = due[p]
    BY DEF LCInv, DueTypeOK, Trusts
  <1>4. OwnerCounts'
    BY <1>1, <1>3 DEF LCInv, DueTypeOK, LockTypeOK, OwnerCounts
  <1> QED
    BY <1>1, <1>2, <1>3, <1>4 DEF LCInv, DueTypeOK, PromisesKept

\* One tick takes as much from the TTL as from what the owner counts with.
LEMMA TickKeeps ==
    ASSUME LCInv, ClockTicks
    PROVE  LCInv'
  <1>1. /\ ttl > 0 /\ ttl \in Int /\ value \in Owner
        /\ due' = [o \in Owner |-> IF due[o] > 0 THEN due[o] - 1 ELSE 0]
        /\ result' = result
    BY LockConstantsAreValid DEF ClockTicks, Tick, LCInv, DueTypeOK, LockTypeOK
  <1>2. /\ due \in [Owner -> Nat] /\ due' \in [Owner -> Nat]
        /\ \A o \in Owner : due'[o] > 0 => due'[o] = due[o] - 1 /\ due[o] > 0
    BY <1>1 DEF LCInv, DueTypeOK
  <1>3. CASE ttl = 1
    <2>1. value' = Nil /\ ttl' = -2
      BY <1>3 DEF ClockTicks, Tick, Take
    <2>2. \A o \in Owner : due'[o] = 0
      <3> SUFFICES ASSUME NEW o \in Owner, due'[o] > 0 PROVE FALSE
        BY <1>2
      <3> QED
        BY <1>2, <1>3 DEF LCInv, PromisesKept
    <2> QED
      BY <1>1, <1>2, <2>1, <2>2 DEF LCInv, DueTypeOK, LockTypeOK, PromisesKept, OwnerCounts
  <1>4. CASE ttl # 1
    <2>1. value' = value /\ ttl' = ttl - 1
      BY <1>4 DEF ClockTicks, Tick, Give
    <2>2. LockTypeOK'
      BY <1>1, <1>4, <2>1, LockConstantsAreValid DEF LCInv, DueTypeOK, LockTypeOK
    <2>3. PromisesKept'
      <3> SUFFICES ASSUME NEW o \in Owner, due'[o] > 0
                   PROVE  value' = o /\ ttl' >= due'[o]
        BY DEF PromisesKept
      <3>1. value = o /\ ttl >= due[o]
        BY <1>2 DEF LCInv, PromisesKept
      <3> QED
        BY <1>1, <1>2, <2>1, <3>1
    <2>4. OwnerCounts'
      BY <1>1, <1>4, <2>1 DEF LCInv, DueTypeOK, LockTypeOK, OwnerCounts
    <2> QED
      BY <1>2, <2>2, <2>3, <2>4 DEF LCInv, DueTypeOK
  <1> QED
    BY <1>3, <1>4

-----------------------------------------------------------------------------

\* One step per call of the lock's interface.
LEMMA AcquireKeeps ==
    ASSUME LCInv, NEW o \in Owner, Acquire(o)
    PROVE  LCInv'
  <1>1. PICK n \in Timeouts : TryLock(o, n) /\ Believes(o, n)
    BY DEF Acquire
  <1>2. \/ value \in {Nil, o} /\ Give(o, n) /\ Returns(o, "true")
        \/ Keep /\ Returns(o, "false")
    BY <1>1 DEF TryLock
  <1>3. \A r \in {"true", "false"} : Returns(o, r) => result'[o].answer = r
    BY ReturnsTyped DEF LCInv, DueTypeOK
  <1>4. CASE value \in {Nil, o} /\ Give(o, n) /\ Returns(o, "true")
    BY <1>1, <1>3, <1>4, GainKeeps DEF Believes
  <1>5. CASE Keep /\ Returns(o, "false")
    BY <1>1, <1>3, <1>5, NothingKeeps DEF Believes
  <1> QED
    BY <1>2, <1>4, <1>5

\* rlock: a key that is not there is taken, one's own is kept with its TTL or, if
\* this lock's rlock renews, with a new one that the owner then counts with.
LEMMA ReacquireKeeps ==
    ASSUME InTime, LCInv, NEW o \in Owner, Reacquire(o)
    PROVE  LCInv'
  <1>1. PICK n \in Timeouts :
           /\ RLock(o, n)
           /\ IF due[o] > 0 /\ ~Hopeful THEN UNCHANGED due ELSE Believes(o, n)
    BY DEF Reacquire
  <1>2. \A r \in {"true", "false"} : Returns(o, r) => result'[o].answer = r
    BY ReturnsTyped DEF LCInv, DueTypeOK
  <1>3. CASE value = Nil
    <2>1. Give(o, n) /\ Returns(o, "true") /\ ~(due[o] > 0)
      BY <1>1, <1>3, LockConstantsAreValid DEF RLock, LCInv, PromisesKept
    <2> QED
      BY <1>1, <1>2, <1>3, <2>1, GainKeeps DEF Believes
  <1>4. CASE value = o /\ Renews
    <2>1. Give(o, n) /\ Returns(o, "true") /\ Hopeful
      BY <1>1, <1>4, LockConstantsAreValid DEF RLock, InTime
    <2> QED
      BY <1>1, <1>2, <1>4, <2>1, GainKeeps DEF Believes
  <1>5. CASE value = o /\ ~Renews
    <2>1. Keep /\ Returns(o, "true") /\ due[o] > 0 /\ ~Hopeful
      BY <1>1, <1>5, LockConstantsAreValid
      DEF RLock, InTime, LCInv, DueTypeOK, LockTypeOK, OwnerCounts
    <2> QED
      BY <1>1, <2>1, NothingKeeps
  <1>6. CASE value \notin {Nil, o}
    <2>1. Keep /\ Returns(o, "false")
      BY <1>1, <1>6 DEF RLock
    <2> QED
      BY <1>1, <1>2, <2>1, NothingKeeps DEF Believes
  <1> QED
    BY <1>3, <1>4, <1>5, <1>6

\* update, in time: the caller is the owner.
LEMMA ExtendKeeps ==
    ASSUME InTime, LCInv, NEW o \in Owner, Extend(o)
    PROVE  LCInv'
  <1>1. value = o
    BY DEF Extend, MayForce, InTime, LCInv, PromisesKept
  <1>2. PICK n \in Timeouts : Update(o, n) /\ Trusts(o, n)
    BY DEF Extend
  <1> QED
    BY <1>1, <1>2, GainKeeps DEF Update

\* unlock, in time: the caller is the owner.
LEMMA ReleaseKeeps ==
    ASSUME InTime, LCInv, NEW o \in Owner, Release(o)
    PROVE  LCInv'
  <1>1. value = o
    BY DEF Release, MayForce, InTime, LCInv, PromisesKept
  <1>2. Take /\ Trusts(o, 0) /\ \E r \in {"true", "false"} : Returns(o, r)
    BY DEF Release, Unlock
  <1> QED
    BY <1>1, <1>2, LossKeeps

\* seteq with the caller's own value: only the owner, or nobody's key.
LEMMA ExtendMineKeeps ==
    ASSUME LCInv, NEW o \in Owner, ExtendMine(o)
    PROVE  LCInv'
  <1>1. PICK n \in Timeouts : SetIf(o, "==", o, n) /\ Believes(o, n)
    BY DEF ExtendMine
  <1>2. \/ value \in {Nil, o} /\ Give(o, n) /\ Returns(o, "true")
        \/ Keep /\ Returns(o, "false")
    BY <1>1 DEF SetIf, Condition, Compare
  <1>3. \A r \in {"true", "false"} : Returns(o, r) => result'[o].answer = r
    BY ReturnsTyped DEF LCInv, DueTypeOK
  <1>4. CASE value \in {Nil, o} /\ Give(o, n) /\ Returns(o, "true")
    BY <1>1, <1>3, <1>4, GainKeeps DEF Believes
  <1>5. CASE Keep /\ Returns(o, "false")
    BY <1>1, <1>3, <1>5, NothingKeeps DEF Believes
  <1> QED
    BY <1>2, <1>4, <1>5

\* deleq with the caller's own value: only the owner, or nobody's key.
LEMMA ReleaseMineKeeps ==
    ASSUME LCInv, NEW o \in Owner, ReleaseMine(o)
    PROVE  LCInv'
  <1>1. \/ value \in {Nil, o} /\ Take /\ Returns(o, "true")
        \/ value \notin {Nil, o} /\ Keep /\ Returns(o, "false")
    BY DEF ReleaseMine, DelIf, Condition, Compare
  <1>2. Trusts(o, 0)
    BY DEF ReleaseMine
  <1> QED
    BY <1>1, <1>2, LossKeeps, NothingKeeps

-----------------------------------------------------------------------------

\* An owner that was told True by lock, rlock, update or seteq owns the key for
\* all the time it asked for, provided everybody calls in time; a further rlock of
\* RedisLock finds it the owner for the time it still had, and no longer.
THEOREM PromisesAlwaysKept ==
    ASSUME InTime
    PROVE  LCSpec => []PromisesKept
  <1>1. LCInv /\ [LCNext]_lcvars => LCInv'
    <2> SUFFICES ASSUME LCInv, [LCNext]_lcvars PROVE LCInv'
      OBVIOUS
    <2>1. CASE UNCHANGED lcvars
      BY <2>1 DEF lcvars, LCInv, DueTypeOK, LockTypeOK, PromisesKept, OwnerCounts
    <2>2. ASSUME NEW o \in Owner,
                 \/ Acquire(o) \/ Reacquire(o) \/ Extend(o) \/ Release(o)
                 \/ ExtendMine(o) \/ ReleaseMine(o)
          PROVE  LCInv'
      BY <2>2, AcquireKeeps, ReacquireKeeps, ExtendKeeps, ReleaseKeeps, ExtendMineKeeps, ReleaseMineKeeps
    <2>3. CASE ClockTicks
      BY <2>3, TickKeeps
    <2> QED
      BY <2>1, <2>2, <2>3 DEF LCNext
  <1>2. LCInv => PromisesKept
    BY DEF LCInv
  <1> QED
    BY <1>1, <1>2, LCInitInv, PTL DEF LCSpec
=================================================================================
