------------------------- MODULE RedisAllocatorProofs -------------------------
(* The safety of RedisAllocator's scripts, for any set of keys and names,  *)
(* both modes, every timeout and every batch.                              *)
EXTENDS RedisAllocator, FreeListProofs

\* The timeout a running malloc locks with is one its caller passed.
MallocLocks == script.op = "malloc" => script.ttl \in LockTtl

\* What the scripts keep, also beside callers who lock pool keys themselves.
SInv ==
    /\ TypeOK
    /\ ListWellFormed
    /\ ScriptConsistent
    /\ LuaAssertsHold
    /\ MallocLocks

\* The inductive invariant.
IInv == SInv /\ FreeKeysUnlocked

\* What a round of a script does: no locked key becomes free and no free key
\* locked, no key is left neither free nor locked, none joins the pool, no lock
\* goes, or only that of a key that joins.
FreedUnlocked    == \A x \in Free(pool)' : Locked(x)' => x \in Free(pool) /\ Locked(x)
NothingAbandoned == Abandoned' \subseteq Abandoned
NothingAdded     == Members(pool)' \subseteq Members(pool)
LocksStay        == \A x \in Key : Locked(x) => Locked(x)'
AddedUnlocked    == \A x \in Key : Locked(x) /\ ~Locked(x)' => x \in Members(pool)' \ Members(pool)

\* An empty Redis.
LEMMA InitIInv == Init => IInv
  <1> SUFFICES ASSUME Init PROVE IInv
    OBVIOUS
  <1>1. EmptyPool \in Pool /\ Members(EmptyPool) = {} /\ Free(EmptyPool) = {}
    BY DEF EmptyPool, Pool, Members, Free
  <1>2. TypeOK
    BY <1>1 DEF Init, TypeOK, NoScript, Scripts, Replies, Expiry, Ttl, Unbound
  <1>3. ListWellFormed
    BY <1>1 DEF Init, ListWellFormed, WellFormed, NoHalfAllocated, EndsAgree,
                LinksMutual, Acyclic, EmptyPool
  <1>4. FreeKeysUnlocked /\ ScriptConsistent /\ LuaAssertsHold /\ MallocLocks
    BY <1>1 DEF Init, FreeKeysUnlocked, ScriptConsistent, LuaAssertsHold, MallocLocks,
                NoScript
  <1> QED
    BY <1>2, <1>3, <1>4 DEF IInv, SInv

\* The pool `clear` leaves.
LEMMA EmptyPoolSound ==
    /\ EmptyPool \in Pool /\ Members(EmptyPool) = {} /\ Free(EmptyPool) = {}
    /\ WellFormed(EmptyPool)
  <1>1. EmptyPool \in Pool /\ Members(EmptyPool) = {} /\ Free(EmptyPool) = {}
    BY DEF EmptyPool, Pool, Members, Free
  <1> QED
    BY <1>1 DEF WellFormed, NoHalfAllocated, EndsAgree, LinksMutual, Acyclic, EmptyPool

\* A script that ends, whatever it returns, or goes on with a typed record.
LEMMA ReturnTyped ==
    ASSUME NEW key \in Key \cup {Nil}, NEW status \in {"ok", "error"}, Return(key, status)
    PROVE  /\ script' \in Scripts /\ script'.op = "idle"
           /\ reply' \in Replies /\ reply'.status # "assert" /\ reply'.key = key
  BY DEF Return, NoScript, Scripts, Replies, Ttl, Expiry

\* The same for a script that goes on unless it failed.
LEMMA ContinueTyped ==
    ASSUME SInv, NEW rest \in Scripts, NEW more \in BOOLEAN, Continue(TRUE, rest, more)
    PROVE  /\ script' \in Scripts
           /\ (script' = rest \/ script'.op = "idle")
           /\ reply' \in Replies /\ reply'.status # "assert"
  BY ReturnTyped DEF Continue, SInv, TypeOK, LuaAssertsHold

\* With the loops of gc and assign and the timeout of malloc out of play, what
\* remains of the invariant are types, the list and the reply.
LEMMA PlainStep ==
    ASSUME SInv, pool' \in Pool, WellFormed(pool'), lock' \in [Key -> Ttl],
           bind' \in [Name -> [to : Key \cup {Nil}, ttl : Ttl]], gcCursor' \in SUBSET Key,
           script' \in Scripts, script'.op \notin {"gc", "assign", "malloc"},
           reply' \in Replies, reply'.status # "assert"
    PROVE  SInv'
  BY DEF SInv, TypeOK, ListWellFormed, ScriptConsistent, LuaAssertsHold, MallocLocks

-----------------------------------------------------------------------------
\* One key of extend: a residual lock goes before the key becomes free.
LEMMA ExtendOneKeeps ==
    ASSUME SInv, NEW k \in Key, NEW rest \in Scripts, rest.op = "extend",
           ExtendOne(k, rest)
    PROVE  /\ SInv' /\ FreedUnlocked /\ NothingAbandoned /\ AddedUnlocked
           /\ Members(pool) \subseteq Members(pool)'
  <1>0. /\ pool \in Pool /\ WellFormed(pool) /\ rest.expiry \in Expiry
        /\ (rest.todo # {}) \in BOOLEAN
        /\ lock \in [Key -> Ttl] /\ gcCursor \in SUBSET Key
        /\ bind \in [Name -> [to : Key \cup {Nil}, ttl : Ttl]]
    BY DEF SInv, TypeOK, ListWellFormed, Scripts
  <1>1. CASE k \in Members(pool)
    <2> DEFINE q == HSet(pool, k, Node(pool.entry[k].prev, pool.entry[k].next, rest.expiry))
    <2>1. q \in Pool /\ WellFormed(q) /\ Free(q) = Free(pool) /\ Members(q) = Members(pool)
      BY <1>0, <1>1, RelabelKeeps
    <2>2. /\ pool' = q /\ UNCHANGED <<lock, bind, gcCursor>>
          /\ Continue(TRUE, rest, rest.todo # {})
      BY <1>1 DEF ExtendOne
    <2> HIDE DEF q
    <2>3. /\ script' \in Scripts /\ script'.op \notin {"gc", "assign", "malloc"}
          /\ reply' \in Replies /\ reply'.status # "assert"
      BY <1>0, <2>2, ContinueTyped
    <2>4. SInv'
      BY <1>0, <2>1, <2>2, <2>3, PlainStep
    <2> QED
      BY <2>1, <2>2, <2>4
      DEF FreedUnlocked, NothingAbandoned, Abandoned, AddedUnlocked, Locked
  <1>2. CASE k \notin Members(pool)
    <2> DEFINE r == PushToTail(pool, k, rest.expiry)
    <2>1. k \in Key \ Free(pool)
      BY <1>2 DEF Free
    <2>2. /\ r.ok /\ r.pool \in Pool /\ WellFormed(r.pool)
          /\ Free(r.pool) = Free(pool) \cup {k} /\ Members(r.pool) = Members(pool) \cup {k}
      BY <1>0, <2>1, PushToTailKeeps
    <2>3. /\ pool' = r.pool /\ lock' = [lock EXCEPT ![k] = "none"]
          /\ UNCHANGED <<bind, gcCursor>>
          /\ Continue(r.ok, rest, rest.todo # {})
      BY <1>2 DEF ExtendOne
    <2> HIDE DEF r
    <2>4. /\ script' \in Scripts /\ script'.op \notin {"gc", "assign", "malloc"}
          /\ reply' \in Replies /\ reply'.status # "assert"
      BY <1>0, <2>2, <2>3, ContinueTyped
    <2>5. /\ lock' \in [Key -> Ttl] /\ lock'[k] = "none"
          /\ \A x \in Key \ {k} : lock'[x] = lock[x]
      BY <1>0, <2>3 DEF Ttl
    <2>6. SInv'
      BY <1>0, <2>2, <2>3, <2>4, <2>5, PlainStep
    <2>7. Members(pool) \subseteq Key /\ Free(pool) \subseteq Members(pool)
      BY <1>0, PoolShape DEF Free
    <2> QED
      BY <1>2, <2>2, <2>3, <2>5, <2>6, <2>7
      DEF FreedUnlocked, NothingAbandoned, Abandoned, AddedUnlocked, Locked
  <1> QED
    BY <1>1, <1>2

\* One key of shrink.
LEMMA ShrinkOneKeeps ==
    ASSUME SInv, NEW k \in Key, NEW rest \in Scripts, rest.op = "shrink",
           ShrinkOne(k, rest)
    PROVE  SInv' /\ FreedUnlocked /\ NothingAbandoned /\ NothingAdded /\ LocksStay
  <1>0. /\ pool \in Pool /\ WellFormed(pool) /\ (rest.todo # {}) \in BOOLEAN
        /\ UNCHANGED <<lock, bind, gcCursor>>
        /\ lock \in [Key -> Ttl] /\ gcCursor \in SUBSET Key
        /\ bind \in [Name -> [to : Key \cup {Nil}, ttl : Ttl]]
    BY DEF SInv, TypeOK, ListWellFormed, ShrinkOne
  <1>1. /\ pool' \in Pool /\ WellFormed(pool')
        /\ Free(pool') = Free(pool) \ {k} \/ pool' = pool
        /\ Members(pool') = Members(pool) \ {k} \/ pool' = pool
        /\ Continue(TRUE, rest, rest.todo # {})
    <2>1. CASE k \in Members(pool)
      <3> DEFINE r == Evict(pool, k)
      <3>1. /\ r.ok /\ r.pool \in Pool /\ WellFormed(r.pool)
            /\ Free(r.pool) = Free(pool) \ {k} /\ Members(r.pool) = Members(pool) \ {k}
        BY <1>0, <2>1, EvictKeeps
      <3>2. pool' = r.pool /\ Continue(r.ok, rest, rest.todo # {})
        BY <2>1 DEF ShrinkOne
      <3> HIDE DEF r
      <3> QED
        BY <3>1, <3>2 DEF Continue
    <2>2. CASE k \notin Members(pool)
      BY <2>2, <1>0 DEF ShrinkOne
    <2> QED
      BY <2>1, <2>2
  <1>2. /\ script' \in Scripts /\ script'.op \notin {"gc", "assign", "malloc"}
        /\ reply' \in Replies /\ reply'.status # "assert"
    BY <1>0, <1>1, ContinueTyped
  <1>3. SInv'
    BY <1>0, <1>1, <1>2, PlainStep
  <1> QED
    BY <1>0, <1>1, <1>3
    DEF FreedUnlocked, NothingAbandoned, Abandoned, NothingAdded, LocksStay, Locked, Free

\* One round of assign: an eviction, an addition, or its end.
LEMMA AssignRoundKeeps ==
    ASSUME SInv, NEW s \in Scripts, s.op = "assign",
           s.todo \subseteq Members(pool), s.add \cap Members(pool) = {},
           AssignRound(s)
    PROVE  SInv' /\ FreedUnlocked /\ NothingAbandoned /\ AddedUnlocked
  <1>0. /\ pool \in Pool /\ WellFormed(pool) /\ s.expiry \in Expiry
        /\ s.todo \subseteq Key /\ s.add \subseteq Key
        /\ lock \in [Key -> Ttl] /\ gcCursor \in SUBSET Key
        /\ bind \in [Name -> [to : Key \cup {Nil}, ttl : Ttl]]
        /\ Members(pool) \subseteq Key /\ Free(pool) \subseteq Members(pool)
    BY PoolShape DEF SInv, TypeOK, ListWellFormed, Scripts, Free
  <1>1. ASSUME NEW k \in s.todo, AssignEvict(k, [s EXCEPT !.todo = @ \ {k}])
        PROVE  SInv' /\ FreedUnlocked /\ NothingAbandoned /\ AddedUnlocked
    <2> DEFINE r == Evict(pool, k)
               rest == [s EXCEPT !.todo = @ \ {k}]
    <2>1. /\ r.ok /\ r.pool \in Pool /\ WellFormed(r.pool)
          /\ Members(r.pool) = Members(pool) \ {k} /\ Free(r.pool) = Free(pool) \ {k}
      BY <1>0, EvictKeeps
    <2>2. /\ rest \in Scripts /\ rest.op = "assign"
          /\ rest.todo = s.todo \ {k} /\ rest.add = s.add
      BY DEF Scripts
    <2>3. /\ pool' = r.pool /\ UNCHANGED <<lock, bind, gcCursor>>
          /\ Continue(r.ok, rest, rest.todo # {} \/ rest.add # {})
      BY <1>1 DEF AssignEvict
    <2> HIDE DEF r, rest
    <2>4. Continue(TRUE, rest, rest.todo # {} \/ rest.add # {})
      BY <2>1, <2>3 DEF Continue
    <2>5. /\ script' \in Scripts /\ (script' = rest \/ script'.op = "idle")
          /\ reply' \in Replies /\ reply'.status # "assert"
      BY <2>2, <2>4, ContinueTyped
    <2>6. ScriptConsistent' /\ MallocLocks'
      BY <2>1, <2>2, <2>3, <2>5 DEF ScriptConsistent, MallocLocks
    <2>7. SInv'
      BY <1>0, <2>1, <2>3, <2>5, <2>6 DEF SInv, TypeOK, ListWellFormed, LuaAssertsHold
    <2> QED
      BY <2>1, <2>3, <2>7
      DEF FreedUnlocked, NothingAbandoned, Abandoned, AddedUnlocked, Locked
  <1>2. ASSUME s.todo = {}, NEW k \in s.add, AssignAdd(k, [s EXCEPT !.add = @ \ {k}])
        PROVE  SInv' /\ FreedUnlocked /\ NothingAbandoned /\ AddedUnlocked
    <2> DEFINE rest == [s EXCEPT !.add = @ \ {k}]
               r == PushToTail(pool, k, rest.expiry)
    <2>1. /\ rest \in Scripts /\ rest.op = "assign" /\ rest.expiry \in Expiry
          /\ rest.todo = {} /\ rest.add = s.add \ {k}
      BY <1>0, <1>2 DEF Scripts
    <2>2. k \in Key \ Free(pool) /\ k \notin Members(pool)
      BY <1>0
    <2> HIDE DEF rest
    <2>3. /\ r.ok /\ r.pool \in Pool /\ WellFormed(r.pool)
          /\ Members(r.pool) = Members(pool) \cup {k} /\ Free(r.pool) = Free(pool) \cup {k}
      BY <1>0, <2>1, <2>2, PushToTailKeeps
    <2>4. /\ pool' = r.pool /\ lock' = [lock EXCEPT ![k] = "none"]
          /\ UNCHANGED <<bind, gcCursor>>
          /\ Continue(r.ok, rest, rest.add # {})
      BY <1>2 DEF AssignAdd, rest
    <2> HIDE DEF r
    <2>5. Continue(TRUE, rest, rest.add # {})
      BY <2>3, <2>4 DEF Continue
    <2>6. /\ script' \in Scripts /\ (script' = rest \/ script'.op = "idle")
          /\ reply' \in Replies /\ reply'.status # "assert"
      BY <2>1, <2>5, ContinueTyped
    <2>7. ScriptConsistent' /\ MallocLocks'
      BY <2>1, <2>3, <2>4, <2>6 DEF ScriptConsistent, MallocLocks
    <2>8. /\ lock' \in [Key -> Ttl] /\ lock'[k] = "none"
          /\ \A x \in Key \ {k} : lock'[x] = lock[x]
      BY <1>0, <2>2, <2>4 DEF Ttl
    <2>9. SInv'
      BY <1>0, <2>3, <2>4, <2>6, <2>7, <2>8
      DEF SInv, TypeOK, ListWellFormed, LuaAssertsHold
    <2> QED
      BY <1>0, <2>2, <2>3, <2>4, <2>8, <2>9
      DEF FreedUnlocked, NothingAbandoned, Abandoned, AddedUnlocked, Locked
  <1>3. ASSUME Return(Nil, "ok"), UNCHANGED <<pool, lock, bind, gcCursor>>
        PROVE  SInv' /\ FreedUnlocked /\ NothingAbandoned /\ AddedUnlocked
    <2>1. /\ script' \in Scripts /\ script'.op = "idle"
          /\ reply' \in Replies /\ reply'.status # "assert"
      BY <1>3, ReturnTyped
    <2>2. SInv'
      BY <1>0, <1>3, <2>1, PlainStep
    <2> QED
      BY <1>3, <2>2
      DEF FreedUnlocked, NothingAbandoned, Abandoned, AddedUnlocked, Locked
  <1> QED
    BY <1>1, <1>2, <1>3 DEF AssignRound

\* One key of free: it is unlocked, and a key that is locked and not free meets
\* push_to_tail's assert.
LEMMA FreeOneKeeps ==
    ASSUME SInv, NEW k \in Key, NEW rest \in Scripts, rest.op = "free",
           Locked(k) => k \notin Free(pool), FreeOne(k, rest)
    PROVE  SInv' /\ FreedUnlocked /\ NothingAbandoned /\ NothingAdded
  <1> DEFINE back == Locked(k) /\ k \in Members(pool)
             r == IF back THEN PushToTail(pool, k, rest.expiry) ELSE Done(pool)
  <1>0. /\ pool \in Pool /\ WellFormed(pool) /\ rest.expiry \in Expiry
        /\ (rest.todo # {}) \in BOOLEAN
        /\ lock \in [Key -> Ttl] /\ gcCursor \in SUBSET Key
        /\ bind \in [Name -> [to : Key \cup {Nil}, ttl : Ttl]]
        /\ Members(pool) \subseteq Key /\ Free(pool) \subseteq Members(pool)
    BY PoolShape DEF SInv, TypeOK, ListWellFormed, Scripts, Free
  <1>1. /\ r.ok /\ r.pool \in Pool /\ WellFormed(r.pool) /\ Members(r.pool) = Members(pool)
        /\ Free(r.pool) = Free(pool) \cup (IF back THEN {k} ELSE {})
    <2>1. CASE back
      <3>1. k \in Key \ Free(pool)
        BY <2>1
      <3>2. /\ PushToTail(pool, k, rest.expiry).ok
            /\ PushToTail(pool, k, rest.expiry).pool \in Pool
            /\ WellFormed(PushToTail(pool, k, rest.expiry).pool)
            /\ Free(PushToTail(pool, k, rest.expiry).pool) = Free(pool) \cup {k}
            /\ Members(PushToTail(pool, k, rest.expiry).pool) = Members(pool) \cup {k}
        BY <1>0, <3>1, PushToTailKeeps
      <3> QED
        BY <2>1, <3>2
    <2>2. CASE ~back
      BY <2>2, <1>0 DEF Done
    <2> QED
      BY <2>1, <2>2
  <1>2. /\ pool' = r.pool /\ lock' = [lock EXCEPT ![k] = "none"]
        /\ UNCHANGED <<bind, gcCursor>>
        /\ Continue(r.ok, rest, rest.todo # {})
    BY DEF FreeOne, GoesBack
  <1> HIDE DEF r
  <1>3. Continue(TRUE, rest, rest.todo # {})
    BY <1>1, <1>2 DEF Continue
  <1>4. /\ script' \in Scripts /\ script'.op \notin {"gc", "assign", "malloc"}
        /\ reply' \in Replies /\ reply'.status # "assert"
    BY <1>0, <1>3, ContinueTyped
  <1>5. /\ lock' \in [Key -> Ttl] /\ lock'[k] = "none"
        /\ \A x \in Key \ {k} : lock'[x] = lock[x]
    BY <1>0, <1>2 DEF Ttl
  <1>6. SInv'
    BY <1>0, <1>1, <1>2, <1>4, <1>5, PlainStep
  <1> QED
    BY <1>0, <1>1, <1>2, <1>5, <1>6
    DEF FreedUnlocked, NothingAbandoned, Abandoned, NothingAdded, Locked

\* One item of gc: only an unlocked item goes back to the free list, and every
\* unlocked item that stays does.
LEMMA GcOneKeeps ==
    ASSUME SInv, NEW k \in Members(pool), NEW rest \in Scripts, rest.op = "gc",
           rest.todo \subseteq Members(pool) \ {k}, GcOne(k, rest)
    PROVE  SInv' /\ FreedUnlocked /\ NothingAbandoned /\ NothingAdded /\ LocksStay
  <1> DEFINE r == CheckItemHealth(pool, k, Locked(k))
  <1>0. /\ pool \in Pool /\ WellFormed(pool) /\ Locked(k) \in BOOLEAN
        /\ (rest.todo # {}) \in BOOLEAN /\ rest.cursor \in SUBSET Key
        /\ Members(pool) \subseteq Key /\ Free(pool) \subseteq Members(pool)
    BY PoolShape DEF SInv, TypeOK, ListWellFormed, Scripts, Locked, Free
  <1>1. /\ r.ok /\ r.pool \in Pool /\ WellFormed(r.pool)
        /\ Members(r.pool) \ {k} = Members(pool) \ {k}
        /\ Members(r.pool) \subseteq Members(pool)
        /\ Free(r.pool) \subseteq Free(pool) \cup (IF Locked(k) THEN {} ELSE {k})
        /\ Free(pool) \ {k} \subseteq Free(r.pool)
        /\ ~Locked(k) /\ k \in Members(r.pool) => k \in Free(r.pool)
    BY <1>0, CheckItemHealthKeeps
  <1>2. /\ pool' = r.pool
        /\ Continue(r.ok, rest, rest.todo # {})
        /\ gcCursor' = (IF r.ok /\ ~(rest.todo # {}) THEN rest.cursor ELSE gcCursor)
        /\ UNCHANGED <<lock, bind>>
    BY DEF GcOne
  <1> HIDE DEF r
  <1>3. Continue(TRUE, rest, rest.todo # {})
    BY <1>1, <1>2 DEF Continue
  <1>4. /\ script' \in Scripts /\ (script' = rest \/ script'.op = "idle")
        /\ reply' \in Replies /\ reply'.status # "assert"
    BY <1>0, <1>3, ContinueTyped
  <1>5. ScriptConsistent' /\ MallocLocks'
    BY <1>1, <1>2, <1>4 DEF ScriptConsistent, MallocLocks
  <1>6. gcCursor' \in SUBSET Key
    BY <1>0, <1>2 DEF SInv, TypeOK
  <1>7. SInv'
    BY <1>1, <1>2, <1>4, <1>5, <1>6 DEF SInv, TypeOK, ListWellFormed, LuaAssertsHold
  <1>8. Members(pool') = Members(r.pool) /\ Free(pool') = Free(r.pool)
    BY <1>2
  <1> QED
    BY <1>0, <1>1, <1>2, <1>7, <1>8
    DEF FreedUnlocked, NothingAbandoned, Abandoned, NothingAdded, LocksStay, Locked

-----------------------------------------------------------------------------
(* malloc.                                                                 *)

\* A granted key was not locked; in exclusive mode it is locked now, and not free.
GrantSound ==
    script'.op = "idle" /\ reply'.key # Nil =>
        /\ reply'.key \in Key /\ ~Locked(reply'.key)
        /\ ~Shared => lock'[reply'.key] # "none" /\ reply'.key \notin Free(pool)'

\* On the pop path it has not expired either, and in shared mode it is free again;
\* and if no key is granted then none is free.
PopSound ==
    script'.op = "idle" =>
        /\ reply'.key # Nil => /\ ~IsExpired(pool, reply'.key)
                               /\ Shared => reply'.key \in Free(pool)'
        /\ reply'.key = Nil => Free(pool)' = {}

\* A list without a head is empty: a node without a successor would be the tail.
LEMMA NoHeadNoFree ==
    ASSUME NEW p \in Pool, WellFormed(p), p.head \notin Members(p)
    PROVE  p.head = Nil /\ Free(p) = {}
  <1>1. p.head = Nil /\ p.tail = Nil
    BY PoolShape DEF WellFormed, EndsAgree, Free
  <1>2. ASSUME NEW k \in Free(p) PROVE p.entry[k].next \in Free(p)
    <2>1. k \in Members(p) /\ k # Nil
      BY PoolShape, KeysAreValid DEF Free
    <2>2. p.entry[k].next # Nil
      BY <1>1, <2>1 DEF WellFormed, EndsAgree
    <2> QED
      BY <2>2 DEF WellFormed, LinksMutual
  <1>3. CASE Free(p) # {}
    <2>1. \E k \in Free(p) : p.entry[k].next \notin Free(p)
      BY <1>3 DEF WellFormed, Acyclic
    <2> QED
      BY <1>2, <2>1
  <1> QED
    BY <1>1, <1>3

\* The bound path of malloc, its Redis error included: SET EX of a timeout <= 0
\* fails when the item is marked already.
LEMMA MallocBoundKeeps ==
    ASSUME SInv, NEW s \in Scripts, s.name # NoName, BindingUsable(s.name),
           s.ttl \in LockTtl, MallocBound(s)
    PROVE  /\ SInv' /\ FreedUnlocked /\ NothingAdded /\ LocksStay /\ GrantSound
           /\ s.ttl # "permanent" => NothingAbandoned
           /\ reply'.key = Nil => reply'.status = "error"
  <1> DEFINE k == bind[s.name].to
             r == SetItemAllocated(pool, k)
  <1>0. /\ pool \in Pool /\ WellFormed(pool) /\ k \in Members(pool) /\ ~Locked(k)
        /\ s.name \in Name /\ s.ttl \in {"timed", "permanent"} /\ s.bttl \in Ttl
        /\ lock \in [Key -> Ttl] /\ gcCursor \in SUBSET Key
        /\ bind \in [Name -> [to : Key \cup {Nil}, ttl : Ttl]]
    BY TimeoutsAreValid DEF SInv, TypeOK, ListWellFormed, Scripts, BindingUsable
  <1>1. k \in Key /\ k # Nil /\ Members(pool) \subseteq Key /\ Free(pool) \subseteq Members(pool)
    BY <1>0, PoolShape, KeysAreValid DEF Free
  <1>2. /\ r.ok /\ r.pool \in Pool /\ WellFormed(r.pool)
        /\ Free(r.pool) = Free(pool) \ {k} /\ Members(r.pool) = Members(pool)
    BY <1>0, SetItemAllocatedKeeps
  <1>3. /\ bind' = RefreshCache(bind, s, k)
        /\ UNCHANGED gcCursor
        /\ IF Shared
           THEN /\ Return(k, "ok")
                /\ UNCHANGED <<pool, lock>>
           ELSE /\ pool' = r.pool
                /\ IF ~r.ok
                   THEN Return(Nil, "assert") /\ UNCHANGED lock
                   ELSE IF s.ttl = "permanent"
                   THEN Return(Nil, "error") /\ UNCHANGED lock
                   ELSE Return(k, "ok") /\ lock' = [lock EXCEPT ![k] = s.ttl]
    BY DEF MallocBound, LockGranted
  <1> HIDE DEF r, k
  <1>4. bind' \in [Name -> [to : Key \cup {Nil}, ttl : Ttl]]
    BY <1>0, <1>1, <1>3 DEF RefreshCache
  <1>5. CASE Shared
    <2>1. Return(k, "ok") /\ UNCHANGED <<pool, lock, gcCursor>>
      BY <1>3, <1>5
    <2>2. /\ script' \in Scripts /\ script'.op = "idle"
          /\ reply' \in Replies /\ reply'.status # "assert" /\ reply'.key = k
      BY <1>1, <2>1, ReturnTyped
    <2>3. SInv'
      BY <1>0, <1>4, <2>1, <2>2, PlainStep
    <2> QED
      BY <1>0, <1>1, <1>5, <2>1, <2>2, <2>3
      DEF FreedUnlocked, NothingAbandoned, Abandoned, NothingAdded, LocksStay, Locked, GrantSound
  <1>6. CASE ~Shared /\ s.ttl = "permanent"
    <2>1. Return(Nil, "error") /\ pool' = r.pool /\ UNCHANGED <<lock, gcCursor>>
      BY <1>2, <1>3, <1>6
    <2>2. /\ script' \in Scripts /\ script'.op = "idle"
          /\ reply' \in Replies /\ reply'.status = "error" /\ reply'.key = Nil
      BY <2>1, ReturnTyped DEF Return
    <2>3. SInv'
      BY <1>0, <1>2, <1>4, <2>1, <2>2, PlainStep
    <2> QED
      BY <1>0, <1>1, <1>2, <1>6, <2>1, <2>2, <2>3
      DEF FreedUnlocked, NothingAdded, LocksStay, Locked, GrantSound
  <1>7. CASE ~Shared /\ s.ttl = "timed"
    <2>1. /\ Return(k, "ok") /\ pool' = r.pool /\ lock' = [lock EXCEPT ![k] = "timed"]
          /\ UNCHANGED gcCursor
      BY <1>2, <1>3, <1>7
    <2>2. /\ script' \in Scripts /\ script'.op = "idle"
          /\ reply' \in Replies /\ reply'.status # "assert" /\ reply'.key = k
      BY <1>1, <2>1, ReturnTyped
    <2>3. /\ lock' \in [Key -> Ttl] /\ lock'[k] = "timed"
          /\ \A x \in Key \ {k} : lock'[x] = lock[x]
      BY <1>0, <1>1, <2>1 DEF Ttl
    <2>4. SInv'
      BY <1>0, <1>2, <1>4, <2>1, <2>2, <2>3, PlainStep
    <2>5. Free(pool') = Free(pool) \ {k} /\ Members(pool') = Members(pool)
      BY <1>2, <2>1
    <2>6. GrantSound /\ NothingAdded /\ LocksStay
      BY <1>0, <1>1, <2>2, <2>3, <2>5 DEF GrantSound, NothingAdded, LocksStay, Locked
    <2>7. FreedUnlocked
      BY <1>1, <2>3, <2>5 DEF FreedUnlocked, Locked
    <2>8. NothingAbandoned
      BY <1>1, <2>3, <2>5 DEF NothingAbandoned, Abandoned, Locked
    <2> QED
      BY <1>1, <2>2, <2>4, <2>6, <2>7, <2>8
  <1> QED
    BY <1>0, <1>5, <1>6, <1>7

\* One round of pop_from_head and, on a usable head, the rest of malloc.
LEMMA PopFromHeadKeeps ==
    ASSUME SInv, NEW s \in Scripts, s.op = "malloc", s.ttl \in LockTtl,
           NEW b \in [Name -> [to : Key \cup {Nil}, ttl : Ttl]], PopFromHead(s, b)
    PROVE  /\ SInv' /\ FreedUnlocked /\ NothingAbandoned /\ NothingAdded /\ LocksStay
           /\ GrantSound /\ PopSound
  <1>0. /\ pool \in Pool /\ WellFormed(pool) /\ s.ttl \in {"timed", "permanent"} /\ s.bttl \in Ttl
        /\ s.name \in Name \cup {NoName}
        /\ lock \in [Key -> Ttl] /\ gcCursor \in SUBSET Key
        /\ reply \in Replies /\ reply.status # "assert"
        /\ Members(pool) \subseteq Key /\ Free(pool) \subseteq Members(pool)
    BY PoolShape, TimeoutsAreValid DEF SInv, TypeOK, ListWellFormed, Scripts, LuaAssertsHold, Free
  <1>1. CASE PopSkip(s, b)
    <2>1. pool.head \in Members(pool)
      BY <1>1 DEF PopSkip
    <2>2. /\ script' = s /\ bind' = b /\ UNCHANGED <<lock, gcCursor, reply>>
          /\ \/ pool' = DropExpiredHead(pool)
             \/ pool' = SkipLockedHead(pool) /\ Locked(pool.head)
      BY <1>1 DEF PopSkip
    <2>3. /\ pool' \in Pool /\ WellFormed(pool')
          /\ Free(pool') = Free(pool) \ {pool.head}
          /\ \/ Members(pool') = Members(pool) \ {pool.head}
             \/ Members(pool') = Members(pool) /\ Locked(pool.head)
      BY <1>0, <2>1, <2>2, DropExpiredHeadKeeps, SkipLockedHeadKeeps
    <2>4. ScriptConsistent' /\ MallocLocks'
      BY <2>2 DEF ScriptConsistent, MallocLocks
    <2>5. SInv'
      BY <1>0, <2>2, <2>3, <2>4 DEF SInv, TypeOK, ListWellFormed, LuaAssertsHold
    <2> QED
      BY <1>0, <2>2, <2>3, <2>5
      DEF FreedUnlocked, NothingAbandoned, Abandoned, NothingAdded, LocksStay, Locked,
          GrantSound, PopSound
  <1>2. CASE PopTake(s, b)
    <2> DEFINE k == pool.head
               e == pool.entry[k].expiry
               r == TakeHead(pool)
               t == IF r.ok /\ Shared THEN PushToTail(r.pool, k, e) ELSE r
    <2>1. /\ k \in Members(pool) /\ ~Locked(k) /\ ~IsExpired(pool, k)
          /\ pool' = t.pool
          /\ t.ok => /\ Return(k, "ok")
                     /\ lock' = IF Shared THEN lock ELSE [lock EXCEPT ![k] = s.ttl]
                     /\ bind' = RefreshCache(b, s, k)
          /\ UNCHANGED gcCursor
      BY <1>2 DEF PopTake, HeadUsable, PutBack, LockGranted
    <2>2. k \in Key /\ k \in Free(pool) /\ e \in Expiry /\ k # Nil
      BY <1>0, <2>1, PoolShape, HeadOf, KeysAreValid
    <2>3. /\ r.ok /\ r.pool \in Pool /\ WellFormed(r.pool)
          /\ Free(r.pool) = Free(pool) \ {k} /\ Members(r.pool) = Members(pool)
      BY <1>0, <2>1, TakeHeadKeeps
    <2> HIDE DEF r, e
    <2>4. /\ t.ok /\ t.pool \in Pool /\ WellFormed(t.pool)
          /\ Free(t.pool) = IF Shared THEN Free(pool) ELSE Free(pool) \ {k}
          /\ Members(t.pool) = Members(pool)
      <3>1. CASE Shared
        <4>1. k \in Key \ Free(r.pool)
          BY <2>2, <2>3
        <4>2. /\ PushToTail(r.pool, k, e).ok /\ PushToTail(r.pool, k, e).pool \in Pool
              /\ WellFormed(PushToTail(r.pool, k, e).pool)
              /\ Free(PushToTail(r.pool, k, e).pool) = Free(r.pool) \cup {k}
              /\ Members(PushToTail(r.pool, k, e).pool) = Members(r.pool) \cup {k}
          BY <2>2, <2>3, <4>1, PushToTailKeeps
        <4>3. t = PushToTail(r.pool, k, e)
          BY <3>1, <2>3 DEF t
        <4>4. k \in Free(pool) /\ k \in Members(pool)
          BY <2>1, <2>2
        <4>5. Free(r.pool) \cup {k} = Free(pool) /\ Members(r.pool) \cup {k} = Members(pool)
          BY <2>3, <4>4
        <4> HIDE DEF t
        <4> QED
          BY <3>1, <4>2, <4>3, <4>5
      <3>2. CASE ~Shared
        BY <3>2, <2>3
      <3> QED
        BY <3>1, <3>2
    <2> HIDE DEF t
    <2>5. bind' \in [Name -> [to : Key \cup {Nil}, ttl : Ttl]]
      BY <1>0, <2>1, <2>2, <2>4 DEF RefreshCache
    <2>6. /\ script' \in Scripts /\ script'.op = "idle"
          /\ reply' \in Replies /\ reply'.status # "assert" /\ reply'.key = k
      BY <2>1, <2>2, <2>4, ReturnTyped
    <2> HIDE DEF k
    <2>7. CASE Shared
      <3>1. lock' = lock /\ Free(pool') = Free(pool) /\ Members(pool') = Members(pool)
        BY <2>1, <2>4, <2>7
      <3>2. SInv'
        BY <1>0, <2>1, <2>4, <2>5, <2>6, <3>1, PlainStep
      <3> QED
        BY <1>0, <2>1, <2>2, <2>6, <2>7, <3>1, <3>2
        DEF FreedUnlocked, NothingAbandoned, Abandoned, NothingAdded, LocksStay, Locked,
            GrantSound, PopSound
    <2>8. CASE ~Shared
      <3>1. /\ lock' = [lock EXCEPT ![k] = s.ttl]
            /\ Free(pool') = Free(pool) \ {k} /\ Members(pool') = Members(pool)
        BY <2>1, <2>4, <2>8
      <3>2. /\ lock' \in [Key -> Ttl] /\ lock'[k] # "none"
            /\ \A x \in Key \ {k} : lock'[x] = lock[x]
        BY <1>0, <2>2, <3>1 DEF Ttl
      <3>3. SInv'
        BY <1>0, <2>1, <2>4, <2>5, <2>6, <3>2, PlainStep
      <3>4. GrantSound /\ PopSound /\ NothingAdded /\ LocksStay
        BY <2>1, <2>2, <2>6, <2>8, <3>1, <3>2
        DEF GrantSound, PopSound, NothingAdded, LocksStay, Locked
      <3>5. FreedUnlocked
        BY <1>0, <3>1, <3>2 DEF FreedUnlocked, Locked
      <3>6. NothingAbandoned
        BY <1>0, <3>1, <3>2 DEF NothingAbandoned, Abandoned, Locked
      <3> QED
        BY <3>3, <3>4, <3>5, <3>6
    <2> QED
      BY <2>7, <2>8
  <1>3. CASE PopNothing(b)
    <2>1. pool.head = Nil /\ Free(pool) = {}
      BY <1>0, <1>3, NoHeadNoFree DEF PopNothing
    <2>2. Return(Nil, "ok") /\ bind' = b /\ UNCHANGED <<pool, lock, gcCursor>>
      BY <1>3, <2>1 DEF PopNothing
    <2>3. /\ script' \in Scripts /\ script'.op = "idle"
          /\ reply' \in Replies /\ reply'.status # "assert" /\ reply'.key = Nil
      BY <2>2, ReturnTyped
    <2>4. SInv'
      BY <1>0, <2>2, <2>3, PlainStep
    <2> QED
      BY <1>0, <2>1, <2>2, <2>3, <2>4
      DEF FreedUnlocked, NothingAbandoned, Abandoned, NothingAdded, LocksStay, Locked,
          GrantSound, PopSound
  <1> QED
    BY <1>1, <1>2, <1>3 DEF PopFromHead

-----------------------------------------------------------------------------
(* The operations: the first round of each script, and the further ones.   *)

\* Clearing the pool loses the list and keeps the locks.
LEMMA ClearKeeps ==
    ASSUME SInv, Clear
    PROVE  SInv' /\ FreedUnlocked /\ NothingAbandoned /\ NothingAdded /\ LocksStay
  <1>1. /\ pool' = EmptyPool /\ Return(Nil, "ok") /\ UNCHANGED <<lock, bind, gcCursor>>
        /\ lock \in [Key -> Ttl] /\ gcCursor \in SUBSET Key
        /\ bind \in [Name -> [to : Key \cup {Nil}, ttl : Ttl]]
    BY DEF Clear, SInv, TypeOK
  <1>2. /\ script' \in Scripts /\ script'.op = "idle"
        /\ reply' \in Replies /\ reply'.status # "assert"
    BY <1>1, ReturnTyped
  <1>3. SInv'
    BY <1>1, <1>2, EmptyPoolSound, PlainStep
  <1> QED
    BY <1>1, <1>3, EmptyPoolSound
    DEF FreedUnlocked, NothingAbandoned, Abandoned, NothingAdded, LocksStay, Locked

\* What the first rounds are made of.
LEMMA TypedStart ==
    ASSUME TypeOK
    PROVE  /\ Members(pool) \subseteq Key
           /\ bind \in [Name -> [to : Key \cup {Nil}, ttl : Ttl]]
           /\ ItemTtl \subseteq Expiry
           /\ NoScript \in Scripts
           /\ Batches \subseteq SUBSET Key
  BY PoolShape, TimeoutsAreValid DEF TypeOK, Expiry, NoScript, Scripts, Ttl, Batches

\* What a further round starts from.
LEMMA TypedRound ==
    ASSUME TypeOK
    PROVE  /\ script \in Scripts
           /\ \A k \in script.todo :
                 /\ k \in Key
                 /\ [script EXCEPT !.todo = @ \ {k}] \in Scripts
                 /\ [script EXCEPT !.todo = @ \ {k}].op = script.op
                 /\ [script EXCEPT !.todo = @ \ {k}].todo = script.todo \ {k}
  BY DEF TypeOK, Scripts

\* The same, where the list is sound.
LEMMA StartFacts ==
    ASSUME SInv
    PROVE  /\ Members(pool) \subseteq Key
           /\ bind \in [Name -> [to : Key \cup {Nil}, ttl : Ttl]]
           /\ ItemTtl \subseteq Expiry
           /\ NoScript \in Scripts
           /\ Batches \subseteq SUBSET Key
  BY TypedStart DEF SInv

\* And of a further round.
LEMMA RoundFacts ==
    ASSUME SInv
    PROVE  /\ script \in Scripts
           /\ \A k \in script.todo :
                 /\ k \in Key
                 /\ [script EXCEPT !.todo = @ \ {k}] \in Scripts
                 /\ [script EXCEPT !.todo = @ \ {k}].op = script.op
                 /\ [script EXCEPT !.todo = @ \ {k}].todo = script.todo \ {k}
  BY TypedRound DEF SInv

\* extend, whole.
LEMMA ExtendKeeps ==
    ASSUME SInv, Extend \/ ExtendNext
    PROVE  /\ SInv' /\ FreedUnlocked /\ NothingAbandoned /\ AddedUnlocked
           /\ Members(pool) \subseteq Members(pool)'
  <1>1. CASE Extend
    <2>1. PICK ks \in Batches, e \in ItemTtl : \E k \in ks :
             ExtendOne(k, [NoScript EXCEPT !.op = "extend", !.todo = ks \ {k}, !.expiry = e])
      BY <1>1 DEF Extend
    <2>2. PICK k \in ks :
             ExtendOne(k, [NoScript EXCEPT !.op = "extend", !.todo = ks \ {k}, !.expiry = e])
      BY <2>1
    <2> DEFINE rest == [NoScript EXCEPT !.op = "extend", !.todo = ks \ {k}, !.expiry = e]
    <2>3. rest \in Scripts /\ rest.op = "extend" /\ k \in Key
      BY StartFacts DEF Scripts, NoScript
    <2> HIDE DEF rest
    <2> QED
      BY <2>2, <2>3, ExtendOneKeeps DEF rest
  <1>2. CASE ExtendNext
    BY <1>2, RoundFacts, ExtendOneKeeps DEF ExtendNext
  <1> QED
    BY <1>1, <1>2

\* shrink, whole.
LEMMA ShrinkKeeps ==
    ASSUME SInv, Shrink \/ ShrinkNext
    PROVE  SInv' /\ FreedUnlocked /\ NothingAbandoned /\ NothingAdded /\ LocksStay
  <1>1. CASE Shrink
    <2>1. PICK ks \in Batches : \E k \in ks :
             ShrinkOne(k, [NoScript EXCEPT !.op = "shrink", !.todo = ks \ {k}])
      BY <1>1 DEF Shrink
    <2>2. PICK k \in ks :
             ShrinkOne(k, [NoScript EXCEPT !.op = "shrink", !.todo = ks \ {k}])
      BY <2>1
    <2> DEFINE rest == [NoScript EXCEPT !.op = "shrink", !.todo = ks \ {k}]
    <2>3. rest \in Scripts /\ rest.op = "shrink" /\ k \in Key
      BY StartFacts DEF Scripts, NoScript
    <2> HIDE DEF rest
    <2> QED
      BY <2>2, <2>3, ShrinkOneKeeps DEF rest
  <1>2. CASE ShrinkNext
    BY <1>2, RoundFacts, ShrinkOneKeeps DEF ShrinkNext
  <1> QED
    BY <1>1, <1>2

\* assign, whole: it starts with the members outside the set and the set's keys
\* outside the pool.
LEMMA AssignKeeps ==
    ASSUME SInv, Assign \/ AssignNext
    PROVE  SInv' /\ FreedUnlocked /\ NothingAbandoned /\ AddedUnlocked
  <1>1. CASE Assign
    <2>1. PICK ks \in Batches, e \in ItemTtl :
             AssignRound([NoScript EXCEPT !.op = "assign", !.expiry = e,
                                          !.todo = Members(pool) \ ks,
                                          !.add  = ks \ Members(pool)])
      BY <1>1 DEF Assign
    <2> DEFINE s == [NoScript EXCEPT !.op = "assign", !.expiry = e,
                                     !.todo = Members(pool) \ ks,
                                     !.add  = ks \ Members(pool)]
    <2>2. /\ s \in Scripts /\ s.op = "assign"
          /\ s.todo \subseteq Members(pool) /\ s.add \cap Members(pool) = {}
      BY StartFacts DEF Scripts, NoScript
    <2> HIDE DEF s
    <2> QED
      BY <2>1, <2>2, AssignRoundKeeps DEF s
  <1>2. CASE AssignNext
    BY <1>2, RoundFacts, AssignRoundKeeps DEF AssignNext, SInv, ScriptConsistent
  <1> QED
    BY <1>1, <1>2

\* What a malloc that answers nothing tells: no key is free.
Exhausted ==
    script'.op = "idle" /\ reply'.key = Nil /\ reply'.status = "ok" => Free(pool)' = {}

\* malloc_key, both paths: unless a timeout <= 0 meets a usable binding, no key
\* is abandoned.
LEMMA MallocForKeeps ==
    ASSUME SInv, NEW n \in Name \cup {NoName}, NEW t \in LockTtl, NEW bt \in BindTtl,
           MallocFor(n, t, bt)
    PROVE  /\ SInv' /\ FreedUnlocked /\ NothingAdded /\ LocksStay /\ GrantSound /\ Exhausted
           /\ n = NoName \/ t # "permanent" => NothingAbandoned
           /\ n = NoName => PopSound
  <1> DEFINE s == [NoScript EXCEPT !.op = "malloc", !.ttl = t, !.name = n,
                                   !.bttl = IF n = NoName THEN "none" ELSE bt]
             b == IF n = NoName THEN bind ELSE [bind EXCEPT ![n] = Unbound]
  <1>1. s \in Scripts /\ s.op = "malloc" /\ s.name = n /\ s.ttl = t
    <2>1. t \in Ttl /\ bt \in Ttl /\ "none" \in Ttl
      BY TimeoutsAreValid DEF Ttl
    <2> QED
      BY StartFacts, <2>1 DEF Scripts, NoScript
  <1>2. b \in [Name -> [to : Key \cup {Nil}, ttl : Ttl]]
    BY StartFacts DEF Unbound, Ttl
  <1>3. CASE BindingUsable(n)
    <2>1. MallocBound(s) /\ s.name # NoName /\ n # NoName
      BY <1>1, <1>3 DEF MallocFor, BindingUsable
    <2> HIDE DEF s
    <2>2. /\ SInv' /\ FreedUnlocked /\ NothingAdded /\ LocksStay /\ GrantSound
          /\ s.ttl # "permanent" => NothingAbandoned
          /\ reply'.key = Nil => reply'.status = "error"
      BY <1>1, <1>3, <2>1, MallocBoundKeeps
    <2> QED
      BY <1>1, <2>1, <2>2 DEF Exhausted
  <1>4. CASE ~BindingUsable(n)
    <2>1. PopFromHead(s, b)
      BY <1>4 DEF MallocFor
    <2> HIDE DEF s, b
    <2>2. /\ SInv' /\ FreedUnlocked /\ NothingAbandoned /\ NothingAdded /\ LocksStay
          /\ GrantSound /\ PopSound
      BY <1>1, <1>2, <2>1, PopFromHeadKeeps
    <2> QED
      BY <2>2 DEF Exhausted, PopSound
  <1> QED
    BY <1>3, <1>4

\* A further round of malloc_key.
LEMMA MallocNextKeeps ==
    ASSUME SInv, MallocNext
    PROVE  /\ SInv' /\ FreedUnlocked /\ NothingAbandoned /\ NothingAdded /\ LocksStay
           /\ GrantSound /\ PopSound /\ Exhausted
  <1>1. /\ script \in Scripts /\ script.op = "malloc" /\ script.ttl \in LockTtl
        /\ bind \in [Name -> [to : Key \cup {Nil}, ttl : Ttl]]
        /\ PopFromHead(script, bind)
    BY DEF MallocNext, SInv, TypeOK, MallocLocks
  <1>2. /\ SInv' /\ FreedUnlocked /\ NothingAbandoned /\ NothingAdded /\ LocksStay
        /\ GrantSound /\ PopSound
    BY <1>1, PopFromHeadKeeps
  <1> QED
    BY <1>2 DEF Exhausted, PopSound

\* free_keys, whole, where no free key is locked.
LEMMA FreeKeeps ==
    ASSUME SInv, FreeKeysUnlocked, FreeKeys \/ FreeNext
    PROVE  SInv' /\ FreedUnlocked /\ NothingAbandoned /\ NothingAdded
  <1>1. \A k \in Key : Locked(k) => k \notin Free(pool)
    BY DEF FreeKeysUnlocked
  <1>2. CASE FreeKeys
    <2>1. PICK ks \in Batches, e \in ItemTtl : \E k \in ks :
             FreeOne(k, [NoScript EXCEPT !.op = "free", !.todo = ks \ {k}, !.expiry = e])
      BY <1>2 DEF FreeKeys
    <2>2. PICK k \in ks :
             FreeOne(k, [NoScript EXCEPT !.op = "free", !.todo = ks \ {k}, !.expiry = e])
      BY <2>1
    <2> DEFINE rest == [NoScript EXCEPT !.op = "free", !.todo = ks \ {k}, !.expiry = e]
    <2>3. rest \in Scripts /\ rest.op = "free" /\ k \in Key
      BY StartFacts DEF Scripts, NoScript
    <2> HIDE DEF rest
    <2> QED
      BY <1>1, <2>2, <2>3, FreeOneKeeps DEF rest
  <1>3. CASE FreeNext
    BY <1>1, <1>3, RoundFacts, FreeOneKeeps DEF FreeNext
  <1> QED
    BY <1>2, <1>3

\* gc, whole.
LEMMA GcKeeps ==
    ASSUME SInv, Gc \/ GcNext
    PROVE  SInv' /\ FreedUnlocked /\ NothingAbandoned /\ NothingAdded /\ LocksStay
  <1>1. CASE Gc
    <2>1. PICK ks \in Batches : \E k \in ks :
             /\ ks \subseteq Members(pool)
             /\ GcOne(k, [NoScript EXCEPT !.op = "gc", !.todo = ks \ {k},
                                          !.cursor = ToVisit \ ks])
      BY <1>1 DEF Gc
    <2>2. PICK k \in ks :
             /\ ks \subseteq Members(pool)
             /\ GcOne(k, [NoScript EXCEPT !.op = "gc", !.todo = ks \ {k},
                                          !.cursor = ToVisit \ ks])
      BY <2>1
    <2> DEFINE rest == [NoScript EXCEPT !.op = "gc", !.todo = ks \ {k},
                                        !.cursor = ToVisit \ ks]
    <2>3. ToVisit \subseteq Key
      BY StartFacts DEF ToVisit
    <2>4. /\ rest \in Scripts /\ rest.op = "gc"
          /\ k \in Members(pool) /\ rest.todo \subseteq Members(pool) \ {k}
      BY <2>2, <2>3, StartFacts DEF Scripts, NoScript
    <2> HIDE DEF rest
    <2> QED
      BY <2>2, <2>4, GcOneKeeps DEF rest
  <1>2. CASE GcNext
    <2>1. PICK k \in script.todo : GcOne(k, [script EXCEPT !.todo = @ \ {k}])
      BY <1>2 DEF GcNext
    <2>2. script.op = "gc" /\ script.todo \subseteq Members(pool)
      BY <1>2 DEF GcNext, SInv, ScriptConsistent
    <2> QED
      BY <2>1, <2>2, RoundFacts, GcOneKeeps
  <1> QED
    BY <1>1, <1>2

\* Expiries: a lock that runs out frees nothing.
LEMMA TimePassesKeeps ==
    ASSUME SInv, TimePasses
    PROVE  SInv' /\ FreedUnlocked /\ NothingAdded /\ UNCHANGED <<script, reply>>
  <1>0. pool \in Pool /\ WellFormed(pool) /\ lock \in [Key -> Ttl]
    BY DEF SInv, TypeOK, ListWellFormed
  <1>1. ASSUME NEW k \in Key, LockExpires(k)
        PROVE  SInv' /\ FreedUnlocked /\ NothingAdded /\ UNCHANGED <<script, reply>>
    <2>1. /\ lock' \in [Key -> Ttl] /\ lock'[k] = "none"
          /\ \A x \in Key \ {k} : lock'[x] = lock[x]
          /\ UNCHANGED <<pool, bind, gcCursor, script, reply>>
      BY <1>0, <1>1 DEF LockExpires, Ttl
    <2>2. SInv'
      BY <2>1 DEF SInv, TypeOK, ListWellFormed, ScriptConsistent, LuaAssertsHold, MallocLocks
    <2> QED
      BY <1>0, <2>1, <2>2, PoolShape DEF FreedUnlocked, NothingAdded, Locked, Free
  <1>2. ASSUME NEW n \in Name, BindingExpires(n)
        PROVE  SInv' /\ FreedUnlocked /\ NothingAdded /\ UNCHANGED <<script, reply>>
    <2>1. UNCHANGED <<pool, lock, gcCursor, script, reply>>
      BY <1>2 DEF BindingExpires
    <2>2. SInv'
      BY <1>2 DEF BindingExpires, SInv, TypeOK, ListWellFormed, ScriptConsistent,
                  LuaAssertsHold, MallocLocks, Unbound, Ttl
    <2> QED
      BY <2>1, <2>2 DEF FreedUnlocked, NothingAdded, Locked
  <1>3. ASSUME NEW k \in Key, ItemExpires(k)
        PROVE  SInv' /\ FreedUnlocked /\ NothingAdded /\ UNCHANGED <<script, reply>>
    <2> DEFINE q == HSet(pool, k, Node(pool.entry[k].prev, pool.entry[k].next, "expired"))
    <2>1. /\ k \in Members(pool) /\ pool' = q
          /\ UNCHANGED <<lock, bind, gcCursor, script, reply>>
      BY <1>3 DEF ItemExpires
    <2>2. q \in Pool /\ WellFormed(q) /\ Free(q) = Free(pool) /\ Members(q) = Members(pool)
      BY <1>0, <2>1, RelabelKeeps DEF Expiry
    <2> HIDE DEF q
    <2>3. SInv'
      BY <2>1, <2>2 DEF SInv, TypeOK, ListWellFormed, ScriptConsistent, LuaAssertsHold,
                        MallocLocks
    <2> QED
      BY <2>1, <2>2, <2>3 DEF FreedUnlocked, NothingAdded, Locked
  <1> QED
    BY <1>1, <1>2, <1>3 DEF TimePasses

-----------------------------------------------------------------------------
(* Types, whatever the list looks like and whoever locks pool keys: the    *)
(* scripts beside callers no invariant is known of.                        *)

\* A script that ends, be it in a failed assert, or goes on.
LEMMA ContinueKeepsTypes ==
    ASSUME TypeOK, NEW rest \in Scripts
    PROVE  /\ \A key \in Key \cup {Nil}, status \in {"ok", "assert", "error"} :
                 Return(key, status) => script' \in Scripts /\ reply' \in Replies
           /\ \A ok, more : Continue(ok, rest, more) => script' \in Scripts /\ reply' \in Replies
  <1>1. ASSUME NEW key \in Key \cup {Nil}, NEW status \in {"ok", "assert", "error"},
               Return(key, status)
        PROVE  script' \in Scripts /\ reply' \in Replies
    BY <1>1 DEF Return, NoScript, Scripts, Replies, Ttl, Expiry
  <1>2. ASSUME NEW ok, NEW more, Continue(ok, rest, more)
        PROVE  script' \in Scripts /\ reply' \in Replies
    <2>1. \/ script' = rest /\ reply' = reply
          \/ Return(Nil, "ok")
          \/ Return(Nil, "assert")
      BY <1>2, Zenon DEF Continue
    <2>2. reply \in Replies
      BY DEF TypeOK
    <2> QED
      BY <1>1, <2>1, <2>2
  <1> QED
    BY <1>1, <1>2, Zenon

\* One round over a key, of any script but malloc.
LEMMA RoundKeepsTypes ==
    ASSUME TypeOK, NEW k \in Key, NEW rest \in Scripts,
           \/ ExtendOne(k, rest) \/ ShrinkOne(k, rest) \/ FreeOne(k, rest)
           \/ GcOne(k, rest) \/ AssignEvict(k, rest) \/ AssignAdd(k, rest)
    PROVE  TypeOK'
  <1> DEFINE unlocked == [lock EXCEPT ![k] = "none"]
  <1>0. /\ pool \in Pool /\ lock \in [Key -> Ttl] /\ unlocked \in [Key -> Ttl]
        /\ gcCursor \in SUBSET Key
        /\ rest.expiry \in Expiry /\ rest.cursor \in SUBSET Key
    BY DEF TypeOK, Scripts, Ttl
  <1> HIDE DEF unlocked
  <1>1. /\ \A ok, more : Continue(ok, rest, more) => script' \in Scripts /\ reply' \in Replies
        /\ bind' = bind => bind' \in [Name -> [to : Key \cup {Nil}, ttl : Ttl]]
    BY ContinueKeepsTypes DEF TypeOK
  <1>2. ASSUME pool' \in Pool, lock' \in {lock, unlocked}, gcCursor' \in {gcCursor, rest.cursor},
               bind' = bind, NEW ok, NEW more, Continue(ok, rest, more)
        PROVE  TypeOK'
    BY <1>0, <1>1, <1>2 DEF TypeOK
  <1>3. /\ PushToTail(pool, k, rest.expiry).pool \in Pool /\ Evict(pool, k).pool \in Pool
        /\ CheckItemHealth(pool, k, Locked(k)).pool \in Pool /\ Done(pool).pool \in Pool
    BY <1>0, PushToTailTyped, EvictTyped, CheckItemHealthTyped, Outcome
  <1>4. CASE ExtendOne(k, rest)
    <2>1. CASE k \in Members(pool)
      <3> DEFINE m == Node(pool.entry[k].prev, pool.entry[k].next, rest.expiry)
      <3>1. m \in Item
        BY <1>0, <2>1, PoolShape, NodeType
      <3> HIDE DEF m
      <3>2. HSet(pool, k, m) \in Pool
        BY <1>0, <3>1, HSetShape
      <3> QED
        BY <1>2, <1>4, <2>1, <3>2 DEF ExtendOne, m
    <2>2. CASE k \notin Members(pool)
      BY <1>2, <1>3, <1>4, <2>2 DEF ExtendOne, unlocked
    <2> QED
      BY <2>1, <2>2
  <1>5. CASE ShrinkOne(k, rest)
    BY <1>0, <1>2, <1>3, <1>5 DEF ShrinkOne
  <1>6. CASE FreeOne(k, rest)
    <2> DEFINE r == IF GoesBack(k) THEN PushToTail(pool, k, rest.expiry) ELSE Done(pool)
    <2>1. r.pool \in Pool
      BY <1>3
    <2> HIDE DEF r
    <2> QED
      BY <1>2, <1>6, <2>1 DEF FreeOne, r, unlocked
  <1>7. CASE GcOne(k, rest)
    BY <1>2, <1>3, <1>7 DEF GcOne
  <1>8. CASE AssignEvict(k, rest)
    BY <1>2, <1>3, <1>8 DEF AssignEvict
  <1>9. CASE AssignAdd(k, rest)
    BY <1>2, <1>3, <1>9 DEF AssignAdd, unlocked
  <1> QED
    BY <1>4, <1>5, <1>6, <1>7, <1>8, <1>9

\* A round of assign.
LEMMA AssignKeepsTypes ==
    ASSUME TypeOK, NEW s \in Scripts, AssignRound(s)
    PROVE  TypeOK'
  <1>1. CASE \E k \in s.todo : AssignEvict(k, [s EXCEPT !.todo = @ \ {k}])
    <2>1. PICK k \in s.todo : AssignEvict(k, [s EXCEPT !.todo = @ \ {k}])
      BY <1>1
    <2> DEFINE rest == [s EXCEPT !.todo = @ \ {k}]
    <2>2. rest \in Scripts /\ k \in Key
      BY DEF Scripts
    <2> HIDE DEF rest
    <2> QED
      BY <2>1, <2>2, RoundKeepsTypes DEF rest
  <1>2. CASE \E k \in s.add : AssignAdd(k, [s EXCEPT !.add = @ \ {k}])
    <2>1. PICK k \in s.add : AssignAdd(k, [s EXCEPT !.add = @ \ {k}])
      BY <1>2
    <2> DEFINE rest == [s EXCEPT !.add = @ \ {k}]
    <2>2. rest \in Scripts /\ k \in Key
      BY DEF Scripts
    <2> HIDE DEF rest
    <2> QED
      BY <2>1, <2>2, RoundKeepsTypes DEF rest
  <1>3. CASE Return(Nil, "ok") /\ UNCHANGED <<pool, lock, bind, gcCursor>>
    BY <1>3, ContinueKeepsTypes DEF TypeOK
  <1> QED
    BY <1>1, <1>2, <1>3 DEF AssignRound

\* The first rounds of extend, shrink, assign, free_keys and gc, and clear.
LEMMA StartKeepsTypes ==
    ASSUME TypeOK, Clear \/ Extend \/ Shrink \/ Assign \/ FreeKeys \/ Gc
    PROVE  TypeOK'
  <1>0. /\ Members(pool) \subseteq Key /\ ItemTtl \subseteq Expiry
        /\ NoScript \in Scripts /\ Batches \subseteq SUBSET Key
    BY TypedStart
  <1>1. CASE Clear
    BY <1>0, <1>1, ContinueKeepsTypes, EmptyPoolSound DEF Clear, TypeOK
  <1>2. CASE Extend
    <2>1. PICK ks \in Batches, e \in ItemTtl : \E k \in ks :
             ExtendOne(k, [NoScript EXCEPT !.op = "extend", !.todo = ks \ {k}, !.expiry = e])
      BY <1>2 DEF Extend
    <2>2. PICK k \in ks :
             ExtendOne(k, [NoScript EXCEPT !.op = "extend", !.todo = ks \ {k}, !.expiry = e])
      BY <2>1
    <2> DEFINE rest == [NoScript EXCEPT !.op = "extend", !.todo = ks \ {k}, !.expiry = e]
    <2>3. rest \in Scripts /\ k \in Key
      BY <1>0 DEF Scripts, NoScript
    <2> HIDE DEF rest
    <2> QED
      BY <2>2, <2>3, RoundKeepsTypes DEF rest
  <1>3. CASE Shrink
    <2>1. PICK ks \in Batches : \E k \in ks :
             ShrinkOne(k, [NoScript EXCEPT !.op = "shrink", !.todo = ks \ {k}])
      BY <1>3 DEF Shrink
    <2>2. PICK k \in ks :
             ShrinkOne(k, [NoScript EXCEPT !.op = "shrink", !.todo = ks \ {k}])
      BY <2>1
    <2> DEFINE rest == [NoScript EXCEPT !.op = "shrink", !.todo = ks \ {k}]
    <2>3. rest \in Scripts /\ k \in Key
      BY <1>0 DEF Scripts, NoScript
    <2> HIDE DEF rest
    <2> QED
      BY <2>2, <2>3, RoundKeepsTypes DEF rest
  <1>4. CASE Assign
    <2>1. PICK ks \in Batches, e \in ItemTtl :
             AssignRound([NoScript EXCEPT !.op = "assign", !.expiry = e,
                                          !.todo = Members(pool) \ ks,
                                          !.add  = ks \ Members(pool)])
      BY <1>4 DEF Assign
    <2> DEFINE s == [NoScript EXCEPT !.op = "assign", !.expiry = e,
                                     !.todo = Members(pool) \ ks,
                                     !.add  = ks \ Members(pool)]
    <2>2. s \in Scripts
      BY <1>0 DEF Scripts, NoScript
    <2> HIDE DEF s
    <2> QED
      BY <2>1, <2>2, AssignKeepsTypes DEF s
  <1>5. CASE FreeKeys
    <2>1. PICK ks \in Batches, e \in ItemTtl : \E k \in ks :
             FreeOne(k, [NoScript EXCEPT !.op = "free", !.todo = ks \ {k}, !.expiry = e])
      BY <1>5 DEF FreeKeys
    <2>2. PICK k \in ks :
             FreeOne(k, [NoScript EXCEPT !.op = "free", !.todo = ks \ {k}, !.expiry = e])
      BY <2>1
    <2> DEFINE rest == [NoScript EXCEPT !.op = "free", !.todo = ks \ {k}, !.expiry = e]
    <2>3. rest \in Scripts /\ k \in Key
      BY <1>0 DEF Scripts, NoScript
    <2> HIDE DEF rest
    <2> QED
      BY <2>2, <2>3, RoundKeepsTypes DEF rest
  <1>6. CASE Gc
    <2>1. PICK ks \in Batches : \E k \in ks :
             GcOne(k, [NoScript EXCEPT !.op = "gc", !.todo = ks \ {k},
                                       !.cursor = ToVisit \ ks])
      BY <1>6 DEF Gc
    <2>2. PICK k \in ks :
             GcOne(k, [NoScript EXCEPT !.op = "gc", !.todo = ks \ {k},
                                       !.cursor = ToVisit \ ks])
      BY <2>1
    <2> DEFINE rest == [NoScript EXCEPT !.op = "gc", !.todo = ks \ {k},
                                        !.cursor = ToVisit \ ks]
    <2>3. ToVisit \subseteq Key
      BY <1>0 DEF ToVisit
    <2>4. rest \in Scripts /\ k \in Key
      BY <1>0, <2>3 DEF Scripts, NoScript
    <2> HIDE DEF rest
    <2> QED
      BY <2>2, <2>4, RoundKeepsTypes DEF rest
  <1> QED
    BY <1>1, <1>2, <1>3, <1>4, <1>5, <1>6

\* Their further rounds.
LEMMA NextKeepsTypes ==
    ASSUME TypeOK, ExtendNext \/ ShrinkNext \/ AssignNext \/ FreeNext \/ GcNext
    PROVE  TypeOK'
  <1>1. /\ script \in Scripts
        /\ \A k \in script.todo : k \in Key /\ [script EXCEPT !.todo = @ \ {k}] \in Scripts
    BY TypedRound
  <1>2. CASE AssignNext
    BY <1>1, <1>2, AssignKeepsTypes DEF AssignNext
  <1>3. CASE ExtendNext
    BY <1>1, <1>3, RoundKeepsTypes DEF ExtendNext
  <1>4. CASE ShrinkNext
    BY <1>1, <1>4, RoundKeepsTypes DEF ShrinkNext
  <1>5. CASE FreeNext
    BY <1>1, <1>5, RoundKeepsTypes DEF FreeNext
  <1>6. CASE GcNext
    BY <1>1, <1>6, RoundKeepsTypes DEF GcNext
  <1> QED
    BY <1>2, <1>3, <1>4, <1>5, <1>6

\* What a malloc that grants from the head in shared mode tells.
GrantStaysFree == script'.op = "idle" /\ reply'.key # Nil => reply'.key \in Free(pool)'

\* A round of pop_from_head: in shared mode push_to_tail writes a free item for
\* the key whatever list it finds.
LEMMA PopKeepsTypes ==
    ASSUME TypeOK, NEW s \in Scripts, s.op # "idle",
           NEW b \in [Name -> [to : Key \cup {Nil}, ttl : Ttl]], PopFromHead(s, b)
    PROVE  TypeOK' /\ (Shared => GrantStaysFree)
  <1>0. /\ pool \in Pool /\ lock \in [Key -> Ttl] /\ gcCursor \in SUBSET Key
        /\ reply \in Replies /\ s.ttl \in Ttl
    BY DEF TypeOK, Scripts
  <1>1. CASE PopSkip(s, b)
    <2>1. DropExpiredHead(pool) \in Pool /\ SkipLockedHead(pool) \in Pool
      BY <1>0, <1>1, HeadTyped DEF PopSkip
    <2>2. /\ pool' \in Pool /\ script' = s /\ bind' = b
          /\ UNCHANGED <<lock, gcCursor, reply>>
      BY <1>1, <2>1 DEF PopSkip
    <2> QED
      BY <1>0, <2>2 DEF TypeOK, GrantStaysFree
  <1>2. CASE PopTake(s, b)
    <2> DEFINE k == pool.head
               h == TakeHead(pool)
               e == pool.entry[k].expiry
               t == PutBack(h, k, e)
    <2>1. /\ k \in Members(pool) /\ pool' = t.pool /\ gcCursor' = gcCursor
          /\ \/ /\ t.ok /\ Return(k, "ok")
                /\ lock' = LockGranted(k, s.ttl) /\ bind' = RefreshCache(b, s, k)
             \/ Return(Nil, "assert") /\ lock' = lock /\ bind' = b
      BY <1>2, Zenon DEF PopTake, HeadUsable
    <2>2. k \in Key /\ e \in Expiry /\ h.pool \in Pool
      BY <1>0, <2>1, PoolShape, HeadTyped
    <2> HIDE DEF h, e
    <2>3. t = h \/ t = PushToTail(h.pool, k, e)
      BY DEF PutBack
    <2>4. t.pool \in Pool
      BY <2>2, <2>3, PushToTailTyped
    <2>5. t.ok /\ Shared => k \in Free(t.pool)
      <3>1. CASE h.ok /\ Shared
        BY <2>2, <3>1, PushToTailTyped DEF PutBack
      <3>2. CASE ~(h.ok /\ Shared)
        BY <3>2, Zenon DEF PutBack
      <3> QED
        BY <3>1, <3>2
    <2> HIDE DEF t
    <2>6. /\ LockGranted(k, s.ttl) \in [Key -> Ttl]
          /\ RefreshCache(b, s, k) \in [Name -> [to : Key \cup {Nil}, ttl : Ttl]]
      BY <1>0, <2>2 DEF LockGranted, RefreshCache, Scripts
    <2>7. /\ lock' \in [Key -> Ttl]
          /\ bind' \in [Name -> [to : Key \cup {Nil}, ttl : Ttl]]
      BY <1>0, <2>1, <2>6
    <2>8. script' \in Scripts /\ reply' \in Replies
      BY <2>1, <2>2, ContinueKeepsTypes
    <2>9. TypeOK'
      BY <1>0, <2>1, <2>4, <2>7, <2>8 DEF TypeOK
    <2>10. Shared => GrantStaysFree
      <3>1. Return(Nil, "assert") => reply'.key = Nil
        BY DEF Return
      <3>2. Return(k, "ok") => reply'.key = k
        BY DEF Return
      <3>3. Free(pool)' = Free(t.pool)
        BY <2>1 DEF Free, Members
      <3> QED
        BY <2>1, <2>5, <3>1, <3>2, <3>3 DEF GrantStaysFree
    <2> QED
      BY <2>9, <2>10
  <1>3. CASE PopNothing(b)
    <2>1. /\ Return(Nil, "ok") \/ Return(Nil, "assert")
          /\ bind' = b /\ UNCHANGED <<pool, lock, gcCursor>>
      BY <1>3, Zenon DEF PopNothing
    <2>2. script' \in Scripts /\ reply' \in Replies
      BY <2>1, ContinueKeepsTypes
    <2>3. reply'.key = Nil
      BY <2>1 DEF Return
    <2> QED
      BY <1>0, <2>1, <2>2, <2>3 DEF TypeOK, GrantStaysFree
  <1> QED
    BY <1>1, <1>2, <1>3 DEF PopFromHead

\* A key handed out again to the name bound to it.
LEMMA BoundKeepsTypes ==
    ASSUME TypeOK, NEW s \in Scripts, s.name # NoName, MallocBound(s)
    PROVE  TypeOK'
  <1> DEFINE k == bind[s.name].to
             r == SetItemAllocated(pool, k)
  <1>0. /\ pool \in Pool /\ lock \in [Key -> Ttl] /\ gcCursor \in SUBSET Key
        /\ bind \in [Name -> [to : Key \cup {Nil}, ttl : Ttl]]
        /\ s.name \in Name /\ s.ttl \in Ttl /\ s.bttl \in Ttl
    BY DEF TypeOK, Scripts
  <1>1. k \in Key \cup {Nil} /\ r.pool \in Pool
    BY <1>0, SetItemAllocatedTyped
  <1> HIDE DEF r
  <1>2. /\ RefreshCache(bind, s, k) \in [Name -> [to : Key \cup {Nil}, ttl : Ttl]]
        /\ LockGranted(k, s.ttl) \in [Key -> Ttl]
    BY <1>0, <1>1 DEF RefreshCache, LockGranted
  <1>3. /\ bind' = RefreshCache(bind, s, k) /\ gcCursor' = gcCursor
        /\ pool' = pool \/ pool' = r.pool
        /\ lock' = lock \/ lock' = LockGranted(k, s.ttl)
        /\ Return(k, "ok") \/ Return(Nil, "assert") \/ Return(Nil, "error")
    BY Zenon DEF MallocBound, r
  <1>4. script' \in Scripts /\ reply' \in Replies
    BY <1>1, <1>3, ContinueKeepsTypes
  <1> QED
    BY <1>0, <1>1, <1>2, <1>3, <1>4 DEF TypeOK

\* malloc_key, whole.
LEMMA MallocKeepsTypes ==
    ASSUME TypeOK,
           \/ \E n \in Name \cup {NoName}, t \in LockTtl, bt \in BindTtl : MallocFor(n, t, bt)
           \/ MallocNext
    PROVE  TypeOK' /\ (Shared /\ Name = {} => GrantStaysFree)
  <1>1. ASSUME NEW n \in Name \cup {NoName}, NEW t \in LockTtl, NEW bt \in BindTtl,
               MallocFor(n, t, bt)
        PROVE  TypeOK' /\ (Shared /\ Name = {} => GrantStaysFree)
    <2> DEFINE s == [NoScript EXCEPT !.op = "malloc", !.ttl = t, !.name = n,
                                     !.bttl = IF n = NoName THEN "none" ELSE bt]
               b == IF n = NoName THEN bind ELSE [bind EXCEPT ![n] = Unbound]
    <2>1. s \in Scripts /\ s.op = "malloc" /\ s.name = n
      <3>1. t \in Ttl /\ bt \in Ttl /\ "none" \in Ttl
        BY TimeoutsAreValid DEF Ttl
      <3> QED
        BY TypedStart, <3>1 DEF Scripts, NoScript
    <2>2. b \in [Name -> [to : Key \cup {Nil}, ttl : Ttl]]
      BY TypedStart DEF Unbound, Ttl
    <2>3. CASE BindingUsable(n)
      <3>1. MallocBound(s) /\ n # NoName
        BY <1>1, <2>3 DEF MallocFor, BindingUsable
      <3> HIDE DEF s
      <3> QED
        BY <2>1, <3>1, BoundKeepsTypes
    <2>4. CASE ~BindingUsable(n)
      <3>1. PopFromHead(s, b)
        BY <1>1, <2>4 DEF MallocFor
      <3> HIDE DEF s, b
      <3> QED
        BY <2>1, <2>2, <3>1, PopKeepsTypes
    <2> QED
      BY <2>3, <2>4
  <1>2. CASE MallocNext
    <2>1. /\ script \in Scripts /\ script.op # "idle"
          /\ bind \in [Name -> [to : Key \cup {Nil}, ttl : Ttl]]
          /\ PopFromHead(script, bind)
      BY <1>2 DEF MallocNext, TypeOK
    <2> QED
      BY <2>1, PopKeepsTypes
  <1> QED
    BY <1>1, <1>2

\* Expiries.
LEMMA TimeKeepsTypes ==
    ASSUME TypeOK, TimePasses
    PROVE  TypeOK'
  <1>1. ASSUME NEW k \in Key, LockExpires(k)
        PROVE  TypeOK'
    BY <1>1 DEF LockExpires, TypeOK, Ttl
  <1>2. ASSUME NEW n \in Name, BindingExpires(n)
        PROVE  TypeOK'
    BY <1>2 DEF BindingExpires, TypeOK, Unbound, Ttl
  <1>3. ASSUME NEW k \in Key, ItemExpires(k)
        PROVE  TypeOK'
    <2> DEFINE m == Node(pool.entry[k].prev, pool.entry[k].next, "expired")
    <2>1. pool \in Pool /\ k \in Members(pool) /\ "expired" \in Expiry
      BY <1>3 DEF TypeOK, ItemExpires, Expiry
    <2>2. m \in Item
      BY <2>1, PoolShape, NodeType
    <2>3. /\ pool' = HSet(pool, k, m)
          /\ UNCHANGED <<lock, bind, gcCursor, script, reply>>
      BY <1>3 DEF ItemExpires
    <2> HIDE DEF m
    <2>4. HSet(pool, k, m) \in Pool
      BY <2>1, <2>2, HSetShape
    <2> QED
      BY <2>3, <2>4 DEF TypeOK
  <1> QED
    BY <1>1, <1>2, <1>3 DEF TimePasses

-----------------------------------------------------------------------------
(* Invariants.                                                             *)

\* A step that frees no locked key and locks no free one keeps them apart.
LEMMA FreeStayUnlocked ==
    ASSUME FreeKeysUnlocked, FreedUnlocked
    PROVE  FreeKeysUnlocked'
  BY DEF FreeKeysUnlocked, FreedUnlocked

\* No script round and no expiry leaves IInv.
LEMMA NextKeeps ==
    ASSUME IInv, [Next]_vars
    PROVE  IInv'
  <1> USE DEF IInv
  <1>1. CASE Clear
    BY <1>1, ClearKeeps, FreeStayUnlocked
  <1>2. CASE Extend \/ ExtendNext
    BY <1>2, ExtendKeeps, FreeStayUnlocked
  <1>3. CASE Shrink \/ ShrinkNext
    BY <1>3, ShrinkKeeps, FreeStayUnlocked
  <1>4. CASE Assign \/ AssignNext
    BY <1>4, AssignKeeps, FreeStayUnlocked
  <1>5. CASE Malloc
    BY <1>5, MallocForKeeps, FreeStayUnlocked DEF Malloc
  <1>6. CASE MallocNext
    BY <1>6, MallocNextKeeps, FreeStayUnlocked
  <1>7. CASE FreeKeys \/ FreeNext
    BY <1>7, FreeKeeps, FreeStayUnlocked
  <1>8. CASE Gc \/ GcNext
    BY <1>8, GcKeeps, FreeStayUnlocked
  <1>9. CASE TimePasses
    BY <1>9, TimePassesKeeps, FreeStayUnlocked
  <1>10. CASE UNCHANGED vars
    BY <1>10 DEF vars, SInv, TypeOK, ListWellFormed, FreeKeysUnlocked, Locked,
                 ScriptConsistent, LuaAssertsHold, MallocLocks
  <1> QED
    BY <1>1, <1>2, <1>3, <1>4, <1>5, <1>6, <1>7, <1>8, <1>9, <1>10
    DEF Next, Start, Round

\* IInv is inductive.
THEOREM Inductive == Spec => []IInv
  <1>1. Init => IInv
    BY InitIInv
  <1>2. IInv /\ [Next]_vars => IInv'
    BY NextKeeps
  <1> QED
    BY <1>1, <1>2, PTL DEF Spec

\* The state of the pool, locks, bindings and cursor stays typed.
THEOREM TypeCorrect == Spec => []TypeOK
  BY Inductive, PTL DEF IInv, SInv

\* The free list survives every interleaving of the scripts and expiries.
THEOREM ListAlwaysWellFormed == Spec => []ListWellFormed
  BY Inductive, PTL DEF IInv, SInv

\* A locked key is never in the free list.
THEOREM FreeKeysAlwaysUnlocked == Spec => []FreeKeysUnlocked
  BY Inductive, PTL DEF IInv

\* No Lua assert fires, so no script stops half-way because of one.
THEOREM LuaAssertsAlwaysHold == Spec => []LuaAssertsHold
  BY Inductive, PTL DEF IInv, SInv

-----------------------------------------------------------------------------
(* Action properties.                                                      *)

\* A granted key was locked by nobody when its script began, on either path.
THEOREM GrantsUnlocked == Spec => GrantsOnlyUnlocked
  <1>1. IInv /\ [Next]_vars => [Granted => ~Locked(reply'.key)]_vars
    BY MallocForKeeps, MallocNextKeeps DEF IInv, Granted, Malloc, GrantSound
  <1> QED
    BY <1>1, Inductive, PTL DEF Spec, GrantsOnlyUnlocked

\* Shared mode without names: the popped key is appended again.
THEOREM SharedGrantsStayFree ==
    ASSUME Shared, Name = {}
    PROVE  Spec => SharedGrantStaysFree
  <1>1. IInv /\ [Next]_vars => [Granted => reply'.key \in Free(pool)']_vars
    BY MallocForKeeps, MallocNextKeeps DEF IInv, Granted, Malloc, PopSound
  <1> QED
    BY <1>1, Inductive, PTL DEF Spec, SharedGrantStaysFree

\* malloc answers None only when no key is free.
THEOREM MallocsExhaust == Spec => MallocExhausts
  <1>1. IInv /\ [Next]_vars =>
           [Malloc \/ MallocNext =>
              (script'.op = "idle" /\ reply' = [key |-> Nil, status |-> "ok"]
                 => Free(pool)' = {})]_vars
    BY MallocForKeeps, MallocNextKeeps DEF IInv, Malloc, Exhausted
  <1> QED
    BY <1>1, Inductive, PTL DEF Spec, MallocExhausts

\* No script leaves a member neither free nor locked: where names are bound, as
\* long as no caller passes a timeout <= 0, with which SET EX fails half-way.
THEOREM NoScriptAbandons ==
    ASSUME Name = {} \/ "permanent" \notin LockTtl
    PROVE  Spec => NoScriptAbandonsKey
  <1>1. IInv /\ [Next]_vars => [TimePasses \/ Abandoned' \subseteq Abandoned]_vars
    <2> SUFFICES ASSUME IInv, Start \/ Round PROVE Abandoned' \subseteq Abandoned
      BY DEF Next
    <2>1. CASE Malloc
      <3>1. PICK n \in Name \cup {NoName}, t \in LockTtl, bt \in BindTtl : MallocFor(n, t, bt)
        BY <2>1 DEF Malloc
      <3>2. n = NoName \/ t # "permanent"
        OBVIOUS
      <3> QED
        BY <3>1, <3>2, MallocForKeeps DEF IInv, NothingAbandoned
    <2> QED
      BY <2>1, ClearKeeps, ExtendKeeps, ShrinkKeeps, AssignKeeps, MallocNextKeeps,
         FreeKeeps, GcKeeps DEF IInv, Start, Round, NothingAbandoned
  <1> QED
    BY <1>1, Inductive, PTL DEF Spec, NoScriptAbandonsKey

\* Only extend and assign put keys into the pool.
THEOREM OnlyAddersEnlarge == Spec => OnlyAddersEnlargePool
  <1>1. IInv /\ [Next]_vars =>
           [Members(pool)' \ Members(pool) # {}
              => Extend \/ ExtendNext \/ Assign \/ AssignNext]_vars
    <2> SUFFICES ASSUME IInv, Next, ~(Extend \/ ExtendNext \/ Assign \/ AssignNext)
                 PROVE  NothingAdded
      BY DEF NothingAdded
    <2> QED
      BY ClearKeeps, ShrinkKeeps, MallocForKeeps, MallocNextKeeps, FreeKeeps, GcKeeps,
         TimePassesKeeps DEF IInv, Next, Start, Round, Malloc
  <1> QED
    BY <1>1, Inductive, PTL DEF Spec, OnlyAddersEnlargePool

\* A lock ends by free_keys, by its TTL, or when its key joins the pool anew.
THEOREM LocksEndAsDocumented == Spec => LocksEndOnlyAsDocumented
  <1>1. IInv /\ [Next]_vars =>
           [\A k \in Key : Locked(k) /\ ~Locked(k)' =>
               \/ FreeKeys \/ FreeNext
               \/ lock[k] = "timed" /\ TimePasses
               \/ k \notin Members(pool) /\ k \in Members(pool)']_vars
    <2> SUFFICES ASSUME IInv, Next, NEW k \in Key, Locked(k), ~Locked(k)',
                        ~(FreeKeys \/ FreeNext)
                 PROVE  \/ lock[k] = "timed" /\ TimePasses
                        \/ k \notin Members(pool) /\ k \in Members(pool)'
      OBVIOUS
    <2>1. CASE TimePasses
      <3>1. lock[k] = "timed"
        BY <2>1 DEF TimePasses, LockExpires, BindingExpires, ItemExpires, Locked, IInv,
                    SInv, TypeOK
      <3> QED
        BY <2>1, <3>1
    <2>2. CASE Extend \/ ExtendNext \/ Assign \/ AssignNext
      BY <2>2, ExtendKeeps, AssignKeeps DEF IInv, AddedUnlocked
    <2>3. CASE Clear \/ Shrink \/ ShrinkNext \/ Malloc \/ MallocNext \/ Gc \/ GcNext
      BY <2>3, ClearKeeps, ShrinkKeeps, MallocForKeeps, MallocNextKeeps, GcKeeps
      DEF IInv, Malloc, LocksStay
    <2> QED
      BY <2>1, <2>2, <2>3 DEF Next, Start, Round
  <1> QED
    BY <1>1, Inductive, PTL DEF Spec, LocksEndOnlyAsDocumented

-----------------------------------------------------------------------------
(* The linked list implements a queue.                                     *)

\* What one step may do to the list: nothing; one key outside it leaves the pool;
\* one leaves the list, with the pool or without; one joins; the head goes to
\* the end; or all go.
Stays(p, q)      == SameList(p, q) /\ Members(q) = Members(p)
LeavesOut(p, q)  == \E k \in Members(p) \ Free(p) : SameList(p, q) /\ Members(q) = Members(p) \ {k}
LeavesList(p, q) == \E k \in Free(p) : Removed(p, k, q) /\ Members(q) = Members(p) \ {k}
IsLent(p, q)     == \E k \in Free(p) : /\ Removed(p, k, q) /\ Members(q) = Members(p)
                                       /\ k = p.head \/ Name # {}
Joins(p, q)      == \E k \in Key \ Free(p), e \in Expiry : Appended(p, k, e, q)
Rotates(p, q)    == /\ Shared
                    /\ p.head \in Free(p)
                    /\ \E r \in Pool, e \in Expiry : /\ Removed(p, p.head, r)
                                                     /\ Members(r) = Members(p)
                                                     /\ Appended(r, p.head, e, q)

Moves(p, q) ==
    \/ Stays(p, q) \/ LeavesOut(p, q) \/ LeavesList(p, q) \/ IsLent(p, q)
    \/ Joins(p, q) \/ Rotates(p, q) \/ q = EmptyPool

\* A step that keeps the pool, as reads and expiries do, moves no key.
LEMMA SameStays ==
    ASSUME NEW p
    PROVE  Moves(p, p)
  BY DEF Moves, Stays, SameList

\* shrink, assign and an expired item take a member out, from wherever it is.
LEMMA EvictMoves ==
    ASSUME NEW p \in Pool, WellFormed(p), NEW k \in Members(p)
    PROVE  Moves(p, Evict(p, k).pool)
  BY EvictKeeps DEF Moves, LeavesOut, LeavesList

\* push_to_tail lets one key join at the tail.
LEMMA PushMoves ==
    ASSUME NEW p \in Pool, WellFormed(p), NEW k \in Key \ Free(p), NEW e \in Expiry
    PROVE  Moves(p, PushToTail(p, k, e).pool)
  BY PushToTailKeeps DEF Moves, Joins

\* Adding a member again moves nothing: extend rewrites its expiry only.
LEMMA RelabelMoves ==
    ASSUME NEW p \in Pool, WellFormed(p), NEW k \in Members(p), NEW e \in Expiry
    PROVE  Moves(p, HSet(p, k, Node(p.entry[k].prev, p.entry[k].next, e)))
  BY RelabelKeeps DEF Moves, Stays

\* check_item_health evicts, unlinks, appends or leaves one item.
LEMMA GcMoves ==
    ASSUME NEW p \in Pool, WellFormed(p), NEW k \in Members(p), NEW locked \in BOOLEAN,
           locked => k \notin Free(p)
    PROVE  Moves(p, CheckItemHealth(p, k, locked).pool)
  <1>0. k \in Key /\ p.entry[k].expiry \in Expiry
    BY PoolShape
  <1>1. CASE IsExpired(p, k)
    BY <1>1, EvictMoves DEF CheckItemHealth
  <1>2. CASE ~IsExpired(p, k) /\ p.entry[k].prev = Allocated
    <2>1. k \notin Free(p)
      BY <1>2 DEF Free
    <2>2. CASE locked
      BY <1>2, <2>2, SameStays DEF CheckItemHealth, Done
    <2>3. CASE ~locked
      BY <1>0, <1>2, <2>1, <2>3, PushMoves DEF CheckItemHealth
    <2> QED
      BY <2>2, <2>3
  <1>3. CASE ~IsExpired(p, k) /\ p.entry[k].prev # Allocated
    <2>1. k \in Free(p) /\ ~locked
      BY <1>3 DEF Free
    <2> QED
      BY <1>3, <2>1, SameStays DEF CheckItemHealth, Done
  <1> QED
    BY <1>1, <1>2, <1>3

\* A round of pop_from_head drops or marks the head, or takes it.
LEMMA PopMoves ==
    ASSUME IInv, NEW s, NEW b, PopFromHead(s, b)
    PROVE  Moves(pool, pool')
  <1>0. pool \in Pool /\ WellFormed(pool)
    BY DEF IInv, SInv, TypeOK, ListWellFormed
  <1>1. CASE PopSkip(s, b)
    <2>1. pool.head \in Members(pool) /\ pool.head \in Free(pool)
      BY <1>0, <1>1, HeadOf DEF PopSkip
    <2>2. CASE pool' = DropExpiredHead(pool)
      BY <1>0, <2>1, <2>2, DropExpiredHeadKeeps DEF Moves, LeavesList
    <2>3. CASE pool' = SkipLockedHead(pool)
      BY <1>0, <2>1, <2>3, SkipLockedHeadKeeps DEF Moves, IsLent
    <2> QED
      BY <1>1, <2>2, <2>3 DEF PopSkip
  <1>2. CASE PopTake(s, b)
    <2> DEFINE k == pool.head
               e == pool.entry[k].expiry
               r == TakeHead(pool)
    <2>1. k \in Members(pool) /\ k \in Free(pool) /\ k \in Key /\ e \in Expiry
      BY <1>0, <1>2, HeadOf, PoolShape DEF PopTake, HeadUsable
    <2>2. /\ r.ok /\ r.pool \in Pool /\ WellFormed(r.pool)
          /\ Members(r.pool) = Members(pool) /\ Free(r.pool) = Free(pool) \ {k}
          /\ Removed(pool, k, r.pool)
      BY <1>0, <2>1, TakeHeadKeeps
    <2>3. pool' = IF Shared THEN PushToTail(r.pool, k, e).pool ELSE r.pool
      BY <1>2, <2>2 DEF PopTake, PutBack
    <2> HIDE DEF r, e
    <2>4. CASE Shared
      <3>1. Appended(r.pool, k, e, PushToTail(r.pool, k, e).pool)
        BY <2>1, <2>2, PushToTailKeeps
      <3> QED
        BY <2>1, <2>2, <2>3, <2>4, <3>1 DEF Moves, Rotates
    <2>5. CASE ~Shared
      BY <2>1, <2>2, <2>3, <2>5 DEF Moves, IsLent
    <2> QED
      BY <2>4, <2>5
  <1>3. CASE PopNothing(b)
    BY <1>3, SameStays DEF PopNothing
  <1> QED
    BY <1>1, <1>2, <1>3 DEF PopFromHead

\* malloc lends, drops or rotates one key.
LEMMA MallocMoves ==
    ASSUME IInv, Malloc \/ MallocNext
    PROVE  Moves(pool, pool')
  <1>0. pool \in Pool /\ WellFormed(pool)
    BY DEF IInv, SInv, TypeOK, ListWellFormed
  <1>1. ASSUME NEW s, s.name # NoName, s.name \in Name, BindingUsable(s.name), MallocBound(s)
        PROVE  Moves(pool, pool')
    <2> DEFINE k == bind[s.name].to
               r == SetItemAllocated(pool, k)
    <2>1. k \in Members(pool)
      BY <1>1 DEF BindingUsable
    <2>2. /\ Members(r.pool) = Members(pool)
          /\ IF k \in Free(pool) THEN Removed(pool, k, r.pool) ELSE r.pool = pool
      BY <1>0, <2>1, SetItemAllocatedKeeps
    <2>3. pool' = pool \/ pool' = r.pool
      BY <1>1 DEF MallocBound
    <2> HIDE DEF r, k
    <2> QED
      BY <1>1, <2>2, <2>3, SameStays DEF Moves, IsLent
  <1>2. ASSUME NEW n \in Name \cup {NoName}, NEW t \in LockTtl, NEW bt \in BindTtl,
               MallocFor(n, t, bt)
        PROVE  Moves(pool, pool')
    <2> DEFINE s == [NoScript EXCEPT !.op = "malloc", !.ttl = t, !.name = n,
                                     !.bttl = IF n = NoName THEN "none" ELSE bt]
               b == IF n = NoName THEN bind ELSE [bind EXCEPT ![n] = Unbound]
    <2>1. s.name = n
      BY DEF NoScript
    <2>2. CASE BindingUsable(n)
      <3>1. MallocBound(s) /\ n # NoName
        BY <1>2, <2>2 DEF MallocFor, BindingUsable
      <3> HIDE DEF s
      <3> QED
        BY <1>1, <2>1, <2>2, <3>1
    <2>3. CASE ~BindingUsable(n)
      <3>1. PopFromHead(s, b)
        BY <1>2, <2>3 DEF MallocFor
      <3> HIDE DEF s, b
      <3> QED
        BY <3>1, PopMoves
    <2> QED
      BY <2>2, <2>3
  <1>3. CASE Malloc
    BY <1>2, <1>3 DEF Malloc
  <1>4. CASE MallocNext
    BY <1>4, PopMoves DEF MallocNext
  <1> QED
    BY <1>3, <1>4

\* The other scripts, key by key.
LEMMA KeyMoves ==
    ASSUME IInv, NEW k \in Key, NEW rest, rest.expiry \in Expiry,
           ExtendOne(k, rest) \/ ShrinkOne(k, rest) \/ FreeOne(k, rest)
    PROVE  Moves(pool, pool')
  <1>0. /\ pool \in Pool /\ WellFormed(pool) /\ Free(pool) \subseteq Members(pool)
        /\ Locked(k) => k \notin Free(pool)
    BY DEF IInv, SInv, TypeOK, ListWellFormed, Free, FreeKeysUnlocked
  <1>1. CASE ExtendOne(k, rest)
    <2> DEFINE e == rest.expiry
               r == HSet(pool, k, Node(pool.entry[k].prev, pool.entry[k].next, e))
               s == PushToTail(pool, k, e).pool
    <2> HIDE DEF e, r, s
    <2>1. e \in Expiry
      BY DEF e
    <2>2. CASE k \in Members(pool)
      <3>1. pool' = r
        BY <1>1, <2>2 DEF ExtendOne, r, e
      <3>2. Moves(pool, r)
        BY <1>0, <2>1, <2>2, RelabelMoves DEF r
      <3> QED
        BY <3>1, <3>2
    <2>3. CASE k \notin Members(pool)
      <3>1. pool' = s
        BY <1>1, <2>3 DEF ExtendOne, s, e
      <3>2. k \in Key \ Free(pool)
        BY <1>0, <2>3
      <3>3. Moves(pool, s)
        BY <1>0, <2>1, <3>2, PushMoves DEF s
      <3> QED
        BY <3>1, <3>3
    <2> QED
      BY <2>2, <2>3
  <1>2. CASE ShrinkOne(k, rest)
    <2>1. CASE k \in Members(pool)
      <3>1. pool' = Evict(pool, k).pool
        BY <1>2, <2>1 DEF ShrinkOne
      <3> QED
        BY <1>0, <2>1, <3>1, EvictMoves
    <2>2. CASE k \notin Members(pool)
      <3>1. pool' = pool
        BY <1>2, <2>2 DEF ShrinkOne
      <3> QED
        BY <3>1, SameStays
    <2> QED
      BY <2>1, <2>2
  <1>3. CASE FreeOne(k, rest)
    <2>1. CASE GoesBack(k)
      <3>1. pool' = PushToTail(pool, k, rest.expiry).pool /\ k \in Key \ Free(pool)
        BY <1>0, <1>3, <2>1 DEF FreeOne, GoesBack
      <3> QED
        BY <1>0, <3>1, PushMoves
    <2>2. CASE ~GoesBack(k)
      BY <1>3, <2>2, SameStays DEF FreeOne, Done
    <2> QED
      BY <2>1, <2>2
  <1> QED
    BY <1>1, <1>2, <1>3

\* A round of gc, cursor and reply included, moves what its item check moves.
LEMMA GcOneMoves ==
    ASSUME IInv, NEW k \in Members(pool), NEW rest, GcOne(k, rest)
    PROVE  Moves(pool, pool')
  <1>0. /\ pool \in Pool /\ WellFormed(pool) /\ Locked(k) \in BOOLEAN
        /\ Locked(k) => k \notin Free(pool)
    BY DEF IInv, SInv, TypeOK, ListWellFormed, FreeKeysUnlocked, Locked
  <1>1. pool' = CheckItemHealth(pool, k, Locked(k)).pool
    BY DEF GcOne
  <1> QED
    BY <1>0, <1>1, GcMoves

\* A round of assign evicts one member or adds one key.
LEMMA AssignMoves ==
    ASSUME IInv, NEW s \in Scripts, s.todo \subseteq Members(pool),
           s.add \cap Members(pool) = {}, AssignRound(s)
    PROVE  Moves(pool, pool')
  <1>0. /\ pool \in Pool /\ WellFormed(pool) /\ Free(pool) \subseteq Members(pool)
        /\ s.add \subseteq Key /\ s.expiry \in Expiry
    BY DEF IInv, SInv, TypeOK, ListWellFormed, Free, Scripts
  <1>1. ASSUME NEW k \in s.todo, AssignEvict(k, [s EXCEPT !.todo = @ \ {k}])
        PROVE  Moves(pool, pool')
    BY <1>0, <1>1, EvictMoves DEF AssignEvict
  <1>2. ASSUME NEW k \in s.add, AssignAdd(k, [s EXCEPT !.add = @ \ {k}])
        PROVE  Moves(pool, pool')
    <2> DEFINE rest == [s EXCEPT !.add = @ \ {k}]
    <2>1. rest.expiry = s.expiry
      BY DEF Scripts
    <2> HIDE DEF rest
    <2>2. pool' = PushToTail(pool, k, rest.expiry).pool
      BY <1>2 DEF AssignAdd, rest
    <2>3. k \in Key \ Free(pool)
      BY <1>0
    <2> QED
      BY <1>0, <2>1, <2>2, <2>3, PushMoves
  <1> QED
    BY <1>1, <1>2, SameStays DEF AssignRound

\* Every step of the allocator moves one key at most.
LEMMA NextMoves ==
    ASSUME IInv, [Next]_vars
    PROVE  Moves(pool, pool')
  <1>0. pool \in Pool /\ WellFormed(pool) /\ SInv
    BY DEF IInv, SInv, TypeOK, ListWellFormed
  <1>1. CASE Clear
    BY <1>1 DEF Clear, Moves
  <1>2. CASE Extend
    <2>1. PICK ks \in Batches, e \in ItemTtl : \E k \in ks :
             ExtendOne(k, [NoScript EXCEPT !.op = "extend", !.todo = ks \ {k}, !.expiry = e])
      BY <1>2 DEF Extend
    <2>2. PICK k \in ks :
             ExtendOne(k, [NoScript EXCEPT !.op = "extend", !.todo = ks \ {k}, !.expiry = e])
      BY <2>1
    <2> DEFINE rest == [NoScript EXCEPT !.op = "extend", !.todo = ks \ {k}, !.expiry = e]
    <2>3. rest.expiry \in Expiry /\ k \in Key
      BY <1>0, StartFacts DEF NoScript
    <2> HIDE DEF rest
    <2> QED
      BY <2>2, <2>3, KeyMoves DEF rest
  <1>3. CASE Shrink
    <2>1. PICK ks \in Batches : \E k \in ks :
             ShrinkOne(k, [NoScript EXCEPT !.op = "shrink", !.todo = ks \ {k}])
      BY <1>3 DEF Shrink
    <2>2. PICK k \in ks :
             ShrinkOne(k, [NoScript EXCEPT !.op = "shrink", !.todo = ks \ {k}])
      BY <2>1
    <2> DEFINE rest == [NoScript EXCEPT !.op = "shrink", !.todo = ks \ {k}]
    <2>3. rest.expiry \in Expiry /\ k \in Key
      BY <1>0, StartFacts DEF NoScript, Expiry
    <2> HIDE DEF rest
    <2> QED
      BY <2>2, <2>3, KeyMoves DEF rest
  <1>4. CASE FreeKeys
    <2>1. PICK ks \in Batches, e \in ItemTtl : \E k \in ks :
             FreeOne(k, [NoScript EXCEPT !.op = "free", !.todo = ks \ {k}, !.expiry = e])
      BY <1>4 DEF FreeKeys
    <2>2. PICK k \in ks :
             FreeOne(k, [NoScript EXCEPT !.op = "free", !.todo = ks \ {k}, !.expiry = e])
      BY <2>1
    <2> DEFINE rest == [NoScript EXCEPT !.op = "free", !.todo = ks \ {k}, !.expiry = e]
    <2>3. rest.expiry \in Expiry /\ k \in Key
      BY <1>0, StartFacts DEF NoScript
    <2> HIDE DEF rest
    <2> QED
      BY <2>2, <2>3, KeyMoves DEF rest
  <1>5. CASE ExtendNext \/ ShrinkNext \/ FreeNext
    <2>1. PICK k \in script.todo :
             LET rest == [script EXCEPT !.todo = @ \ {k}]
             IN  ExtendOne(k, rest) \/ ShrinkOne(k, rest) \/ FreeOne(k, rest)
      BY <1>5 DEF ExtendNext, ShrinkNext, FreeNext
    <2>2. k \in Key /\ [script EXCEPT !.todo = @ \ {k}] \in Scripts
      BY <1>0, RoundFacts
    <2>3. [script EXCEPT !.todo = @ \ {k}].expiry \in Expiry
      BY <2>2 DEF Scripts
    <2> QED
      BY <2>1, <2>2, <2>3, KeyMoves
  <1>6. CASE Assign
    <2>1. PICK ks \in Batches, e \in ItemTtl :
             AssignRound([NoScript EXCEPT !.op = "assign", !.expiry = e,
                                          !.todo = Members(pool) \ ks,
                                          !.add  = ks \ Members(pool)])
      BY <1>6 DEF Assign
    <2> DEFINE s == [NoScript EXCEPT !.op = "assign", !.expiry = e,
                                     !.todo = Members(pool) \ ks,
                                     !.add  = ks \ Members(pool)]
    <2>2. s \in Scripts /\ s.todo \subseteq Members(pool) /\ s.add \cap Members(pool) = {}
      BY <1>0, StartFacts DEF Scripts, NoScript
    <2> HIDE DEF s
    <2> QED
      BY <2>1, <2>2, AssignMoves DEF s
  <1>7. CASE AssignNext
    BY <1>0, <1>7, RoundFacts, AssignMoves DEF AssignNext, SInv, ScriptConsistent
  <1>8. CASE Gc
    <2>1. PICK ks \in Batches : \E k \in ks :
             /\ ks \subseteq Members(pool)
             /\ \E rest : GcOne(k, rest)
      BY <1>8 DEF Gc
    <2> QED
      BY <2>1, GcOneMoves
  <1>9. CASE GcNext
    BY <1>0, <1>9, GcOneMoves DEF GcNext, SInv, ScriptConsistent
  <1>10. CASE Malloc \/ MallocNext
    BY <1>10, MallocMoves
  <1>11. CASE TimePasses
    <2>1. ASSUME NEW k \in Key, ItemExpires(k) PROVE Moves(pool, pool')
      BY <1>0, <2>1, RelabelMoves DEF ItemExpires, Expiry
    <2> QED
      BY <1>11, <2>1, SameStays DEF TimePasses, LockExpires, BindingExpires
  <1>12. CASE UNCHANGED vars
    BY <1>12, SameStays DEF vars
  <1> QED
    BY <1>1, <1>2, <1>3, <1>4, <1>5, <1>6, <1>7, <1>8, <1>9, <1>10, <1>11, <1>12
    DEF Next, Start, Round

\* The pool is finite: Redis holds what callers added, one key at a time.
FinitePool == IsFiniteSet(Members(pool))

\* Moving one key leaves finitely many members.
LEMMA MovesFinite ==
    ASSUME NEW p, NEW q, Moves(p, q), IsFiniteSet(Members(p))
    PROVE  IsFiniteSet(Members(q))
  <1>1. \E k : Members(q) \subseteq Members(p) \cup {k}
    BY EmptyPoolSound DEF Moves, Stays, LeavesOut, LeavesList, IsLent, Joins, Rotates, Appended
  <1>2. PICK k : Members(q) \subseteq Members(p) \cup {k}
    BY <1>1
  <1>3. IsFiniteSet(Members(p) \cup {k})
    BY FS_AddElement
  <1> QED
    BY <1>2, <1>3, FS_Subset

\* Taking the first element off a sequence.
LEMMA FrontRemoved ==
    ASSUME NEW S, NEW s \in Seq(S), s # <<>>
    PROVE  RemoveAt(s, 1) = Tail(s) /\ s[1] = Head(s)
  <1>1. 1 \in 1 .. Len(s)
    OBVIOUS
  <1>2. /\ RemoveAt(s, 1) \in Seq(S) /\ Len(RemoveAt(s, 1)) = Len(s) - 1
        /\ \A j \in 1 .. Len(s) - 1 : RemoveAt(s, 1)[j] = s[j + 1]
    BY <1>1, RemoveAtShape
  <1>3. /\ Tail(s) \in Seq(S) /\ Len(Tail(s)) = Len(s) - 1
        /\ \A j \in 1 .. Len(s) - 1 : Tail(s)[j] = s[j + 1]
    BY HeadTailProperties
  <1> QED
    BY <1>2, <1>3, SeqEqual

\* A move of the linked list is a step of the queue.
LEMMA MovesRefine ==
    ASSUME pool \in Pool, WellFormed(pool), FinitePool,
           pool' \in Pool, WellFormed(pool'), Moves(pool, pool')
    PROVE  Fifo!Next \/ UNCHANGED Fifo!fvars
  <1> DEFINE s == GetFreeList(pool)
             t == GetFreeList(pool')
             o == Members(pool) \ Free(pool)
             u == Members(pool') \ Free(pool')
  <1>1. Lists(s, pool) /\ Lists(t, pool')
    BY WalkLists, MovesFinite DEF FinitePool
  <1>2. \A r : Lists(r, pool') => t = r
    BY <1>1, ListUnique
  <1>3. /\ s \in Seq(Free(pool)) /\ DOMAIN s = 1 .. Len(s) /\ Len(s) \in Nat
        /\ {s[i] : i \in DOMAIN s} = Free(pool) /\ Free(pool) \subseteq Members(pool)
        /\ Free(pool) \subseteq Key /\ Members(pool) \subseteq Key
    <2>1. s \in Seq(Free(pool)) /\ DOMAIN s = 1 .. Len(s) /\ Len(s) \in Nat
      BY <1>1 DEF Lists, Chain
    <2>2. {s[i] : i \in 1 .. Len(s)} = Free(pool)
      BY <1>1, ListComplete
    <2> QED
      BY <2>1, <2>2, PoolShape DEF Free
  <1> HIDE DEF s, t
  <1>4. CASE Stays(pool, pool')
    <2>1. t = s /\ u = o
      BY <1>1, <1>2, <1>4, SameLists DEF Stays, SameList
    <2> QED
      BY <2>1 DEF Fifo!fvars, s, t
  <1>5. CASE LeavesOut(pool, pool')
    <2>1. PICK k \in o : SameList(pool, pool') /\ Members(pool') = Members(pool) \ {k}
      BY <1>5 DEF LeavesOut
    <2>2. t = s /\ u = o \ {k} /\ k \in Key
      BY <1>1, <1>2, <1>3, <2>1, SameLists DEF SameList
    <2>3. Fifo!Leave(k)
      BY <2>1, <2>2 DEF Fifo!Leave, s, t
    <2> QED
      BY <2>2, <2>3 DEF Fifo!Next
  <1>6. CASE LeavesList(pool, pool')
    <2>1. PICK k \in Free(pool) : Removed(pool, k, pool') /\ Members(pool') = Members(pool) \ {k}
      BY <1>6 DEF LeavesList
    <2>2. PICK i \in DOMAIN s : s[i] = k /\ Lists(RemoveAt(s, i), pool')
      BY <1>1, <1>3, <2>1, RemovedLists
    <2>3. t = RemoveAt(s, i) /\ u = o \ {k} /\ k \in Key
      BY <1>2, <1>3, <2>1, <2>2, RemovedFree
    <2>4. Fifo!Leave(k)
      BY <2>2, <2>3 DEF Fifo!Leave, Fifo!RemoveAt, RemoveAt, s, t
    <2> QED
      BY <2>3, <2>4 DEF Fifo!Next
  <1>7. CASE IsLent(pool, pool')
    <2>1. PICK k \in Free(pool) : /\ Removed(pool, k, pool') /\ Members(pool') = Members(pool)
                                  /\ k = pool.head \/ Name # {}
      BY <1>7 DEF IsLent
    <2>2. PICK i \in DOMAIN s : /\ s[i] = k /\ Lists(RemoveAt(s, i), pool')
                                /\ k = pool.head => i = 1
      BY <1>1, <1>3, <2>1, RemovedLists
    <2>3. t = RemoveAt(s, i) /\ u = o \cup {k} /\ k \in Key
      BY <1>2, <1>3, <2>1, <2>2, RemovedFree
    <2>4. Fifo!Lend(k)
      BY <2>1, <2>2, <2>3 DEF Fifo!Lend, Fifo!RemoveAt, RemoveAt, s, t
    <2> QED
      BY <2>3, <2>4 DEF Fifo!Next
  <1>8. CASE Joins(pool, pool')
    <2>1. PICK k \in Key \ Free(pool), e \in Expiry : Appended(pool, k, e, pool')
      BY <1>8 DEF Joins
    <2>2. t = Append(s, k)
      BY <1>1, <1>2, <2>1, AppendedLists
    <2>3. u = o \ {k}
      BY <2>1, AppendedWellFormed DEF Appended
    <2>4. k \notin Fifo!Queued
      BY <1>3, <2>1 DEF Fifo!Queued, s
    <2>5. Fifo!Join(k)
      BY <2>2, <2>3, <2>4 DEF Fifo!Join, s, t
    <2> QED
      BY <2>1, <2>5 DEF Fifo!Next
  <1>9. CASE Rotates(pool, pool')
    <2> DEFINE k == pool.head
    <2>1. PICK r \in Pool, e \in Expiry : /\ Removed(pool, k, r) /\ Members(r) = Members(pool)
                                          /\ Appended(r, k, e, pool')
      BY <1>9 DEF Rotates
    <2>2. Shared /\ k \in Free(pool) /\ k \in Key
      BY <1>3, <1>9 DEF Rotates
    <2>3. PICK i \in DOMAIN s : s[i] = k /\ i = 1 /\ Lists(RemoveAt(s, i), r)
      BY <1>1, <1>3, <2>1, <2>2, RemovedLists
    <2>4. s # <<>> /\ Lists(RemoveAt(s, 1), r) /\ s[1] = k
      BY <1>3, <2>3
    <2>5. RemoveAt(s, 1) = Tail(s) /\ k = Head(s)
      BY <1>3, <2>4, FrontRemoved
    <2>6. WellFormed(r) /\ Free(r) = Free(pool) \ {k}
      BY <2>1, <2>2, RemovedWellFormed, RemovedFree
    <2>7. t = Append(Tail(s), Head(s))
      <3>1. k \in Key \ Free(r)
        BY <2>2, <2>6
      <3>2. Lists(Append(RemoveAt(s, 1), k), pool')
        BY <2>1, <2>4, <2>6, <3>1, AppendedLists
      <3> QED
        BY <1>2, <2>5, <3>2
    <2>8. u = o
      BY <2>1, <2>2, <2>6, AppendedWellFormed DEF Appended, Free
    <2>9. Fifo!Rotate
      BY <2>2, <2>4, <2>7, <2>8 DEF Fifo!Rotate, s, t
    <2> QED
      BY <2>9 DEF Fifo!Next
  <1>10. CASE pool' = EmptyPool
    <2>1. t = <<>> /\ u = {}
      <3>1. Lists(<<>>, EmptyPool)
        BY DEF Lists, Chain, Onward, EmptyPool
      <3> QED
        BY <1>2, <1>10, <3>1, EmptyPoolSound
    <2>2. Fifo!Empty
      BY <2>1 DEF Fifo!Empty, t
    <2> QED
      BY <2>2 DEF Fifo!Next
  <1> QED
    BY <1>4, <1>5, <1>6, <1>7, <1>8, <1>9, <1>10 DEF Moves

\* Whatever is called, the pool hash holds finitely many members: every loop over
\* the list in the scripts and in the diagnostics ends.
LEMMA PoolStaysFinite == Spec => [](IInv /\ FinitePool)
  <1>1. Init => IInv /\ FinitePool
    BY InitIInv, EmptyPoolSound, FS_EmptySet DEF Init, FinitePool
  <1>2. IInv /\ FinitePool /\ [Next]_vars => (IInv /\ FinitePool)'
    BY NextKeeps, NextMoves, MovesFinite DEF FinitePool
  <1> QED
    BY <1>1, <1>2, PTL DEF Spec

\* The linked list implements a first-in first-out queue.
THEOREM ListIsFifo == Spec => RefinesFifo
  <1>1. Init => Fifo!Init
    <2> SUFFICES ASSUME Init PROVE Fifo!Init
      OBVIOUS
    <2>1. pool = EmptyPool /\ IsFiniteSet(Members(EmptyPool))
      BY EmptyPoolSound, FS_EmptySet DEF Init
    <2>2. Lists(<<>>, EmptyPool)
      BY DEF Lists, Chain, Onward, EmptyPool
    <2>3. GetFreeList(EmptyPool) = <<>>
      BY <2>1, <2>2, EmptyPoolSound, WalkLists, ListUnique
    <2> QED
      BY <2>1, <2>3, EmptyPoolSound DEF Fifo!Init
  <1>2. IInv /\ FinitePool /\ IInv' /\ [Next]_vars => [Fifo!Next]_Fifo!fvars
    BY NextMoves, MovesRefine DEF IInv, SInv, TypeOK, ListWellFormed
  <1> QED
    BY <1>1, <1>2, PoolStaysFinite, PTL DEF Spec, RefinesFifo, Fifo!Spec
=============================================================================
