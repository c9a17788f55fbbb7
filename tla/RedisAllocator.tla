---------------------------- MODULE RedisAllocator ----------------------------
(***************************************************************************)
(* The Redis side of RedisAllocator (allocator.py 897-1425): the pool, the *)
(* lock keys, the soft bindings and the gc cursor, and one Lua script per  *)
(* operation.                                                              *)
(*                                                                         *)
(* Redis runs one EVAL at a time.  A script that loops (over its keys, or  *)
(* over the unusable heads of pop_from_head) is a first action and, while  *)
(* `script` names it, one action per further round; nothing else happens   *)
(* in between: the server's clock stands still during an EVAL, so no key   *)
(* expires either.  A failing Lua assert or Redis error ends the script    *)
(* and keeps what it wrote.                                                *)
(***************************************************************************)
EXTENDS FreeList

CONSTANTS Name,       \* names objects are soft-bound under
          NoName,     \* malloc without a name, ARGV[2] = ""
          Shared,     \* RedisAllocator(shared=...)
          LockTtl,    \* lock timeouts callers pass: "timed" > 0, "permanent" <= 0
          BindTtl,    \* the same for cache_timeout
          ItemTtl,    \* pool item timeouts: "live" > 0, "never" <= 0
          MaxBatch    \* bound: keys in one extend, shrink, free, assign or gc

ASSUME SharedIsBoolean == Shared \in BOOLEAN
ASSUME NamesAreValid   == NoName \notin Name
ASSUME TimeoutsAreValid == /\ LockTtl \subseteq {"timed", "permanent"}
                           /\ BindTtl \subseteq {"timed", "permanent"}
                           /\ ItemTtl \subseteq {"live", "never"}

VARIABLES pool,       \* see FreeList
          lock,       \* the lock key `<prefix>|<suffix>:<key>`: absent or its TTL
          bind,       \* the binding `...-cache:bind:<name>`: its key and TTL
          gcCursor,   \* `...|gc_cursor`: the members its scan has still to visit
          script,     \* the EVAL in progress
          reply       \* what the last EVAL returned
vars == <<pool, lock, bind, gcCursor, script, reply>>

Ttl     == {"none", "timed", "permanent"}
Unbound == [to |-> Nil, ttl |-> "none"]

Scripts == [op     : {"idle", "extend", "shrink", "assign", "malloc", "free", "gc"},
            todo   : SUBSET Key,           \* keys the loop has still to treat
            add    : SUBSET Key,           \* assign: what is left of assignSet
            expiry : Expiry,               \* timeout_to_expiry(ARGV[1])
            cursor : SUBSET Key,           \* gc: newCursor
            name   : Name \cup {NoName},   \* malloc: its three arguments
            ttl    : Ttl,
            bttl   : Ttl]

NoScript == [op |-> "idle", todo |-> {}, add |-> {}, expiry |-> "never",
             cursor |-> {}, name |-> NoName, ttl |-> "none", bttl |-> "none"]

Replies == [key : Key \cup {Nil}, status : {"ok", "assert", "error"}]

\* Pool, locks, bindings, cursor and the running script keep their types: no Lua
\* script leaves a field that is neither a key, empty nor the sentinel.
TypeOK ==
    /\ pool \in Pool
    /\ lock \in [Key -> Ttl]
    /\ bind \in [Name -> [to : Key \cup {Nil}, ttl : Ttl]]
    /\ gcCursor \in SUBSET Key
    /\ script \in Scripts
    /\ reply \in Replies

Init ==
    /\ pool = EmptyPool
    /\ lock = [k \in Key |-> "none"]
    /\ bind = [n \in Name |-> Unbound]
    /\ gcCursor = {}
    /\ script = NoScript
    /\ reply = [key |-> Nil, status |-> "ok"]

-----------------------------------------------------------------------------
(* The life of a script.                                                   *)

Idle == script.op = "idle"

Locked(k) == lock[k] # "none"

Batches == {ks \in SUBSET Key : ks # {} /\ Cardinality(ks) <= MaxBatch}

Return(key, status) ==
    /\ script' = NoScript
    /\ reply' = [key |-> key, status |-> status]

\* Go on with the rounds that are left, or end; a failed assert ends at once.
Continue(ok, rest, more) ==
    IF ok /\ more
    THEN script' = rest /\ UNCHANGED reply
    ELSE Return(Nil, IF ok THEN "ok" ELSE "assert")

-----------------------------------------------------------------------------
(* clear, extend, shrink, assign                                           *)

Clear ==
    /\ Idle
    /\ pool' = EmptyPool
    /\ Return(Nil, "ok")
    /\ UNCHANGED <<lock, bind, gcCursor>>

\* Slip for the mutation runs: a new key keeps its residual lock.
ExtendOneKeepsLock(k, rest) ==
    LET r == IF k \in Members(pool) THEN Done(pool) ELSE PushToTail(pool, k, rest.expiry)
    IN  /\ pool' = r.pool
        /\ Continue(r.ok, rest, rest.todo # {})
        /\ UNCHANGED <<lock, bind, gcCursor>>

\* A known key only gets the new expiry; a new key loses its residual lock and
\* joins the free list.
ExtendOne(k, rest) ==
    /\ IF k \in Members(pool)
       THEN /\ pool' = HSet(pool, k, Node(pool.entry[k].prev, pool.entry[k].next,
                                          rest.expiry))
            /\ UNCHANGED lock
            /\ Continue(TRUE, rest, rest.todo # {})
       ELSE LET r == PushToTail(pool, k, rest.expiry)
            IN  /\ pool' = r.pool
                /\ lock' = [lock EXCEPT ![k] = "none"]
                /\ Continue(r.ok, rest, rest.todo # {})
    /\ UNCHANGED <<bind, gcCursor>>

Extend ==
    /\ Idle
    /\ \E ks \in Batches, e \in ItemTtl : \E k \in ks :
          ExtendOne(k, [NoScript EXCEPT !.op = "extend", !.todo = ks \ {k}, !.expiry = e])

ExtendNext ==
    /\ script.op = "extend"
    /\ \E k \in script.todo : ExtendOne(k, [script EXCEPT !.todo = @ \ {k}])

\* Slip: eviction deletes the lock.
ShrinkOneDropsLock(k, rest) ==
    LET r == IF k \in Members(pool) THEN Evict(pool, k) ELSE Done(pool)
    IN  /\ pool' = r.pool
        /\ lock' = [lock EXCEPT ![k] = "none"]
        /\ Continue(r.ok, rest, rest.todo # {})
        /\ UNCHANGED <<bind, gcCursor>>

\* The lock of an evicted key stays.
ShrinkOne(k, rest) ==
    /\ IF k \in Members(pool)
       THEN LET r == Evict(pool, k)
            IN  /\ pool' = r.pool
                /\ Continue(r.ok, rest, rest.todo # {})
       ELSE /\ UNCHANGED pool
            /\ Continue(TRUE, rest, rest.todo # {})
    /\ UNCHANGED <<lock, bind, gcCursor>>

Shrink ==
    /\ Idle
    /\ \E ks \in Batches : \E k \in ks :
          ShrinkOne(k, [NoScript EXCEPT !.op = "shrink", !.todo = ks \ {k}])

ShrinkNext ==
    /\ script.op = "shrink"
    /\ \E k \in script.todo : ShrinkOne(k, [script EXCEPT !.todo = @ \ {k}])

\* Members outside the set go first, in HKEYS order; members in the set keep
\* their place and their expiry; then the new keys join, in `pairs` order.
AssignEvict(k, rest) ==
    LET r == Evict(pool, k)
    IN  /\ pool' = r.pool
        /\ Continue(r.ok, rest, rest.todo # {} \/ rest.add # {})
        /\ UNCHANGED <<lock, bind, gcCursor>>

AssignAdd(k, rest) ==
    LET r == PushToTail(pool, k, rest.expiry)
    IN  /\ pool' = r.pool
        /\ lock' = [lock EXCEPT ![k] = "none"]
        /\ Continue(r.ok, rest, rest.add # {})
        /\ UNCHANGED <<bind, gcCursor>>

AssignRound(s) ==
    \/ \E k \in s.todo : AssignEvict(k, [s EXCEPT !.todo = @ \ {k}])
    \/ /\ s.todo = {}
       /\ \E k \in s.add : AssignAdd(k, [s EXCEPT !.add = @ \ {k}])
    \/ /\ s.todo = {} /\ s.add = {}
       /\ Return(Nil, "ok")
       /\ UNCHANGED <<pool, lock, bind, gcCursor>>

\* assign of no keys is clear().
Assign ==
    /\ Idle
    /\ \E ks \in Batches, e \in ItemTtl :
          AssignRound([NoScript EXCEPT !.op = "assign", !.expiry = e,
                                       !.todo = Members(pool) \ ks,
                                       !.add  = ks \ Members(pool)])

AssignNext == script.op = "assign" /\ AssignRound(script)

-----------------------------------------------------------------------------
(* malloc_key                                                              *)

\* refresh_cache
RefreshCache(b, s, k) ==
    IF s.name = NoName THEN b ELSE [b EXCEPT ![s.name] = [to |-> k, ttl |-> s.bttl]]

\* Slip: a locked key is handed out again to the name it is bound to.
BindingUsableIgnoresLock(n) == n # NoName /\ bind[n].to \in Members(pool)

\* The binding still names a member that nobody has locked.
BindingUsable(n) ==
    /\ n # NoName
    /\ bind[n].to \in Members(pool)
    /\ ~Locked(bind[n].to)

\* Slip: the key is granted without a lock.
LockGrantedNever(k, ttl) == lock

\* The locks after a grant: shared mode takes none.
LockGranted(k, ttl) == IF Shared THEN lock ELSE [lock EXCEPT ![k] = ttl]

\* The binding is refreshed first.  SET ... EX rejects a timeout <= 0: the
\* script then ends in an error after the item was marked allocated.
MallocBound(s) ==
    LET k == bind[s.name].to
        r == SetItemAllocated(pool, k)
    IN  /\ bind' = RefreshCache(bind, s, k)
        /\ IF Shared
           THEN /\ Return(k, "ok")
                /\ UNCHANGED <<pool, lock>>
           ELSE /\ pool' = r.pool
                /\ IF ~r.ok
                   THEN Return(Nil, "assert") /\ UNCHANGED lock
                   ELSE IF s.ttl = "permanent"
                   THEN Return(Nil, "error") /\ UNCHANGED lock
                   ELSE Return(k, "ok") /\ lock' = LockGranted(k, s.ttl)
        /\ UNCHANGED gcCursor

\* Slip: the head that is to be skipped stays the head.
PopSkipStays(s, b) ==
    /\ pool.head \in Members(pool)
    /\ IsExpired(pool, pool.head)
    /\ script' = s
    /\ bind' = b
    /\ UNCHANGED <<pool, lock, gcCursor, reply>>

\* Slip: an expired head ends the search instead of being skipped.
PopSkipGivesUp(s, b) ==
    /\ pool.head \in Members(pool)
    /\ IsExpired(pool, pool.head) \/ Locked(pool.head)
    /\ pool' = IF IsExpired(pool, pool.head) THEN DropExpiredHead(pool)
               ELSE SkipLockedHead(pool)
    /\ Return(Nil, "ok")
    /\ bind' = b
    /\ UNCHANGED <<lock, gcCursor>>

\* One round of pop_from_head, `b` being the bindings at that point, and on a
\* usable head the rest of the script.
PopSkip(s, b) ==
    /\ pool.head \in Members(pool)
    /\ \/ /\ IsExpired(pool, pool.head)
          /\ pool' = DropExpiredHead(pool)
       \/ /\ ~IsExpired(pool, pool.head)
          /\ Locked(pool.head)
          /\ pool' = SkipLockedHead(pool)
    /\ script' = s
    /\ bind' = b
    /\ UNCHANGED <<lock, gcCursor, reply>>

HeadUsable ==
    /\ pool.head \in Members(pool)
    /\ ~IsExpired(pool, pool.head)
    /\ ~Locked(pool.head)

\* Slip: shared mode forgets to put the key back.
PutBackNever(r, k, e) == r

\* Shared mode appends the popped key again.
PutBack(r, k, e) == IF r.ok /\ Shared THEN PushToTail(r.pool, k, e) ELSE r

\* A usable head ends the script: it is taken, or rotated, and locked.
PopTake(s, b) ==
    LET k == pool.head
        t == PutBack(TakeHead(pool), k, pool.entry[k].expiry)
    IN  /\ HeadUsable
        /\ pool' = t.pool
        /\ IF t.ok
           THEN /\ Return(k, "ok")
                /\ lock' = LockGranted(k, s.ttl)
                /\ bind' = RefreshCache(b, s, k)
           ELSE /\ Return(Nil, "assert")
                /\ lock' = lock
                /\ bind' = b
        /\ UNCHANGED gcCursor

PopNothing(b) ==
    /\ pool.head \notin Members(pool)
    /\ Return(Nil, IF pool.head = Nil THEN "ok" ELSE "assert")
    /\ bind' = b
    /\ UNCHANGED <<pool, lock, gcCursor>>

PopFromHead(s, b) == PopSkip(s, b) \/ PopTake(s, b) \/ PopNothing(b)

\* malloc_key for a name: a binding that is not usable is deleted before the pop.
MallocFor(n, t, bt) ==
    LET s == [NoScript EXCEPT !.op = "malloc", !.ttl = t, !.name = n,
                              !.bttl = IF n = NoName THEN "none" ELSE bt]
    IN  /\ Idle
        /\ IF BindingUsable(n)
           THEN MallocBound(s)
           ELSE PopFromHead(s, IF n = NoName THEN bind
                               ELSE [bind EXCEPT ![n] = Unbound])

Malloc == \E n \in Name \cup {NoName}, t \in LockTtl, bt \in BindTtl : MallocFor(n, t, bt)

MallocNext == script.op = "malloc" /\ PopFromHead(script, bind)

-----------------------------------------------------------------------------
(* free_keys, gc                                                           *)

\* Slips: a member goes back whether or not its lock existed; an evicted key
\* goes back.
GoesBackTwice(k)   == k \in Members(pool)
GoesBackEvicted(k) == Locked(k)

\* Only a key whose lock existed and that is still a member goes back.
GoesBack(k) == Locked(k) /\ k \in Members(pool)

FreeOne(k, rest) ==
    LET r == IF GoesBack(k) THEN PushToTail(pool, k, rest.expiry) ELSE Done(pool)
    IN  /\ lock' = [lock EXCEPT ![k] = "none"]
        /\ pool' = r.pool
        /\ Continue(r.ok, rest, rest.todo # {})
        /\ UNCHANGED <<bind, gcCursor>>

FreeKeys ==
    /\ Idle
    /\ \E ks \in Batches, e \in ItemTtl : \E k \in ks :
          FreeOne(k, [NoScript EXCEPT !.op = "free", !.todo = ks \ {k}, !.expiry = e])

FreeNext ==
    /\ script.op = "free"
    /\ \E k \in script.todo : FreeOne(k, [script EXCEPT !.todo = @ \ {k}])

\* HSCAN returns some members, in any order.  A scan visits every member that
\* is there from its start to its end; it may also return others.  A batch
\* that is cut short by a failed assert leaves the cursor where it was.
GcOne(k, rest) ==
    LET r    == CheckItemHealth(pool, k, Locked(k))
        more == rest.todo # {}
    IN  /\ pool' = r.pool
        /\ Continue(r.ok, rest, more)
        /\ gcCursor' = IF r.ok /\ ~more THEN rest.cursor ELSE gcCursor
        /\ UNCHANGED <<lock, bind>>

ToVisit == IF gcCursor \cap Members(pool) = {} THEN Members(pool)
           ELSE gcCursor \cap Members(pool)

Gc ==
    /\ Idle
    /\ \E ks \in Batches : \E k \in ks :
          /\ ks \subseteq Members(pool)
          /\ ks \cap ToVisit # {}
          /\ GcOne(k, [NoScript EXCEPT !.op = "gc", !.todo = ks \ {k},
                                       !.cursor = ToVisit \ ks])

GcNext ==
    /\ script.op = "gc"
    /\ \E k \in script.todo : GcOne(k, [script EXCEPT !.todo = @ \ {k}])

-----------------------------------------------------------------------------
(* The server's clock, between two scripts.                                *)

LockExpires(k) ==
    /\ Idle
    /\ lock[k] = "timed"
    /\ lock' = [lock EXCEPT ![k] = "none"]
    /\ UNCHANGED <<pool, bind, gcCursor, script, reply>>

BindingExpires(n) ==
    /\ Idle
    /\ bind[n].ttl = "timed"
    /\ bind' = [bind EXCEPT ![n] = Unbound]
    /\ UNCHANGED <<pool, lock, gcCursor, script, reply>>

ItemExpires(k) ==
    /\ Idle
    /\ k \in Members(pool)
    /\ pool.entry[k].expiry = "live"
    /\ pool' = HSet(pool, k, Node(pool.entry[k].prev, pool.entry[k].next, "expired"))
    /\ UNCHANGED <<lock, bind, gcCursor, script, reply>>

TimePasses ==
    \/ \E k \in Key : LockExpires(k) \/ ItemExpires(k)
    \/ \E n \in Name : BindingExpires(n)

-----------------------------------------------------------------------------

Start == Clear \/ Extend \/ Shrink \/ Assign \/ Malloc \/ FreeKeys \/ Gc

Round == ExtendNext \/ ShrinkNext \/ AssignNext \/ MallocNext \/ FreeNext \/ GcNext

Next == Start \/ Round \/ TimePasses

Spec == Init /\ [][Next]_vars
-----------------------------------------------------------------------------
(* Safety.                                                                 *)

\* The free list stays a sound doubly linked list, at every round of every
\* script, whatever order malloc, free, extend, shrink, assign, clear, gc and
\* expiries come in: the claim of README.md 448, and INV-1 to INV-3 of the tests.
ListWellFormed == WellFormed(pool)

\* No key is free and locked at once (INV-4), so a holder's key cannot be
\* popped again while its lock lasts.  (In shared mode too, as long as nobody
\* locks a pool key through the lock interface.)
FreeKeysUnlocked == \A k \in Free(pool) : ~Locked(k)

\* What the loops of gc and assign rely on between two rounds: the keys they
\* still have to treat are members, those still to be added are not.
ScriptConsistent ==
    /\ script.op \in {"gc", "assign"} => script.todo \subseteq Members(pool)
    /\ script.op = "assign" => script.add \cap Members(pool) = {}

\* None of the Lua asserts of the helpers ever fails, so no script is aborted
\* by one with its work half done.
LuaAssertsHold == reply.status # "assert"

\* malloc hands out only keys whose lock key did not exist when its script
\* began, on the pop path and on the soft-bind path, in both modes.
Granted == (Malloc \/ MallocNext) /\ script'.op = "idle" /\ reply'.key # Nil

GrantsOnlyUnlocked == [][Granted => ~Locked(reply'.key)]_vars

\* A key leaves the state "member, not free, not locked" only through gc or a
\* lost lock; no script may put a key there: malloc marks an item and locks it
\* in one EVAL, free unlocks and re-links in one EVAL.
Abandoned == {k \in Members(pool) \ Free(pool) : ~Locked(k)}

NoScriptAbandonsKey == [][TimePasses \/ Abandoned' \subseteq Abandoned]_vars

\* Shared mode: an allocated key stays available to the others.
SharedGrantStaysFree == [][Granted => reply'.key \in Free(pool)']_vars

\* malloc answers None only when the free list it leaves is empty: no usable
\* key is overlooked behind expired or locked heads.
MallocExhausts ==
    [][Malloc \/ MallocNext =>
         (script'.op = "idle" /\ reply' = [key |-> Nil, status |-> "ok"]
            => Free(pool)' = {})]_vars

\* free, gc and malloc never bring back a key that shrink, assign, clear or gc
\* took out of the pool: only extend and assign enlarge it.
OnlyAddersEnlargePool ==
    [][Members(pool)' \ Members(pool) # {}
         => Extend \/ ExtendNext \/ Assign \/ AssignNext]_vars

\* A lock key ends only by free_keys, by its own TTL or because its key joins
\* the pool anew; eviction, clear and gc leave locks alone (README.md 458-462).
LocksEndOnlyAsDocumented ==
    [][\A k \in Key : Locked(k) /\ ~Locked(k)' =>
         \/ FreeKeys \/ FreeNext
         \/ lock[k] = "timed" /\ TimePasses
         \/ k \notin Members(pool) /\ k \in Members(pool)']_vars

-----------------------------------------------------------------------------
(* Refinement: the linked list is a first-in first-out queue.              *)

Fifo == INSTANCE FifoPool WITH queue    <- GetFreeList(pool),
                               out      <- Members(pool) \ Free(pool),
                               Rotating <- Shared,
                               Bindings <- Name # {}

\* Every script round and every expiry moves at most one key, and only to the
\* end of the queue or out of it: malloc serves keys in the order they became
\* free, and gc, assign and extend never reorder those that wait.
RefinesFifo == Fifo!Spec

-----------------------------------------------------------------------------
(* Liveness.                                                               *)

\* Redis finishes a script it began; a lock's TTL runs out; and callers keep
\* calling gc (DefaultRedisAllocatorPolicy.malloc does before every malloc).
\* All three wait for an idle server, which other scripts interrupt for ever:
\* the last two need strong fairness.
Fairness ==
    /\ WF_vars(Round)
    /\ SF_vars(Gc)
    /\ \A k \in Key : SF_vars(LockExpires(k))

\* Every script ends: a pop that skips heads, and a batch, run out of keys.
ScriptsEnd == ~Idle ~> Idle

\* A key taken under a timed lock and never freed (its holder crashed) comes
\* back to the free list, unless it is taken out of the pool; or a name stays
\* bound to it, whose next malloc may take it before gc does, again and again.
CrashedHolderReclaimed ==
    \A k \in Key :
        <>[](\A n \in Name : bind[n].to # k) =>
           (k \in Members(pool) \ Free(pool)
                      ~> k \in Free(pool) \/ k \notin Members(pool))
=============================================================================
