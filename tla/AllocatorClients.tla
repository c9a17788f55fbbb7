--------------------------- MODULE AllocatorClients ---------------------------
(***************************************************************************)
(* The users of one RedisAllocator: clients that hold RedisAllocatorObject *)
(* wrappers (allocator.py 132-262), an administrator who changes the pool, *)
(* RedisAllocatorPolicy.check_health (348-392), and the table of wrappers  *)
(* DefaultRedisAllocatorPolicy.malloc keeps for auto_close (453-494).      *)
(* Each call is one script or one lock command of RedisAllocator (a        *)
(* soft-bind call beside it touches `stray` only); calls of different      *)
(* callers interleave in any order.                                        *)
(*                                                                         *)
(* `lease` is a history variable: the keys a client may believe it holds,  *)
(* from the grant until it frees the key or the key's lock runs out.       *)
(***************************************************************************)
EXTENDS SoftBind

CONSTANTS Client, Nobody,
          AutoClose,    \* DefaultRedisAllocatorPolicy(auto_close=...)
          LateCalls,    \* calls clients also make when their lease has ended
          Readds        \* extend and assign also bring back keys still locked

ASSUME SwitchesAreValid ==
    /\ LateCalls \subseteq {"free", "update", "register"}
    /\ Readds \in BOOLEAN /\ AutoClose \in BOOLEAN
ASSUME NobodyIsNoClient == Nobody \notin Client

VARIABLES obj,      \* the wrapper a client holds: its key and _released
          caller,   \* the client whose malloc script is running
          join,     \* a key granted whose wrapper is not registered yet, and the
                    \* older wrapper found under it, once looked up
          objects,  \* the policy's table: whose wrapper a key names
          lease     \* history: the keys a client believes to hold
cvars == <<sbvars, obj, caller, join, objects, lease>>

NoObject == [key |-> Nil, name |-> NoName, released |-> FALSE]
NotJoining == [key |-> Nil, name |-> NoName, looked |-> FALSE, old |-> Nobody]

\* Wrappers hold a key malloc returned or none; the scripts' state keeps its
\* types whoever calls them.
ClientsTypeOK ==
    /\ TypeOK
    /\ stray \in [Name -> [to : Key \cup {Nil}, ttl : Ttl]]
    /\ obj \in [Client -> [key : Key \cup {Nil}, name : Name \cup {NoName},
                            released : BOOLEAN]]
    /\ caller \in Client \cup {Nobody}
    /\ join \in [Client -> [key : Key \cup {Nil}, name : Name \cup {NoName},
                             looked : BOOLEAN, old : Client \cup {Nobody}]]
    /\ objects \in [Key -> Client \cup {Nobody}]
    /\ lease \in [Client -> SUBSET Key]

ClientsInit ==
    /\ SBInit
    /\ obj = [c \in Client |-> NoObject]
    /\ caller = Nobody
    /\ join = [c \in Client |-> NotJoining]
    /\ objects = [k \in Key |-> Nobody]
    /\ lease = [c \in Client |-> {}]

Policy == <<join, objects>>

Has(c)     == obj[c].key # Nil
Holds(c)   == Has(c) /\ obj[c].key \in lease[c]
Joining(c) == join[c].key # Nil
\* A careful client stops using a wrapper when its timeout has passed; the
\* wrapper itself checks nothing.
MayCall(c, call) == Has(c) /\ ~Joining(c) /\ (call \in LateCalls \/ Holds(c))

-----------------------------------------------------------------------------
(* malloc and refresh                                                      *)

\* A new wrapper, or on refresh the wrapper takes over the new key and keeps
\* _released.
Wrap(c, k, n) == obj' = [obj EXCEPT ![c] = [key |-> k, name |-> n, released |-> @.released]]

\* The reply of a malloc script reaches the policy.  Nobody looks into the table
\* if auto_close is off.
Receive(c, n) ==
    IF script'.op # "idle"
    THEN /\ caller' = c
         /\ UNCHANGED <<obj, Policy, lease>>
    ELSE /\ caller' = Nobody
         /\ IF reply'.key = Nil
            THEN UNCHANGED <<obj, join, lease>>
            ELSE /\ lease' = [lease EXCEPT ![c] = @ \cup {reply'.key}]
                 /\ IF AutoClose
                    THEN /\ join' = [join EXCEPT ![c] = [NotJoining EXCEPT !.key = reply'.key,
                                                                         !.name = n]]
                         /\ UNCHANGED obj
                    ELSE /\ Wrap(c, reply'.key, n)
                         /\ UNCHANGED join
         /\ UNCHANGED objects

CallMalloc(c, n) ==
    /\ ~Joining(c)
    /\ \E t \in LockTtl, bt \in BindTtl : MallocFor(n, t, bt)
    /\ Receive(c, n)
    /\ UNCHANGED stray

Acquire(c) == ~Has(c) /\ \E n \in Name \cup {NoName} : CallMalloc(c, n)

\* refresh() closes the object and mallocs again for its name, also after
\* release(); the old key is not freed.
Refresh(c) == Has(c) /\ CallMalloc(c, obj[c].name)

AwaitMalloc ==
    /\ caller # Nobody
    /\ MallocNext /\ Receive(caller, script.name)
    /\ UNCHANGED stray

\* The policy looks for an older wrapper with the id of the new one (clients of
\* one process whose objects differ by their key only) ...
LookUp(c) ==
    /\ Joining(c) /\ ~join[c].looked
    /\ join' = [join EXCEPT ![c].looked = TRUE, ![c].old = objects[join[c].key]]
    /\ UNCHANGED <<sbvars, obj, caller, objects, lease>>

\* ... closes it, and registers the new one.  A wrapper that refreshes takes the
\* key over from the registered one, which is gone then, and with it its entry;
\* it stays registered under the key it had before.
Register(c) ==
    /\ Joining(c) /\ join[c].looked
    /\ Wrap(c, join[c].key, join[c].name)
    /\ objects' = [objects EXCEPT ![join[c].key] = IF Has(c) THEN Nobody ELSE c]
    /\ join' = [join EXCEPT ![c] = NotJoining]
    /\ UNCHANGED <<sbvars, caller, lease>>

-----------------------------------------------------------------------------
(* release, update, set_unhealthy, set_healthy                             *)

\* release(): nothing when already released; _released is set only after the
\* free script returned.
Release(c) ==
    /\ MayCall(c, "free") /\ ~obj[c].released
    /\ Idle
    /\ \E e \in ItemTtl :
          FreeOne(obj[c].key, [NoScript EXCEPT !.op = "free", !.expiry = e])
    /\ obj' = [obj EXCEPT ![c].released = reply'.status = "ok"]
    /\ lease' = [lease EXCEPT ![c] = @ \ {obj[c].key}]
    /\ UNCHANGED <<stray, caller, Policy>>

\* update(timeout <= 0), free() and free_keys() on the wrapper's key: the
\* wrapper does not remember that it was freed.
FreeThroughUpdate(c) ==
    /\ MayCall(c, "free")
    /\ Idle
    /\ FreeOne(obj[c].key, [NoScript EXCEPT !.op = "free"])
    /\ lease' = [lease EXCEPT ![c] = @ \ {obj[c].key}]
    /\ UNCHANGED <<stray, obj, caller, Policy>>

\* RedisLock.update on a pool key: SET ... EX, whoever holds the lock.
LockKey(k) ==
    /\ Idle
    /\ lock' = [lock EXCEPT ![k] = "timed"]
    /\ UNCHANGED <<pool, bind, gcCursor, script, reply>>

\* RedisLock.unlock on a pool key: DEL.
UnlockKey(k) ==
    /\ Idle
    /\ lock' = [lock EXCEPT ![k] = "none"]
    /\ UNCHANGED <<pool, bind, gcCursor, script, reply>>

\* update(timeout > 0).
Update(c) ==
    /\ MayCall(c, "update") /\ LockKey(obj[c].key)
    /\ lease' = [lease EXCEPT ![c] = @ \cup {obj[c].key}]
    /\ UNCHANGED <<stray, obj, caller, Policy>>

Named(c) == obj[c].name # NoName

\* The name is unbound and the key locked for the unhealthy period; the wrapper
\* is still to be released or refreshed.
SetUnhealthy(c) ==
    /\ MayCall(c, "update")
    /\ IF Named(c) THEN UnbindSoftBind(obj[c].name) ELSE UNCHANGED stray
    /\ LockKey(obj[c].key)
    /\ UNCHANGED <<obj, caller, Policy, lease>>

Rebind(c) == IF Named(c) THEN UpdateSoftBind(obj[c].name, obj[c].key) ELSE UNCHANGED stray

\* Slip for the mutation runs: the test for shared mode is missing.
SetHealthyAlwaysUnlocks(c) ==
    /\ MayCall(c, "update")
    /\ Rebind(c)
    /\ UnlockKey(obj[c].key)
    /\ UNCHANGED <<obj, caller, Policy, lease>>

\* The name is bound again and, in shared mode, the key unlocked.
SetHealthy(c) ==
    /\ MayCall(c, "update")
    /\ Rebind(c)
    /\ IF Shared THEN UnlockKey(obj[c].key) ELSE Idle /\ UNCHANGED vars
    /\ UNCHANGED <<obj, caller, Policy, lease>>

\* The client forgets its wrapper without releasing it, or after releasing it;
\* the table holds it weakly.
Drop(c) ==
    /\ Has(c) /\ ~Joining(c) /\ Idle
    /\ obj' = [obj EXCEPT ![c] = NoObject]
    /\ objects' = [k \in Key |-> IF objects[k] = c THEN Nobody ELSE objects[k]]
    /\ join' = [d \in Client |-> IF join[d].old = c THEN [join[d] EXCEPT !.old = Nobody]
                                 ELSE join[d]]
    /\ UNCHANGED <<sbvars, caller, lease>>

-----------------------------------------------------------------------------
(* Everybody else.                                                         *)

\* Slip: the test for shared mode is missing.
CheckHealthOnceAlwaysUnlocks(k) ==
    /\ LockKey(k) \/ UnlockKey(k)
    /\ UNCHANGED <<stray, obj, caller, Policy, lease>>

\* check_health_once on a key listed earlier by keys(): locks the key for
\* lock_duration (and unbinds its name) when the object is unhealthy, unlocks it
\* in shared mode when it is healthy.
CheckHealthOnce(k) ==
    /\ \/ /\ LockKey(k)
          /\ \/ UNCHANGED stray
             \/ \E n \in Name : UnbindSoftBind(n)
       \/ /\ Shared
          /\ UnlockKey(k)
          /\ UNCHANGED stray
    /\ UNCHANGED <<obj, caller, Policy, lease>>

\* The keys this script has added or will add.
Added == (Members(pool)' \ Members(pool)) \cup script'.add
            \cup (IF script'.op = "extend" THEN script'.todo \ Members(pool) ELSE {})

Administer ==
    /\ \/ (Extend \/ Assign) /\ (Readds \/ \A k \in Added : ~Locked(k))
       \/ Shrink \/ Clear \/ Gc
       \/ ExtendNext \/ AssignNext \/ ShrinkNext \/ GcNext
    /\ UNCHANGED <<stray, obj, caller, Policy, lease>>

\* A lock that runs out ends the leases its holders count with.  The timeout is
\* longer than a malloc takes to register its wrapper.
ClockTicks ==
    /\ \/ TimePasses /\ UNCHANGED stray
       \/ Idle /\ (\E n \in Name : StrayExpires(n)) /\ UNCHANGED vars
    /\ lease' = [c \in Client |-> {k \in lease[c] : ~(Locked(k) /\ ~Locked(k)')}]
    /\ "register" \in LateCalls \/ \A c \in Client : join[c].key \in lease[c] => join[c].key \in lease'[c]
    /\ UNCHANGED <<obj, caller, Policy>>

ClientsNext ==
    \/ \E c \in Client : \/ Acquire(c) \/ Refresh(c) \/ LookUp(c) \/ Register(c)
                         \/ Release(c) \/ FreeThroughUpdate(c) \/ Update(c)
                         \/ SetUnhealthy(c) \/ SetHealthy(c) \/ Drop(c)
    \/ \E k \in Key : CheckHealthOnce(k)
    \/ AwaitMalloc \/ Administer \/ ClockTicks

ClientsSpec == ClientsInit /\ [][ClientsNext]_cvars

-----------------------------------------------------------------------------
(* Properties.                                                             *)

\* Exclusive mode: between its grant and the end of its lease a key belongs to
\* one client only (README.md 211).
Exclusive ==
    ~Shared => \A c, d \in Client : c # d => lease[c] \cap lease[d] = {}

\* A lease is backed by the lock: no step but the end of its TTL takes the lock
\* from a client that still counts on it.  (A TTL that a health check shortened
\* ends the lease as well: a client that goes by its own timeout is not told.)
LeasesAreLocked ==
    ~Shared => \A c \in Client : \A k \in lease[c] : Locked(k)

\* And nobody else's call touches it in any other way: the lock under a lease is
\* changed by its holder, by a health check of its key and by its TTL only.  The
\* health check may put a shorter TTL on it, or one where there was none: the
\* lease then ends with that TTL.
LeaseLocksUndisturbed ==
    [][\A c \in Client : \A k \in lease[c] :
         ~Shared /\ lock'[k] # lock[k] =>
            \/ /\ obj[c].key = k
               /\ Release(c) \/ FreeThroughUpdate(c) \/ Update(c) \/ SetUnhealthy(c)
            \/ CheckHealthOnce(k)
            \/ ClockTicks /\ lock[k] = "timed"]_cvars

\* auto_close closes the object of a wrapper that lost its key, never that of a
\* client which still holds the key, although malloc, registration, refresh and
\* the end of leases of several threads interleave.  (A wrapper that moved on by
\* refresh() stays registered under its old key and is closed with it.)
AutoCloseSparesHolders ==
    [][\A c, d \in Client :
         /\ ~Shared
         /\ Register(c) /\ join[c].old = d /\ d # c
         /\ obj[d].key = join[c].key
         => ~Holds(d)]_cvars
=============================================================================
