------------------------------- MODULE LockPool -------------------------------
(***************************************************************************)
(* RedisLockPool (lock.py 439-528): the Redis Set `<prefix>|<suffix>|pool` *)
(* of keys, and one lock key for each.  Every call is one command or one   *)
(* EVAL; health_check is two, SMEMBERS and then MGET on what it returned.  *)
(***************************************************************************)
CONSTANTS Id          \* the keys callers put into the pool

VARIABLES members,    \* the Set
          locked      \* the keys whose lock key exists
poolvars == <<members, locked>>

PoolInit == members = {} /\ locked = {}

Extend(ids) == members' = members \cup ids /\ UNCHANGED locked
Shrink(ids) == members' = members \ ids /\ UNCHANGED locked

\* Clear is DEL; assign runs DEL and SADD in one EVAL, and is clear for no keys.
\* Locks of the keys that go are left alone.
Clear       == members' = {} /\ UNCHANGED locked
Assign(ids) == members' = ids /\ UNCHANGED locked

\* The lock calls on one key, as Lock has them in detail.
Update(i)  == locked' = locked \cup {i} /\ UNCHANGED members
Unlock(i)  == locked' = locked \ {i} /\ UNCHANGED members
Expires(i) == i \in locked /\ Unlock(i)

\* keys(), and _get_key_lock_status of the keys listed: those it finds locked.
Keys            == members
LockedOf(keys)  == keys \cap locked
=============================================================================
