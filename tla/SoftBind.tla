------------------------------- MODULE SoftBind -------------------------------
(***************************************************************************)
(* The soft-bind calls of RedisAllocator (allocator.py 1110-1160) beside   *)
(* its scripts.  malloc_key and get_soft_bind use the Redis key            *)
(* `<prefix>|<suffix>-cache:bind:<name>`, the variable `bind`.             *)
(* update_soft_bind and unbind_soft_bind hand that key to RedisLock.update *)
(* and unlock, which prefix it once more: they reach another key, `stray`, *)
(* which lies among the lock keys and which no script reads.               *)
(***************************************************************************)
EXTENDS RedisAllocator

VARIABLE stray        \* `<prefix>|<suffix>:<prefix>|<suffix>-cache:bind:<name>`
sbvars == <<vars, stray>>

SBInit == Init /\ stray = [n \in Name |-> Unbound]

\* update_soft_bind: SET ... EX through RedisLock.update.
UpdateSoftBind(n, k) == stray' = [stray EXCEPT ![n] = [to |-> k, ttl |-> "timed"]]

\* unbind_soft_bind: DEL through RedisLock.unlock.
UnbindSoftBind(n) == stray' = [stray EXCEPT ![n] = Unbound]

GetSoftBind(n) == bind[n].to

StrayExpires(n) ==
    /\ stray[n].ttl = "timed"
    /\ stray' = [stray EXCEPT ![n] = Unbound]

SoftBindCall ==
    /\ Idle
    /\ \E n \in Name : \/ \E k \in Key : UpdateSoftBind(n, k)
                       \/ UnbindSoftBind(n) \/ StrayExpires(n)
    /\ UNCHANGED vars

SBNext == SoftBindCall \/ (Next /\ UNCHANGED stray)

SBSpec == SBInit /\ [][SBNext]_sbvars

FairSBSpec == SBSpec /\ Fairness

-----------------------------------------------------------------------------
(* Properties.                                                             *)

\* unbind_soft_bind removes the mapping between a named object and its key
\* (docstring, 1143-1148).  It does not: see `stray`.
UnbindUnbinds ==
    [][\A n \in Name : Idle /\ UnbindSoftBind(n) /\ stray[n].ttl # "none"
                          => GetSoftBind(n)' = Nil]_sbvars
=============================================================================
