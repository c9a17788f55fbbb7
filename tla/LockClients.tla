------------------------------ MODULE LockClients ------------------------------
(***************************************************************************)
(* Callers that share one RedisLock key and count on what its calls told   *)
(* them (README 60-115): `due` is the time each of them still believes it  *)
(* owns the key, counted from its last successful call.                    *)
(***************************************************************************)
EXTENDS Lock

CONSTANTS Late,       \* calls that owners also make after their time is up
          Hopeful     \* owners take a True of one more rlock for new time

ASSUME LateIsValid    == Late \subseteq {"update", "unlock"}
ASSUME HopefulIsValid == Hopeful \in BOOLEAN
ASSUME TimeoutsEnd == \A n \in Timeouts : n > 0

VARIABLE due
lcvars == <<value, ttl, result, due>>

\* The key is a lock key, and what owners count with never runs below zero.
DueTypeOK == LockTypeOK /\ due \in [Owner -> Nat]

LCInit == LockInit /\ due = [o \in Owner |-> 0]

Trusts(o, n) == due' = [due EXCEPT ![o] = n]

\* A call that was answered True is good for its timeout.
Believes(o, n) == IF result'[o].answer = "true" THEN Trusts(o, n) ELSE UNCHANGED due

MayForce(o, call) == due[o] > 0 \/ call \in Late

Acquire(o) == \E n \in Timeouts : TryLock(o, n) /\ Believes(o, n)

\* An owner that calls rlock again learns that it still owns the key, for the time
\* it counts with already.
Reacquire(o) ==
    /\ "rlock" \in Calls
    /\ \E n \in Timeouts :
          /\ RLock(o, n)
          /\ IF due[o] > 0 /\ ~Hopeful THEN UNCHANGED due ELSE Believes(o, n)

Extend(o) ==
    /\ MayForce(o, "update")
    /\ \E n \in Timeouts : Update(o, n) /\ Trusts(o, n)

Release(o) == MayForce(o, "unlock") /\ Unlock(o) /\ Trusts(o, 0)

\* seteq(key, me, ex=n) and deleq(key, me) compare first, and need no care.
ExtendMine(o)  == \E n \in Timeouts : SetIf(o, "==", o, n) /\ Believes(o, n)
ReleaseMine(o) == DelIf(o, "==") /\ Trusts(o, 0)

ClockTicks ==
    /\ Tick
    /\ due' = [o \in Owner |-> IF due[o] > 0 THEN due[o] - 1 ELSE 0]

LCNext ==
    \/ \E o \in Owner : \/ Acquire(o) \/ Reacquire(o) \/ Extend(o) \/ Release(o)
                        \/ ExtendMine(o) \/ ReleaseMine(o)
    \/ ClockTicks

LCSpec == LCInit /\ [][LCNext]_lcvars

-----------------------------------------------------------------------------
(* Properties.                                                             *)

\* An owner that was told True owns the key, and will for all the time it asked
\* for, whatever the others call; so no two ever believe they own it.  One more
\* rlock of the owner adds nothing to that time, nor takes from it.
PromisesKept ==
    \A o \in Owner : due[o] > 0 => value = o /\ ttl >= due[o]
=============================================================================
