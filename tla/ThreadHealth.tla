----------------------------- MODULE ThreadHealth -----------------------------
(***************************************************************************)
(* RedisThreadHealthCheckPool (allocator.py 47-88): every thread keeps its *)
(* ident in a RedisLockPool and renews the lock of that ident; whoever     *)
(* wants to know counts with health_check, in two commands.  Threads start *)
(* and end, properly or by a crash, between any two commands.  An ident is *)
(* free for another thread when its thread has ended.                      *)
(***************************************************************************)
EXTENDS LockPool

CONSTANTS Thread,
          Late,       \* threads that may renew after their timeout
          Collide     \* threads of different processes may share an ident

ASSUME SwitchesAreValid == Late \subseteq Thread /\ Collide \in BOOLEAN

VARIABLES thread,     \* each thread's ident, and where it is: "off", "renewed",
                      \* "running" or "withdrawn"
          listing,    \* health_check: what SMEMBERS returned, until MGET
          verdict,    \* what the last health_check counted as locked and as free
          due,        \* history: the threads that are registered, and those that
                      \* have been since before the listing
          left        \* history: idents without a living thread that may be listed
thvars == <<poolvars, thread, listing, verdict, due, left>>

THInit ==
    /\ PoolInit
    /\ thread \in [Thread -> [at : {"off"}, id : Id]]
    /\ listing = [open |-> FALSE, keys |-> {}]
    /\ verdict = [locked |-> {}, free |-> {}]
    /\ due = [t \in Thread |-> "no"]
    /\ left = {}

Monitor == <<listing, verdict>>

-----------------------------------------------------------------------------
(* A thread.                                                               *)

At(t, stage) == thread[t].at = stage
GoTo(t, stage) == thread' = [thread EXCEPT ![t].at = stage]

InUse(i) == \E t \in Thread : ~At(t, "off") /\ thread[t].id = i

\* Slip for the mutation runs: update is left to the caller.
StartUnlocked(t) ==
    /\ At(t, "off")
    /\ \E i \in Id : /\ Collide \/ ~InUse(i)
                     /\ thread' = [thread EXCEPT ![t] = [at |-> "renewed", id |-> i]]
    /\ UNCHANGED <<poolvars, Monitor, due, left>>

\* The first command of initialize: the lock of current_thread().ident.
Start(t) ==
    /\ At(t, "off")
    /\ \E i \in Id : /\ Collide \/ ~InUse(i)
                     /\ Update(i)
                     /\ thread' = [thread EXCEPT ![t] = [at |-> "renewed", id |-> i]]
    /\ UNCHANGED <<Monitor, due, left>>

\* Its second command; a running thread that paused initializes again, which is
\* update() and this.
Register(t) ==
    /\ At(t, "renewed") \/ At(t, "running")
    /\ Extend({thread[t].id})
    /\ GoTo(t, "running")
    /\ due' = [due EXCEPT ![t] = IF @ = "no" THEN "registered" ELSE @]
    /\ left' = left \ {thread[t].id}
    /\ UNCHANGED Monitor

\* update()
Renew(t) ==
    /\ At(t, "running")
    /\ Update(thread[t].id)
    /\ UNCHANGED <<thread, Monitor, due, left>>

\* Slip: finalize unlocks before it withdraws the ident.
WithdrawUnlocks(t) ==
    /\ At(t, "running")
    /\ Unlock(thread[t].id)
    /\ GoTo(t, "withdrawn")
    /\ due' = [due EXCEPT ![t] = "no"]
    /\ UNCHANGED <<Monitor, left>>

\* finalize(): SREM, then DEL.
Withdraw(t) ==
    /\ At(t, "running")
    /\ Shrink({thread[t].id})
    /\ GoTo(t, "withdrawn")
    /\ due' = [due EXCEPT ![t] = "no"]
    /\ left' = IF listing.open THEN left \cup {thread[t].id} ELSE left
    /\ UNCHANGED Monitor

Finish(t) ==
    /\ At(t, "withdrawn")
    /\ Unlock(thread[t].id)
    /\ GoTo(t, "off")
    /\ UNCHANGED <<Monitor, due, left>>

Crash(t) ==
    /\ ~At(t, "off")
    /\ GoTo(t, "off")
    /\ due' = [due EXCEPT ![t] = "no"]
    /\ left' = left \cup {thread[t].id}
    /\ UNCHANGED <<poolvars, Monitor>>

-----------------------------------------------------------------------------
(* health_check, the clock, and others who change the Set.                 *)

\* health_check: keys(), and then the locks of the keys it returned.
ListKeys ==
    /\ ~listing.open
    /\ listing' = [open |-> TRUE, keys |-> Keys]
    /\ due' = [t \in Thread |-> IF due[t] = "registered" THEN "listed" ELSE due[t]]
    /\ UNCHANGED <<poolvars, thread, verdict, left>>

Count ==
    /\ listing.open
    /\ listing' = [open |-> FALSE, keys |-> {}]
    /\ verdict' = [locked |-> LockedOf(listing.keys),
                   free   |-> listing.keys \ LockedOf(listing.keys)]
    /\ due' = [t \in Thread |-> IF due[t] = "listed" THEN "registered" ELSE due[t]]
    /\ UNCHANGED <<poolvars, thread, left>>

\* Slip: the lock is set without its timeout.
LockExpiresNever(i) == FALSE /\ Expires(i) /\ UNCHANGED <<thread, Monitor, due, left>>

\* A thread renews in time, from initialize to finalize.
LockExpires(i) ==
    /\ \A t \in Thread : thread[t].id = i => At(t, "off") \/ t \in Late
    /\ Expires(i)
    /\ UNCHANGED <<thread, Monitor, due, left>>

\* clear() and assign() by others: update() alone does not bring a thread's
\* ident back, and an ident nobody has stays until it is removed.
Administer ==
    /\ \/ Clear
       \/ \E ids \in SUBSET Id \ {{}} : Assign(ids)
    /\ due' = [t \in Thread |-> IF thread[t].id \in members' THEN due[t] ELSE "no"]
    /\ left' = left \cup {i \in members' : \A t \in Thread : thread[t].id = i => ~At(t, "running")}
    /\ UNCHANGED <<thread, Monitor>>

THNext ==
    \/ \E t \in Thread : \/ Start(t) \/ Register(t) \/ Renew(t)
                         \/ Withdraw(t) \/ Finish(t) \/ Crash(t)
    \/ \E i \in Id : LockExpires(i)
    \/ ListKeys \/ Count \/ Administer

THSpec == THInit /\ [][THNext]_thvars

\* The monitor goes on counting, and a lock nobody renews runs out.
FairTHSpec ==
    /\ THSpec
    /\ WF_thvars(ListKeys) /\ WF_thvars(Count)
    /\ \A i \in Id : WF_thvars(LockExpires(i))

-----------------------------------------------------------------------------
(* Properties.                                                             *)

\* A thread that runs and renews in time is counted, and as locked, by every
\* health_check that begins after its initialize, whatever other threads do
\* between the two commands of the check and of their own calls (unless clear or
\* assign removed its ident).
RunningCountsAsLocked ==
    [][Count => \A t \in Thread : due[t] = "listed" => thread[t].id \in verdict'.locked]_thvars

\* An ident is counted as free only if a thread crashed with it, or ended after
\* it was listed (or assign put it there): starting and ending properly leave
\* nothing behind.
CleanEndsLeaveNothing == [][Count => verdict'.free \subseteq left]_thvars

\* The ident of a crashed thread is counted as free in the end, unless another
\* thread takes it over.
CrashesAreNoticed ==
    \A i \in Id :
        i \in members /\ ~InUse(i) ~> i \in verdict.free \/ InUse(i) \/ i \notin members
=============================================================================
