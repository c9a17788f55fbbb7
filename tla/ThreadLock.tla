------------------------------ MODULE ThreadLock ------------------------------
(***************************************************************************)
(* ThreadLock (lock.py 531-666) for one key: a defaultdict that threads    *)
(* of one process share.  lock, rlock and the conditional calls run under  *)
(* an RLock; update, unlock and the reads do not.  A step is what the      *)
(* interpreter cannot interrupt: one dictionary operation.  Looking up a   *)
(* missing key calls the Python factory and stores its LockData after      *)
(* that, which is a second step.                                           *)
(***************************************************************************)
EXTENDS Integers

CONSTANTS Owner, Nil, Timeouts, Comparisons,
          Calls,   \* the calls the threads make
          Careful  \* only the owner of a live lock calls update and unlock, and
                   \* no other call overlaps a read of a missing key

ASSUME ThreadLockConstantsAreValid ==
    /\ Owner \subseteq Int /\ Nil \notin Owner
    /\ Timeouts \subseteq Int /\ \A n \in Timeouts : n > 0 \/ n = -1
    /\ Careful \in BOOLEAN
    /\ Calls \subseteq {"lock", "rlock", "set", "del", "update", "unlock", "look"}
    /\ Comparisons \subseteq {">", "<", ">=", "<=", "==", "!="}

VARIABLES entry,   \* _locks[key]: is it there, its value, the time it has left
          mutex,   \* the thread inside `with self._lock`
          thread,  \* where each thread is, and the arguments of its call
          result
thvars == <<entry, mutex, thread, result>>

\* left is expiry - now: -1 no limit, 0 expired.  The value of an expired entry
\* is never read.
Data(v, n) == [there |-> TRUE, value |-> v, left |-> n]
NoData     == [there |-> FALSE, value |-> Nil, left |-> 0]
Default    == Data(Nil, 0)

Live == entry.there /\ entry.left # 0

Resting == [pc |-> "out", call |-> "look", op |-> "==", v |-> Nil, n |-> -1]

THInit ==
    /\ entry = NoData
    /\ mutex = Nil
    /\ thread = [t \in Owner |-> Resting]
    /\ result = [t \in Owner |-> [answer |-> "none", flip |-> FALSE]]

\* What the calls promise: Lock with an rlock that renews.
Spec == INSTANCE Lock WITH value <- IF Live THEN entry.value ELSE Nil,
                           ttl   <- IF Live THEN entry.left ELSE -2,
                           Renews <- TRUE

\* An entry counts down to expired and no further; the mutex has one owner.
THTypeOK ==
    /\ entry \in [there : BOOLEAN, value : Owner \cup {Nil}, left : Timeouts \cup Nat]
    /\ mutex \in Owner \cup {Nil}
    /\ thread \in [Owner -> [pc : {"out", "check", "default", "write"}, call : Calls \cup {"look"},
                             op : Comparisons \cup {"=="}, v : Owner \cup {Nil},
                             n : Timeouts \cup {-1}]]
    /\ result \in [Owner -> Spec!Results]

-----------------------------------------------------------------------------

Goto(t, pc)   == thread' = [thread EXCEPT ![t].pc = pc]
Returns(t, r) ==
    result' = [result EXCEPT ![t] = [answer |-> r, flip |-> ~@.flip]]
Leave(t)      == thread' = [thread EXCEPT ![t] = Resting] /\ mutex' = Nil

\* What careful threads wait for.
Owns(t)     == Live /\ entry.value = t
NoLookUnder == \A t \in Owner : ~(thread[t].pc = "default" /\ thread[t].call = "look")

Guarded == {"lock", "rlock", "set", "del"}

\* Slip for the mutation runs: `with self._lock` is missing.
EnterUnguarded(t) ==
    /\ thread[t].pc = "out"
    /\ \E n \in Timeouts :
          thread' = [thread EXCEPT ![t] = [pc |-> "check", call |-> "lock", op |-> "==",
                                           v |-> t, n |-> n]]
    /\ UNCHANGED <<entry, mutex, result>>

\* lock, rlock, set.. and del.. wait for the RLock.
Enter(t) ==
    /\ thread[t].pc = "out" /\ mutex = Nil
    /\ Careful => NoLookUnder
    /\ mutex' = t
    /\ \E c \in Calls \cap Guarded, op \in Comparisons, v \in Owner, n \in Timeouts :
          thread' = [thread EXCEPT ![t] = [pc |-> "check", call |-> c,
              op |-> IF c \in {"set", "del"} THEN op ELSE "==",
              v  |-> IF c = "set" THEN v ELSE t,
              n  |-> IF c = "del" THEN -1 ELSE n]]
    /\ UNCHANGED <<entry, result>>

\* Whether the entry that was read lets the call go on to its write.
Passes(t) ==
    LET c == thread[t].call
    IN  Live => \/ c = "rlock" /\ entry.value = t
                \/ c \in {"set", "del"} /\ Spec!Compare(thread[t].op, t, entry.value)

Check(t) ==
    /\ thread[t].pc = "check"
    /\ \/ /\ ~entry.there
          /\ Goto(t, "default")
          /\ UNCHANGED <<mutex, result>>
       \/ /\ entry.there /\ Passes(t)
          /\ Goto(t, "write")
          /\ UNCHANGED <<mutex, result>>
       \/ /\ entry.there /\ ~Passes(t)
          /\ Returns(t, "false")
          /\ Leave(t)
    /\ UNCHANGED entry

\* defaultdict.__missing__ stores the default, over whatever is there by now.
StoreDefault(t) ==
    /\ thread[t].pc = "default"
    /\ entry' = Default
    /\ Goto(t, IF thread[t].call = "look" THEN "out" ELSE "write")
    /\ UNCHANGED <<mutex, result>>

Write(t) ==
    /\ thread[t].pc = "write"
    /\ entry' = IF thread[t].call = "del" THEN NoData
                ELSE Data(thread[t].v, thread[t].n)
    /\ Returns(t, "true")
    /\ Leave(t)

\* update and unlock do not take the RLock.  unlock answers whether an entry was
\* there, an expired one included.
Update(t) ==
    /\ "update" \in Calls /\ thread[t].pc = "out"
    /\ Careful => Owns(t)
    /\ \E n \in Timeouts : entry' = Data(t, n)
    /\ Returns(t, "none")
    /\ UNCHANGED <<mutex, thread>>

Unlock(t) ==
    /\ "unlock" \in Calls /\ thread[t].pc = "out"
    /\ Careful => Owns(t)
    /\ entry' = NoData
    /\ Returns(t, IF entry.there THEN "true" ELSE "false")
    /\ UNCHANGED <<mutex, thread>>

\* is_locked, lock_value and key_status of a missing key.
Look(t) ==
    /\ "look" \in Calls /\ thread[t].pc = "out"
    /\ ~entry.there
    /\ Careful => \A u \in Owner : thread[u].pc = "out"
    /\ thread' = [thread EXCEPT ![t] = [Resting EXCEPT !.pc = "default"]]
    /\ UNCHANGED <<entry, mutex, result>>

\* Slip: time also runs for an entry without a limit.
TickAlways ==
    /\ entry.there
    /\ entry' = [entry EXCEPT !.left = @ - 1]
    /\ UNCHANGED <<mutex, thread, result>>

Tick ==
    /\ entry.left > 0
    /\ entry' = IF entry.left = 1 THEN Default ELSE [entry EXCEPT !.left = @ - 1]
    /\ UNCHANGED <<mutex, thread, result>>

THNext ==
    \/ \E t \in Owner : \/ Enter(t) \/ Check(t) \/ StoreDefault(t) \/ Write(t)
                        \/ Update(t) \/ Unlock(t) \/ Look(t)
    \/ Tick

THSpec == THInit /\ [][THNext]_thvars

-----------------------------------------------------------------------------
(* Properties.                                                             *)

\* However careful threads interleave, every call takes effect at once and returns
\* what it would return if it ran alone (docstring, 544-548): the calls that take
\* the RLock run beside each other, update and unlock come from the owner of a live
\* lock, and a lookup of a missing key overlaps no other call.  The lock
\* implemented is one whose rlock renews; RedisLock's does not.
RefinesLock == Spec!LockSpec
=============================================================================
