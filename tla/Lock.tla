--------------------------------- MODULE Lock ---------------------------------
(***************************************************************************)
(* BaseLock for one key, as RedisLock implements it (lock.py 274-436):     *)
(* every call is one Redis command or one EVAL, and the key runs out with  *)
(* its TTL.  Keys do not interact.  A value is the number its owner locks  *)
(* with, so the conditional calls can compare values.                      *)
(***************************************************************************)
EXTENDS Integers

CONSTANTS Owner,      \* the callers, each named by the value it locks with
          Nil,        \* no value
          Timeouts,   \* timeouts callers pass, in ticks; -1 is none at all
          Calls,      \* the calls in use
          Comparisons,\* and the comparisons of the conditional ones
          Renews      \* whether rlock renews a key its caller owns: RedisLock's
                      \* does not, ThreadLock's does

ASSUME LockConstantsAreValid ==
    /\ Owner \subseteq Int /\ Nil \notin Owner
    /\ Timeouts \subseteq Int
    /\ \A n \in Timeouts : n > 0 \/ n = -1
    /\ Calls \subseteq {"lock", "rlock", "set", "del", "update", "unlock", "look"}
    /\ Comparisons \subseteq {">", "<", ">=", "<=", "==", "!="}
    /\ Renews \in BOOLEAN

VARIABLES value,      \* what GET answers
          ttl,        \* what TTL answers: -2 no key, -1 no limit
          result      \* what each caller's last call returned, and a bit that
                      \* flips with every call
lvars == <<value, ttl, result>>

Results == [answer : {"none", "true", "false"}, flip : BOOLEAN]

\* A key has a value exactly as long as it has a TTL, and no TTL is 0.
LockTypeOK ==
    /\ value \in Owner \cup {Nil}
    /\ ttl \in {n \in Int : n >= -2 /\ n # 0}
    /\ value = Nil <=> ttl = -2
    /\ result \in [Owner -> Results]

LockInit ==
    /\ value = Nil
    /\ ttl = -2
    /\ result = [o \in Owner |-> [answer |-> "none", flip |-> FALSE]]

-----------------------------------------------------------------------------

Give(v, n) == value' = v /\ ttl' = n
Take       == value' = Nil /\ ttl' = -2
Keep       == UNCHANGED <<value, ttl>>

Returns(o, r) ==
    result' = [result EXCEPT ![o] = [answer |-> r, flip |-> ~@.flip]]

\* update: SET, whoever holds the key.
Update(o, n) == Give(o, n) /\ Returns(o, "none")

\* lock: SET NX.
TryLock(o, n) ==
    \/ /\ value = Nil
       /\ Give(o, n)
       /\ Returns(o, "true")
    \/ /\ value # Nil
       /\ Keep
       /\ Returns(o, "false")

\* Slip for the mutation runs: any holder's value counts as success.
RLockTakesAny(o, n) == Give(o, n) /\ Returns(o, "true")

\* rlock: SET NX GET; the caller's own value counts as success, and keeps the TTL
\* it has.
RLock(o, n) ==
    \/ /\ value = Nil
       /\ Give(o, n)
       /\ Returns(o, "true")
    \/ /\ value = o
       /\ IF Renews THEN Give(o, n) ELSE Keep
       /\ Returns(o, "true")
    \/ /\ value \notin {Nil, o}
       /\ Keep
       /\ Returns(o, "false")

\* unlock: DEL, whoever holds the key.
Unlock(o) == Take /\ Returns(o, IF value # Nil THEN "true" ELSE "false")

\* The value offered against the value found (up to eps, which integers do
\* not need).
Compare(op, offered, found) ==
    CASE op = ">"  -> offered > found
      [] op = "<"  -> offered < found
      [] op = ">=" -> offered >= found
      [] op = "<=" -> offered <= found
      [] op = "==" -> offered = found
      [] op = "!=" -> offered # found

\* A missing key satisfies every condition.
Condition(op, offered) == value # Nil => Compare(op, offered, value)

\* setgt ... setne, and delgt ... delne: one conditional EVAL.
SetIf(o, op, v, n) ==
    \/ /\ Condition(op, o)
       /\ Give(v, n)
       /\ Returns(o, "true")
    \/ /\ ~Condition(op, o)
       /\ Keep
       /\ Returns(o, "false")

DelIf(o, op) ==
    \/ /\ Condition(op, o)
       /\ Take
       /\ Returns(o, "true")
    \/ /\ ~Condition(op, o)
       /\ Keep
       /\ Returns(o, "false")

\* One tick of the clock; a key whose time is up is gone.
Tick ==
    /\ ttl > 0
    /\ IF ttl = 1 THEN Take ELSE Give(value, ttl - 1)
    /\ UNCHANGED result

Call(o) ==
    \/ \E n \in Timeouts : \/ "update" \in Calls /\ Update(o, n)
                           \/ "lock"   \in Calls /\ TryLock(o, n)
                           \/ "rlock"  \in Calls /\ RLock(o, n)
    \/ "unlock" \in Calls /\ Unlock(o)
    \/ \E op \in Comparisons :
          \/ "del" \in Calls /\ DelIf(o, op)
          \/ "set" \in Calls /\ \E v \in Owner, n \in Timeouts : SetIf(o, op, v, n)

LockNext == Tick \/ \E o \in Owner : Call(o)

LockSpec == LockInit /\ [][LockNext]_lvars
=============================================================================
