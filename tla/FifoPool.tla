------------------------------- MODULE FifoPool -------------------------------
(***************************************************************************)
(* What the free list promises, without links: the free keys wait in a     *)
(* queue.  A key joins at the end, a key may be withdrawn from anywhere,   *)
(* and only the key at the front is handed out; nobody overtakes.          *)
(***************************************************************************)
EXTENDS SequencesExt

CONSTANTS Key,
          Rotating,     \* a key handed out goes straight to the end
          Bindings      \* a key may be bound to a name, and then overtake

VARIABLES queue,        \* the free keys, oldest first
          out           \* the keys of the pool that are not free

fvars == <<queue, out>>

Queued == {queue[i] : i \in DOMAIN queue}

Init == queue = <<>> /\ out = {}

\* A new key, a freed one or one that gc reclaims joins behind the others.
Join(k) ==
    /\ k \notin Queued
    /\ queue' = Append(queue, k)
    /\ out' = out \ {k}

\* Handed out from the front, or from anywhere to the name it is bound to.
Lend(k) ==
    /\ \E i \in DOMAIN queue :
          /\ queue[i] = k
          /\ i = 1 \/ Bindings
          /\ queue' = RemoveAt(queue, i)
    /\ out' = out \cup {k}

Rotate ==
    /\ Rotating
    /\ queue # <<>>
    /\ queue' = Append(Tail(queue), Head(queue))
    /\ UNCHANGED out

\* Evicted or expired.
Leave(k) ==
    /\ \/ \E i \in DOMAIN queue : queue[i] = k /\ queue' = RemoveAt(queue, i)
       \/ k \in out /\ UNCHANGED queue
    /\ out' = out \ {k}

Empty == queue' = <<>> /\ out' = {}

Next == Rotate \/ Empty \/ \E k \in Key : Join(k) \/ Lend(k) \/ Leave(k)

Spec == Init /\ [][Next]_fvars
=============================================================================
