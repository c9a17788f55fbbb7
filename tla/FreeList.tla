------------------------------- MODULE FreeList -------------------------------
(***************************************************************************)
(* The pool of RedisAllocator as three Redis values (allocator.py 613-894):*)
(*   entry : the hash `<prefix>|<suffix>|pool`, key -> prev||next||expiry  *)
(*   head, tail : the pointers `...|pool|head` and `...|pool|tail`         *)
(* and the Lua helpers every script is made of.  Free keys form a doubly   *)
(* linked list; an allocated key has the sentinel in both link fields.     *)
(*                                                                         *)
(* A helper returns the pool it leaves behind and whether every Lua        *)
(* `assert` in it held: a failing assert aborts the EVAL, and Redis keeps  *)
(* the writes made before it.                                              *)
(***************************************************************************)
EXTENDS Integers, Sequences, FiniteSets

CONSTANTS Key,          \* the resource identifiers a caller may add
          Nil,          \* the empty string: no neighbour, no head, no tail
          Allocated     \* ALLOCATED_SENTINEL, "#ALLOCATED"

\* _validate_keys keeps both reserved strings out of the pool.
ASSUME KeysAreValid == Nil \notin Key /\ Allocated \notin Key /\ Nil # Allocated

\* An expiry relative to the server's clock: -1, in the future, in the past.
Expiry == {"never", "live", "expired"}

Item == [prev   : Key \cup {Nil, Allocated},
         next   : Key \cup {Nil, Allocated},
         expiry : Expiry]

Pool == [entry : UNION {[S -> Item] : S \in SUBSET Key},
         head  : Key \cup {Nil},
         tail  : Key \cup {Nil}]

EmptyPool == [entry |-> <<>>, head |-> Nil, tail |-> Nil]

Node(p, n, e) == [prev |-> p, next |-> n, expiry |-> e]
Marker(e)     == Node(Allocated, Allocated, e)

Members(p) == DOMAIN p.entry
Free(p)    == {k \in Members(p) : p.entry[k].prev # Allocated}

-----------------------------------------------------------------------------
(* Redis commands on the three values.                                     *)

HSet(p, k, item) ==
    [p EXCEPT !.entry =
        [x \in Members(p) \cup {k} |-> IF x = k THEN item ELSE p.entry[x]]]

HDel(p, k) == [p EXCEPT !.entry = [x \in Members(p) \ {k} |-> p.entry[x]]]

SetHead(p, k) == [p EXCEPT !.head = k]
SetTail(p, k) == [p EXCEPT !.tail = k]

SetNext(p, k, n) == HSet(p, k, Node(p.entry[k].prev, n, p.entry[k].expiry))
SetPrev(p, k, n) == HSet(p, k, Node(n, p.entry[k].next, p.entry[k].expiry))

\* The outcome of a helper: the pool it leaves, and whether it ran to its end.
Done(p)  == [pool |-> p, ok |-> TRUE]
Abort(p) == [pool |-> p, ok |-> FALSE]

-----------------------------------------------------------------------------
(* The Lua helpers.                                                        *)

IsExpired(p, k) == p.entry[k].expiry = "expired"

\* Slip for the mutation runs: the item joins at the front.
PushToHead(p, k, e) ==
    LET q == HSet(p, k, Node(Nil, p.head, e))
    IN  IF p.head = Nil THEN Done(SetTail(SetHead(q, k), k))
        ELSE Done(SetHead(SetPrev(q, p.head, k), k))

\* push_to_tail: asserts that a known item is detached (or the only node),
\* writes the item, then links the old tail to it.
PushToTail(p, k, e) ==
    IF /\ k \in Members(p)
       /\ \/ p.entry[k].prev \notin {Nil, Allocated}
          \/ p.entry[k].next \notin {Nil, Allocated}
    THEN Abort(p)
    ELSE LET q == HSet(p, k, Node(p.tail, Nil, e))
         IN  IF p.tail = Nil \/ p.head = Nil
             THEN Done(SetTail(SetHead(q, k), k))
             ELSE IF p.tail \in Members(q) /\ q.entry[p.tail].next = Nil
                  THEN Done(SetTail(SetNext(q, p.tail, k), k))
                  ELSE Abort(q)

\* Slip: the new head keeps its old predecessor.
AdvanceHeadKeepsPrev(p, next) ==
    IF next \in Members(p) THEN SetHead(p, next) ELSE SetTail(SetHead(p, Nil), Nil)

\* _advance_head_after_removal: `next` was read before the head was removed.
AdvanceHead(p, next) ==
    IF next \in Members(p)
    THEN SetHead(SetPrev(p, next, Nil), next)
    ELSE SetTail(SetHead(p, Nil), Nil)

\* One round of pop_from_head that skips the head: an expired head leaves the
\* pool, a locked one is marked allocated.
DropExpiredHead(p) == AdvanceHead(HDel(p, p.head), p.entry[p.head].next)
SkipLockedHead(p)  == AdvanceHead(HSet(p, p.head, Marker(p.entry[p.head].expiry)),
                                  p.entry[p.head].next)

\* The last round: the head is usable and leaves the list.
TakeHead(p) ==
    LET item == p.entry[p.head]
    IN  IF item.next # Nil /\ item.next \notin Members(p)
        THEN Abort(p)
        ELSE Done(HSet(AdvanceHead(p, item.next), p.head, Marker(item.expiry)))

\* set_item_allocated: unlink a free item from both neighbours and mark it.
\* An expired item is deleted first, so a neighbour that is the item itself
\* is then missing; the final write puts the item back.
LinkNext(p, k, n) ==
    IF k = Nil THEN Done(SetHead(p, n))
    ELSE IF k \in Members(p) THEN Done(SetNext(p, k, n)) ELSE Abort(p)

LinkPrev(p, k, n) ==
    IF k = Nil THEN Done(SetTail(p, n))
    ELSE IF k \in Members(p) THEN Done(SetPrev(p, k, n)) ELSE Abort(p)

\* Slip: the successor is read from the entry after it was marked.
UnlinkReadsMarker(p, k, item) ==
    LET a == LinkNext(p, item.prev, Allocated)
        b == LinkPrev(a.pool, item.next, item.prev)
    IN  IF a.ok /\ b.ok THEN Done(HSet(b.pool, k, Marker(item.expiry))) ELSE b

Unlink(p, k, item) ==
    LET q == IF item.expiry = "expired" THEN HDel(p, k) ELSE p
        a == LinkNext(q, item.prev, item.next)
        b == LinkPrev(a.pool, item.next, item.prev)
    IN  IF ~a.ok THEN a
        ELSE IF ~b.ok THEN b
        ELSE Done(HSet(b.pool, k, Marker(item.expiry)))

\* set_item_allocated, from anywhere in the list.
SetItemAllocated(p, k) ==
    IF k \notin Members(p) THEN Abort(p)
    ELSE LET item == p.entry[k]
         IN  IF item.prev = Allocated
             THEN IF item.next = Allocated THEN Done(p) ELSE Abort(p)
             ELSE IF item.next = Allocated THEN Abort(p)
             ELSE Unlink(p, k, item)

\* set_item_allocated then HDEL, as shrink, assign and gc remove a member.
Evict(p, k) ==
    LET r == SetItemAllocated(p, k)
    IN  IF r.ok THEN Done(HDel(r.pool, k)) ELSE r

\* Slip: gc looks at free items only.
CheckItemHealthSkipsAllocated(p, k, locked) ==
    IF IsExpired(p, k) THEN Evict(p, k)
    ELSE IF locked THEN SetItemAllocated(p, k) ELSE Done(p)

\* check_item_health: what gc does with one item, `locked` as EXISTS says.
CheckItemHealth(p, k, locked) ==
    IF k \notin Members(p) THEN Abort(p)
    ELSE IF IsExpired(p, k) THEN Evict(p, k)
    ELSE IF p.entry[k].prev = Allocated
         THEN IF locked THEN Done(p) ELSE PushToTail(p, k, p.entry[k].expiry)
         ELSE IF locked THEN SetItemAllocated(p, k) ELSE Done(p)

-----------------------------------------------------------------------------
(* The walk of the list, bounded by HLEN.                                  *)

\* What follows the last node of a path from the head along `next`.
Onward(p, path) ==
    IF path = <<>> THEN p.head
    ELSE IF path[Len(path)] \notin Members(p) THEN Nil
    ELSE p.entry[path[Len(path)]].next

\* The i-th round of the loop: one node more, as long as there is one.
WalkOn(p, path, i) ==
    LET x == Onward(p, path)
    IN  IF Len(path) < i - 1 \/ x \in {Nil, Allocated} THEN path ELSE Append(path, x)

\* get_free_list: head to tail along `next`.
GetFreeList(p) ==
    LET n == Cardinality(Members(p))
        walk[i \in 0 .. n] == IF i = 0 THEN <<>> ELSE WalkOn(p, walk[i - 1], i)
    IN  walk[n]

-----------------------------------------------------------------------------
(* What a sound list is, in parts that local steps can preserve.           *)

\* No entry carries the sentinel in only one link field.
NoHalfAllocated(p) ==
    \A k \in Members(p) : p.entry[k].prev = Allocated <=> p.entry[k].next = Allocated

\* The pointers name the one free node without a predecessor and the one
\* without a successor, and are empty together.
EndsAgree(p) ==
    /\ p.head = Nil <=> p.tail = Nil
    /\ p.head # Nil => p.head \in Free(p)
    /\ p.tail # Nil => p.tail \in Free(p)
    /\ \A k \in Free(p) : p.entry[k].prev = Nil <=> k = p.head
    /\ \A k \in Free(p) : p.entry[k].next = Nil <=> k = p.tail

\* Neighbours point at each other.
LinksMutual(p) ==
    \A k \in Free(p) :
        /\ p.entry[k].next # Nil => /\ p.entry[k].next \in Free(p)
                                    /\ p.entry[p.entry[k].next].prev = k
        /\ p.entry[k].prev # Nil => /\ p.entry[k].prev \in Free(p)
                                    /\ p.entry[p.entry[k].prev].next = k

\* No set of free nodes is closed under `next`.
Acyclic(p) ==
    \A S \in SUBSET Free(p) : S # {} => \E k \in S : p.entry[k].next \notin S

WellFormed(p) ==
    /\ NoHalfAllocated(p)
    /\ EndsAgree(p)
    /\ LinksMutual(p)
    /\ Acyclic(p)
=============================================================================
