---------------------------- MODULE FreeListProofs ----------------------------
(* Lemmas about the Lua helpers: each keeps a sound list sound.            *)
EXTENDS FreeList, SequencesExt, SequenceTheorems, FiniteSetTheorems,
        WellFoundedInduction, TLAPS

\* What a pool is made of: members are keys, items and pointers have their types.
LEMMA PoolShape ==
    ASSUME NEW p \in Pool
    PROVE  /\ Members(p) \subseteq Key
           /\ \A k \in Members(p) :
                /\ p.entry[k] \in Item
                /\ p.entry[k].prev \in Key \cup {Nil, Allocated}
                /\ p.entry[k].next \in Key \cup {Nil, Allocated}
                /\ p.entry[k].expiry \in Expiry
           /\ p.head \in Key \cup {Nil}
           /\ p.tail \in Key \cup {Nil}
           /\ p = [entry |-> p.entry, head |-> p.head, tail |-> p.tail]
  BY DEF Pool, Members, Item

\* What is made of items under keys and two pointers is a pool.
LEMMA PoolBuilt ==
    ASSUME NEW S \in SUBSET Key, NEW f \in [S -> Item],
           NEW h \in Key \cup {Nil}, NEW t \in Key \cup {Nil}
    PROVE  [entry |-> f, head |-> h, tail |-> t] \in Pool
  <1>1. f \in UNION {[T -> Item] : T \in SUBSET Key}
    OBVIOUS
  <1> QED
    BY <1>1 DEF Pool

\* HSET writes one item and leaves the others and both pointers.
LEMMA HSetShape ==
    ASSUME NEW p \in Pool, NEW k \in Key, NEW item \in Item
    PROVE  /\ HSet(p, k, item) \in Pool
           /\ Members(HSet(p, k, item)) = Members(p) \cup {k}
           /\ HSet(p, k, item).entry[k] = item
           /\ \A x \in Members(p) \ {k} : HSet(p, k, item).entry[x] = p.entry[x]
           /\ HSet(p, k, item).head = p.head
           /\ HSet(p, k, item).tail = p.tail
  <1> DEFINE f == [x \in Members(p) \cup {k} |-> IF x = k THEN item ELSE p.entry[x]]
  <1>1. Members(p) \cup {k} \in SUBSET Key
    BY PoolShape
  <1>2. f \in [Members(p) \cup {k} -> Item]
    BY PoolShape
  <1>3. HSet(p, k, item) = [entry |-> f, head |-> p.head, tail |-> p.tail]
    BY PoolShape DEF HSet
  <1>4. p.head \in Key \cup {Nil} /\ p.tail \in Key \cup {Nil}
    BY PoolShape
  <1> HIDE DEF f
  <1>5. [entry |-> f, head |-> p.head, tail |-> p.tail] \in Pool
    BY <1>1, <1>2, <1>4, PoolBuilt
  <1>6. HSet(p, k, item) \in Pool
    BY <1>3, <1>5
  <1> USE DEF f
  <1> QED
    BY <1>3, <1>6 DEF Members

\* HDEL removes one member and leaves the others and both pointers.
LEMMA HDelShape ==
    ASSUME NEW p \in Pool, NEW k
    PROVE  /\ HDel(p, k) \in Pool
           /\ Members(HDel(p, k)) = Members(p) \ {k}
           /\ \A x \in Members(p) \ {k} : HDel(p, k).entry[x] = p.entry[x]
           /\ HDel(p, k).head = p.head
           /\ HDel(p, k).tail = p.tail
  <1> DEFINE f == [x \in Members(p) \ {k} |-> p.entry[x]]
  <1>1. Members(p) \ {k} \in SUBSET Key
    BY PoolShape
  <1>2. f \in [Members(p) \ {k} -> Item]
    BY PoolShape
  <1>3. HDel(p, k) = [entry |-> f, head |-> p.head, tail |-> p.tail]
    BY PoolShape DEF HDel
  <1>4. p.head \in Key \cup {Nil} /\ p.tail \in Key \cup {Nil}
    BY PoolShape
  <1> HIDE DEF f
  <1>5. [entry |-> f, head |-> p.head, tail |-> p.tail] \in Pool
    BY <1>1, <1>2, <1>4, PoolBuilt
  <1>6. HDel(p, k) \in Pool
    BY <1>3, <1>5
  <1> USE DEF f
  <1> QED
    BY <1>3, <1>6 DEF Members

\* join_pool_value yields an item with the fields it was given.
LEMMA NodeType ==
    ASSUME NEW a \in Key \cup {Nil, Allocated}, NEW b \in Key \cup {Nil, Allocated},
           NEW e \in Expiry
    PROVE  /\ Node(a, b, e) \in Item
           /\ Node(a, b, e).prev = a
           /\ Node(a, b, e).next = b
           /\ Node(a, b, e).expiry = e
  <1>1. Node(a, b, e) = [prev |-> a, next |-> b, expiry |-> e]
    BY DEF Node
  <1>2. [prev |-> a, next |-> b, expiry |-> e] \in Item
    BY DEF Item
  <1> QED
    BY <1>1, <1>2

\* Rewriting the `next` of one item keeps its `prev`, its expiry and all else.
LEMMA SetNextShape ==
    ASSUME NEW p \in Pool, NEW k \in Members(p), NEW n \in Key \cup {Nil, Allocated}
    PROVE  /\ SetNext(p, k, n) \in Pool
           /\ Members(SetNext(p, k, n)) = Members(p)
           /\ SetNext(p, k, n).entry[k] = Node(p.entry[k].prev, n, p.entry[k].expiry)
           /\ \A x \in Members(p) \ {k} : SetNext(p, k, n).entry[x] = p.entry[x]
           /\ SetNext(p, k, n).head = p.head
           /\ SetNext(p, k, n).tail = p.tail
  <1> DEFINE item == Node(p.entry[k].prev, n, p.entry[k].expiry)
  <1>1. k \in Key /\ item \in Item /\ Members(p) \cup {k} = Members(p)
    BY PoolShape, NodeType
  <1> HIDE DEF item
  <1>2. SetNext(p, k, n) = HSet(p, k, item)
    BY DEF SetNext, item
  <1>3. /\ HSet(p, k, item) \in Pool
        /\ Members(HSet(p, k, item)) = Members(p) \cup {k}
        /\ HSet(p, k, item).entry[k] = item
        /\ \A x \in Members(p) \ {k} : HSet(p, k, item).entry[x] = p.entry[x]
        /\ HSet(p, k, item).head = p.head
        /\ HSet(p, k, item).tail = p.tail
    BY <1>1, HSetShape
  <1>4. QED
    BY <1>1, <1>2, <1>3 DEF item

\* Rewriting the `prev` of one item keeps its `next`, its expiry and all else.
LEMMA SetPrevShape ==
    ASSUME NEW p \in Pool, NEW k \in Members(p), NEW n \in Key \cup {Nil, Allocated}
    PROVE  /\ SetPrev(p, k, n) \in Pool
           /\ Members(SetPrev(p, k, n)) = Members(p)
           /\ SetPrev(p, k, n).entry[k] = Node(n, p.entry[k].next, p.entry[k].expiry)
           /\ \A x \in Members(p) \ {k} : SetPrev(p, k, n).entry[x] = p.entry[x]
           /\ SetPrev(p, k, n).head = p.head
           /\ SetPrev(p, k, n).tail = p.tail
  <1> DEFINE item == Node(n, p.entry[k].next, p.entry[k].expiry)
  <1>1. k \in Key /\ item \in Item /\ Members(p) \cup {k} = Members(p)
    BY PoolShape, NodeType
  <1> HIDE DEF item
  <1>2. SetPrev(p, k, n) = HSet(p, k, item)
    BY DEF SetPrev, item
  <1>3. /\ HSet(p, k, item) \in Pool
        /\ Members(HSet(p, k, item)) = Members(p) \cup {k}
        /\ HSet(p, k, item).entry[k] = item
        /\ \A x \in Members(p) \ {k} : HSet(p, k, item).entry[x] = p.entry[x]
        /\ HSet(p, k, item).head = p.head
        /\ HSet(p, k, item).tail = p.tail
    BY <1>1, HSetShape
  <1>4. QED
    BY <1>1, <1>2, <1>3 DEF item

\* SET of the head pointer leaves the hash and the tail alone.
LEMMA SetHeadShape ==
    ASSUME NEW p \in Pool, NEW h \in Key \cup {Nil}
    PROVE  /\ SetHead(p, h) \in Pool
           /\ SetHead(p, h).entry = p.entry
           /\ Members(SetHead(p, h)) = Members(p)
           /\ SetHead(p, h).head = h
           /\ SetHead(p, h).tail = p.tail
  BY DEF SetHead, Pool, Members

\* SET of the tail pointer leaves the hash and the head alone.
LEMMA SetTailShape ==
    ASSUME NEW p \in Pool, NEW t \in Key \cup {Nil}
    PROVE  /\ SetTail(p, t) \in Pool
           /\ SetTail(p, t).entry = p.entry
           /\ Members(SetTail(p, t)) = Members(p)
           /\ SetTail(p, t).head = p.head
           /\ SetTail(p, t).tail = t
  BY DEF SetTail, Pool, Members

-----------------------------------------------------------------------------
(* Removing one node.                                                      *)

\* q is p with the free node k taken out of the list: marked or deleted.
Removed(p, k, q) ==
    /\ Members(q) \ {k} = Members(p) \ {k}
    /\ k \in Members(q) => q.entry[k].prev = Allocated /\ q.entry[k].next = Allocated
    /\ \A x \in Members(p) \ {k} :
          /\ q.entry[x].prev = IF x = p.entry[k].next THEN p.entry[k].prev
                               ELSE p.entry[x].prev
          /\ q.entry[x].next = IF x = p.entry[k].prev THEN p.entry[k].next
                               ELSE p.entry[x].next
    /\ q.head = IF k = p.head THEN p.entry[k].next ELSE p.head
    /\ q.tail = IF k = p.tail THEN p.entry[k].prev ELSE p.tail

\* The neighbours of a free key in a sound list: free, distinct from it, and
\* pointing back at it.
LEMMA NeighboursOf ==
    ASSUME NEW p \in Pool, WellFormed(p), NEW k \in Free(p)
    PROVE  /\ k \in Members(p) /\ k \in Key
           /\ p.entry[k].prev # Allocated /\ p.entry[k].next # Allocated
           /\ p.entry[k].prev # k /\ p.entry[k].next # k
           /\ p.entry[k].prev \in Free(p) \cup {Nil}
           /\ p.entry[k].next \in Free(p) \cup {Nil}
  <1>1. k \in Members(p) /\ k \in Key /\ p.entry[k].prev # Allocated
    BY PoolShape DEF Free
  <1>2. p.entry[k].next # Allocated
    BY <1>1 DEF WellFormed, NoHalfAllocated
  <1>3. p.entry[k].next # k
    BY {k} \in SUBSET Free(p), {k} # {} DEF WellFormed, Acyclic
  <1>4. p.entry[k].prev # k
    BY <1>1, <1>3, KeysAreValid DEF WellFormed, LinksMutual
  <1> QED
    BY <1>1, <1>2, <1>3, <1>4 DEF WellFormed, LinksMutual

\* Following a link of a free key and coming back ends where it began.
LEMMA LinksOf ==
    ASSUME NEW p \in Pool, WellFormed(p), NEW x \in Free(p)
    PROVE  /\ p.entry[x].next # Nil => /\ p.entry[x].next \in Free(p)
                                       /\ p.entry[p.entry[x].next].prev = x
           /\ p.entry[x].prev # Nil => /\ p.entry[x].prev \in Free(p)
                                       /\ p.entry[p.entry[x].prev].next = x
  <1>1. LinksMutual(p)
    BY DEF WellFormed
  <1> QED
    BY <1>1 DEF LinksMutual

\* Taking k out of the links takes exactly k out of the free keys.
LEMMA RemovedFree ==
    ASSUME NEW p \in Pool, WellFormed(p), NEW k \in Free(p),
           NEW q \in Pool, Removed(p, k, q)
    PROVE  Free(q) = Free(p) \ {k}
  <1> DEFINE a == p.entry[k].prev
             b == p.entry[k].next
  <1>0. k \in Members(p) /\ k \in Key /\ a # Allocated /\ b \in Free(p) \cup {Nil}
    BY NeighboursOf
  <1>1. ASSUME NEW x \in Members(p) \ {k}
        PROVE  q.entry[x].prev = Allocated <=> p.entry[x].prev = Allocated
    <2>1. CASE x = b
      <3>1. b \in Free(p)
        BY <2>1, <1>0, PoolShape, KeysAreValid
      <3> QED
        BY <3>1, <2>1, <1>0 DEF Removed, Free
    <2>2. CASE x # b
      BY <2>2 DEF Removed
    <2> QED
      BY <2>1, <2>2
  <1> QED
    BY <1>1 DEF Removed, Free

\* Taking one node out of a sound list leaves a sound list.
LEMMA RemovedWellFormed ==
    ASSUME NEW p \in Pool, WellFormed(p), NEW k \in Free(p),
           NEW q \in Pool, Removed(p, k, q)
    PROVE  WellFormed(q)
  <1> DEFINE a == p.entry[k].prev
             b == p.entry[k].next
  <1>0. /\ k \in Members(p) /\ k \in Key /\ a # Allocated /\ b # Allocated
        /\ a # k /\ b # k /\ a \in Free(p) \cup {Nil} /\ b \in Free(p) \cup {Nil}
    BY NeighboursOf
  <1>1. Free(q) = Free(p) \ {k}
    BY RemovedFree
  <1>2. \A x \in Free(q) : /\ x \in Members(p) \ {k}
                           /\ x \in Key
                           /\ q.entry[x].prev = IF x = b THEN a ELSE p.entry[x].prev
                           /\ q.entry[x].next = IF x = a THEN b ELSE p.entry[x].next
    BY <1>1, PoolShape DEF Removed, Free
  <1>3. NoHalfAllocated(q)
    <2> SUFFICES ASSUME NEW x \in Members(q)
                 PROVE  q.entry[x].prev = Allocated <=> q.entry[x].next = Allocated
      BY DEF NoHalfAllocated
    <2>1. CASE x = k
      BY <2>1 DEF Removed
    <2>2. CASE x # k
      BY <2>2, <1>0, KeysAreValid, PoolShape
      DEF Removed, WellFormed, NoHalfAllocated, LinksMutual, Free
    <2> QED
      BY <2>1, <2>2
  <1>4. /\ \A x \in Free(p) : p.entry[x].next = k <=> x = a
        /\ \A x \in Free(p) : p.entry[x].prev = k <=> x = b
    BY <1>0, KeysAreValid, PoolShape DEF WellFormed, LinksMutual, Free
  <1>5. EndsAgree(q)
    <2>1. (a = Nil <=> k = p.head) /\ (b = Nil <=> k = p.tail)
      BY DEF WellFormed, EndsAgree
    <2>2. q.head = Nil <=> q.tail = Nil
      BY <2>1, <1>0, KeysAreValid DEF Removed, WellFormed, EndsAgree, LinksMutual
    <2>3. q.head # Nil => q.head \in Free(q)
      BY <2>1, <1>0, <1>1 DEF Removed, WellFormed, EndsAgree
    <2>4. q.tail # Nil => q.tail \in Free(q)
      BY <2>1, <1>0, <1>1 DEF Removed, WellFormed, EndsAgree
    <2>5. ASSUME NEW x \in Free(q)
          PROVE  q.entry[x].prev = Nil <=> x = q.head
      BY <2>1, <1>0, <1>1, <1>2, <1>4, KeysAreValid DEF Removed, WellFormed, EndsAgree, LinksMutual
    <2>6. ASSUME NEW x \in Free(q)
          PROVE  q.entry[x].next = Nil <=> x = q.tail
      BY <2>1, <1>0, <1>1, <1>2, <1>4, KeysAreValid DEF Removed, WellFormed, EndsAgree, LinksMutual
    <2> QED
      BY <2>2, <2>3, <2>4, <2>5, <2>6 DEF EndsAgree
  <1>6. LinksMutual(q)
    <2> SUFFICES ASSUME NEW x \in Free(q)
                 PROVE  /\ q.entry[x].next # Nil => /\ q.entry[x].next \in Free(q)
                                                    /\ q.entry[q.entry[x].next].prev = x
                        /\ q.entry[x].prev # Nil => /\ q.entry[x].prev \in Free(q)
                                                    /\ q.entry[q.entry[x].prev].next = x
      BY DEF LinksMutual
    <2>1. q.entry[x].next # Nil => /\ q.entry[x].next \in Free(q)
                                   /\ q.entry[q.entry[x].next].prev = x
      <3>1. CASE x = a
        BY <3>1, <1>0, <1>1, <1>2
      <3>2. CASE x # a
        BY <3>2, <1>0, <1>1, <1>2, <1>4, KeysAreValid DEF WellFormed, LinksMutual
      <3> QED
        BY <3>1, <3>2
    <2>2. q.entry[x].prev # Nil => /\ q.entry[x].prev \in Free(q)
                                   /\ q.entry[q.entry[x].prev].next = x
      <3>1. CASE x = b
        BY <3>1, <1>0, <1>1, <1>2
      <3>2. CASE x # b
        BY <3>2, <1>0, <1>1, <1>2, <1>4, KeysAreValid DEF WellFormed, LinksMutual
      <3> QED
        BY <3>1, <3>2
    <2> QED
      BY <2>1, <2>2
  <1>7. Acyclic(q)
    <2> SUFFICES ASSUME NEW S \in SUBSET Free(q), S # {}
                 PROVE  \E x \in S : q.entry[x].next \notin S
      BY DEF Acyclic
    <2>1. S \subseteq Free(p) /\ k \notin S
      BY <1>1
    <2>2. CASE a \notin S
      <3>1. PICK x \in S : p.entry[x].next \notin S
        BY <2>1 DEF WellFormed, Acyclic
      <3> QED
        BY <3>1, <2>2, <1>2
    <2>3. CASE a \in S
      <3>1. S \cup {k} \in SUBSET Free(p) /\ S \cup {k} # {}
        BY <2>1
      <3>2. PICK x \in S \cup {k} : p.entry[x].next \notin S \cup {k}
        BY <3>1 DEF WellFormed, Acyclic
      <3>3. CASE x = k
        BY <3>3, <3>2, <2>3, <1>2
      <3>4. CASE x # k
        BY <3>4, <3>2, <2>1, <1>2, <1>4
      <3> QED
        BY <3>3, <3>4
    <2> QED
      BY <2>2, <2>3
  <1> QED
    BY <1>3, <1>5, <1>6, <1>7 DEF WellFormed
-----------------------------------------------------------------------------
(* Appending one node.                                                     *)

\* q is p with k, not free in p, appended behind the tail.
Appended(p, k, e, q) ==
    /\ Members(q) = Members(p) \cup {k}
    /\ q.entry[k] = Node(p.tail, Nil, e)
    /\ \A x \in Members(p) \ {k} :
          /\ q.entry[x].prev = p.entry[x].prev
          /\ q.entry[x].next = IF x = p.tail THEN k ELSE p.entry[x].next
    /\ q.head = IF p.head = Nil THEN k ELSE p.head
    /\ q.tail = k

\* Appending a node that is not free to a sound list leaves a sound list.
LEMMA AppendedWellFormed ==
    ASSUME NEW p \in Pool, WellFormed(p), NEW k \in Key \ Free(p), NEW e \in Expiry,
           NEW q \in Pool, Appended(p, k, e, q)
    PROVE  WellFormed(q) /\ Free(q) = Free(p) \cup {k}
  <1> DEFINE t == p.tail
  <1>0. /\ t \in Free(p) \cup {Nil} /\ t \in Key \cup {Nil} /\ t # k
        /\ Free(p) \subseteq Members(p)
        /\ Free(p) \subseteq Key
    BY PoolShape, KeysAreValid DEF WellFormed, EndsAgree, Free
  <1>1. q.entry[k].prev = t /\ q.entry[k].next = Nil /\ t # Allocated
    BY <1>0, NodeType, KeysAreValid DEF Appended, Node
  <1>2. Free(q) = Free(p) \cup {k}
    BY <1>1 DEF Appended, Free
  <1>3. \A x \in Free(p) : /\ x # k
                           /\ q.entry[x].prev = p.entry[x].prev
                           /\ q.entry[x].next = IF x = t THEN k ELSE p.entry[x].next
    BY <1>0 DEF Appended
  <1>4. \A x \in Free(p) : p.entry[x].next # k /\ p.entry[x].prev # k
    BY <1>0, KeysAreValid DEF WellFormed, LinksMutual
  <1>5. NoHalfAllocated(q)
    <2> SUFFICES ASSUME NEW x \in Members(q)
                 PROVE  q.entry[x].prev = Allocated <=> q.entry[x].next = Allocated
      BY DEF NoHalfAllocated
    <2>1. CASE x = k
      BY <2>1, <1>1, KeysAreValid
    <2>2. CASE x # k
      <3>1. x \in Members(p) /\ p.entry[x].prev = Allocated <=> p.entry[x].next = Allocated
        BY <2>2 DEF Appended, WellFormed, NoHalfAllocated
      <3>2. CASE x = t
        BY <3>2, <2>2, <1>0, <1>3, KeysAreValid, PoolShape DEF Free
      <3>3. CASE x # t
        BY <3>1, <3>3, <2>2 DEF Appended, WellFormed, NoHalfAllocated
      <3> QED
        BY <3>2, <3>3
    <2> QED
      BY <2>1, <2>2
  <1>6. EndsAgree(q)
    <2>1. q.tail = k /\ q.head = IF p.head = Nil THEN k ELSE p.head
      BY DEF Appended
    <2>2. \A x \in Free(q) : q.entry[x].prev = Nil <=> x = q.head
      BY <2>1, <1>0, <1>1, <1>2, <1>3, KeysAreValid DEF WellFormed, EndsAgree
    <2>3. \A x \in Free(q) : q.entry[x].next = Nil <=> x = q.tail
      BY <2>1, <1>0, <1>1, <1>2, <1>3, KeysAreValid DEF WellFormed, EndsAgree
    <2> QED
      BY <2>1, <2>2, <2>3, <1>2, KeysAreValid DEF WellFormed, EndsAgree
  <1>7. LinksMutual(q)
    <2> SUFFICES ASSUME NEW x \in Free(q)
                 PROVE  /\ q.entry[x].next # Nil => /\ q.entry[x].next \in Free(q)
                                                    /\ q.entry[q.entry[x].next].prev = x
                        /\ q.entry[x].prev # Nil => /\ q.entry[x].prev \in Free(q)
                                                    /\ q.entry[q.entry[x].prev].next = x
      BY DEF LinksMutual
    <2>1. CASE x = k
      BY <2>1, <1>0, <1>1, <1>2, <1>3
    <2>2. CASE x # k
      <3>1. q.entry[x].next # Nil => /\ q.entry[x].next \in Free(q)
                                     /\ q.entry[q.entry[x].next].prev = x
        BY <2>2, <1>0, <1>1, <1>2, <1>3, <1>4 DEF WellFormed, LinksMutual
      <3>2. q.entry[x].prev # Nil => /\ q.entry[x].prev \in Free(q)
                                     /\ q.entry[q.entry[x].prev].next = x
        BY <2>2, <1>0, <1>1, <1>2, <1>3, <1>4, KeysAreValid
        DEF WellFormed, LinksMutual, EndsAgree
      <3> QED
        BY <3>1, <3>2
    <2> QED
      BY <2>1, <2>2
  <1>8. Acyclic(q)
    <2> SUFFICES ASSUME NEW S \in SUBSET Free(q), S # {}
                 PROVE  \E x \in S : q.entry[x].next \notin S
      BY DEF Acyclic
    <2>1. CASE k \in S
      BY <2>1, <1>1, <1>2, <1>0, KeysAreValid
    <2>2. CASE k \notin S
      <3>1. S \in SUBSET Free(p)
        BY <2>2, <1>2
      <3>2. PICK x \in S : p.entry[x].next \notin S
        BY <3>1 DEF WellFormed, Acyclic
      <3> QED
        BY <3>1, <3>2, <2>2, <1>3
    <2> QED
      BY <2>1, <2>2
  <1> QED
    BY <1>2, <1>5, <1>6, <1>7, <1>8 DEF WellFormed

\* q lists the same free nodes as p, in the same order.
SameList(p, q) ==
    /\ Free(q) = Free(p)
    /\ q.head = p.head
    /\ \A x \in Free(p) : q.entry[x].next = p.entry[x].next

\* q differs from p in the expiries only.
LEMMA SameLinksWellFormed ==
    ASSUME NEW p \in Pool, WellFormed(p), NEW q \in Pool,
           Members(q) = Members(p), q.head = p.head, q.tail = p.tail,
           \A x \in Members(p) : /\ q.entry[x].prev = p.entry[x].prev
                                 /\ q.entry[x].next = p.entry[x].next
    PROVE  WellFormed(q) /\ Free(q) = Free(p) /\ SameList(p, q)
  <1>1. Free(q) = Free(p) /\ Free(p) \subseteq Members(p)
    BY DEF Free
  <1>2. NoHalfAllocated(q)
    BY DEF WellFormed, NoHalfAllocated
  <1>3. EndsAgree(q)
    BY <1>1 DEF WellFormed, EndsAgree
  <1>4. LinksMutual(q)
    BY <1>1 DEF WellFormed, LinksMutual
  <1>5. Acyclic(q)
    <2> SUFFICES ASSUME NEW S \in SUBSET Free(q), S # {}
                 PROVE  \E x \in S : q.entry[x].next \notin S
      BY DEF Acyclic
    <2>1. PICK x \in S : p.entry[x].next \notin S
      BY <1>1 DEF WellFormed, Acyclic
    <2> QED
      BY <2>1, <1>1
  <1> QED
    BY <1>1, <1>2, <1>3, <1>4, <1>5 DEF WellFormed, SameList
-----------------------------------------------------------------------------
(* What each Lua helper does to a sound list.                              *)

\* push_to_tail meets no failing assert for a key that is not free, and appends.
LEMMA PushToTailAppends ==
    ASSUME NEW p \in Pool, WellFormed(p), NEW k \in Key \ Free(p), NEW e \in Expiry
    PROVE  /\ PushToTail(p, k, e).ok
           /\ PushToTail(p, k, e).pool \in Pool
           /\ Appended(p, k, e, PushToTail(p, k, e).pool)
  <1> DEFINE item == Node(p.tail, Nil, e)
             q == HSet(p, k, item)
             r == PushToTail(p, k, e)
             s == SetNext(q, p.tail, k)
  <1>1. ~ (/\ k \in Members(p)
           /\ \/ p.entry[k].prev \notin {Nil, Allocated}
              \/ p.entry[k].next \notin {Nil, Allocated})
    BY DEF WellFormed, NoHalfAllocated, Free
  <1>0. p.tail \in Key \cup {Nil} /\ p.head \in Key \cup {Nil}
    BY PoolShape
  <1>2. item \in Item /\ item.prev = p.tail /\ item.next = Nil /\ item.expiry = e
    <2>1. p.tail \in Key \cup {Nil, Allocated} /\ Nil \in Key \cup {Nil, Allocated}
      BY <1>0
    <2> QED
      BY <2>1, NodeType
  <1> HIDE DEF item
  <1>3. /\ q \in Pool /\ Members(q) = Members(p) \cup {k} /\ q.entry[k] = item
        /\ \A x \in Members(p) \ {k} : q.entry[x] = p.entry[x]
        /\ q.head = p.head /\ q.tail = p.tail
    BY <1>2, HSetShape
  <1> HIDE DEF q
  <1>4. CASE p.tail = Nil \/ p.head = Nil
    <2>1. p.tail = Nil /\ p.head = Nil
      BY <1>4 DEF WellFormed, EndsAgree
    <2>2. r = Done(SetTail(SetHead(q, k), k))
      BY <1>1, <1>4 DEF PushToTail, q, item
    <2>3. /\ SetHead(q, k) \in Pool /\ SetHead(q, k).entry = q.entry
          /\ Members(SetHead(q, k)) = Members(q) /\ SetHead(q, k).head = k
      BY <1>3, SetHeadShape
    <2>4. /\ SetTail(SetHead(q, k), k) \in Pool
          /\ SetTail(SetHead(q, k), k).entry = q.entry
          /\ Members(SetTail(SetHead(q, k), k)) = Members(q)
          /\ SetTail(SetHead(q, k), k).head = k
          /\ SetTail(SetHead(q, k), k).tail = k
      BY <2>3, SetTailShape
    <2>5. \A x \in Members(p) \ {k} : x # p.tail
      BY <2>1, PoolShape, KeysAreValid
    <2>6. Appended(p, k, e, SetTail(SetHead(q, k), k))
      BY <2>1, <2>4, <2>5, <1>3 DEF Appended, item
    <2> QED
      BY <2>2, <2>4, <2>6 DEF Done
  <1>5. CASE ~(p.tail = Nil \/ p.head = Nil)
    <2>1. p.tail \in Free(p) /\ p.entry[p.tail].next = Nil /\ p.tail # k
      BY <1>5 DEF WellFormed, EndsAgree
    <2>2. p.tail \in Members(p) /\ p.tail \in Members(q) /\ q.entry[p.tail] = p.entry[p.tail]
      BY <2>1, <1>3 DEF Free
    <2>3. r = Done(SetTail(s, k))
      BY <1>1, <1>5, <2>1, <2>2 DEF PushToTail, q, item
    <2>4. /\ s \in Pool /\ Members(s) = Members(q)
          /\ s.entry[p.tail] = Node(q.entry[p.tail].prev, k, q.entry[p.tail].expiry)
          /\ \A x \in Members(q) \ {p.tail} : s.entry[x] = q.entry[x]
          /\ s.head = q.head /\ s.tail = q.tail
      BY <1>3, <2>2, SetNextShape
    <2>5. s.entry[p.tail].prev = p.entry[p.tail].prev /\ s.entry[p.tail].next = k
      BY <2>4, <2>2 DEF Node
    <2> HIDE DEF s
    <2>6. /\ SetTail(s, k) \in Pool /\ SetTail(s, k).entry = s.entry
          /\ Members(SetTail(s, k)) = Members(s) /\ SetTail(s, k).head = s.head
          /\ SetTail(s, k).tail = k
      BY <2>4, SetTailShape
    <2>7. Appended(p, k, e, SetTail(s, k))
      BY <1>3, <1>5, <2>1, <2>2, <2>4, <2>5, <2>6 DEF Appended, item
    <2> QED
      BY <2>3, <2>6, <2>7 DEF Done
  <1> QED
    BY <1>4, <1>5

\* The helper's contract for the scripts: an item outside the free list joins it.
LEMMA PushToTailKeeps ==
    ASSUME NEW p \in Pool, WellFormed(p), NEW k \in Key \ Free(p), NEW e \in Expiry
    PROVE  /\ PushToTail(p, k, e).ok
           /\ PushToTail(p, k, e).pool \in Pool
           /\ WellFormed(PushToTail(p, k, e).pool)
           /\ Free(PushToTail(p, k, e).pool) = Free(p) \cup {k}
           /\ Members(PushToTail(p, k, e).pool) = Members(p) \cup {k}
           /\ Appended(p, k, e, PushToTail(p, k, e).pool)
  <1> DEFINE r == PushToTail(p, k, e)
  <1> HIDE DEF r
  <1>1. r.ok /\ r.pool \in Pool /\ Appended(p, k, e, r.pool)
    BY PushToTailAppends DEF r
  <1>2. WellFormed(r.pool) /\ Free(r.pool) = Free(p) \cup {k}
    BY <1>1, AppendedWellFormed
  <1>3. Members(r.pool) = Members(p) \cup {k}
    BY <1>1 DEF Appended
  <1> QED
    BY <1>1, <1>2, <1>3 DEF r

\* The sentinel pair is an item.
LEMMA MarkerType ==
    ASSUME NEW e \in Expiry
    PROVE  Marker(e) \in Item /\ Marker(e).prev = Allocated /\ Marker(e).next = Allocated
  BY NodeType DEF Marker

\* The head of a sound list, and what follows it.
LEMMA HeadOf ==
    ASSUME NEW p \in Pool, WellFormed(p), p.head \in Members(p)
    PROVE  /\ p.head \in Free(p) /\ p.head \in Key
           /\ p.entry[p.head].prev = Nil
           /\ p.entry[p.head].next \in Free(p) \cup {Nil}
           /\ p.entry[p.head].next # p.head
           /\ p.entry[p.head].next = Nil <=> p.head = p.tail
           /\ p.entry[p.head].next # Nil => p.entry[p.entry[p.head].next].prev = p.head
           /\ \A x \in Free(p) : p.entry[x].next # p.head
  <1>1. p.head \in Key /\ p.head # Nil
    BY PoolShape, KeysAreValid
  <1>2. p.head \in Free(p) /\ p.entry[p.head].prev = Nil
    BY <1>1 DEF WellFormed, EndsAgree
  <1>3. \A x \in Free(p) : x # Nil
    BY PoolShape, KeysAreValid DEF Free
  <1>4. \A x \in Free(p) : p.entry[x].next # p.head
    BY <1>1, <1>2, <1>3 DEF WellFormed, LinksMutual
  <1>5. p.entry[p.head].next \in Free(p) \cup {Nil} /\ p.entry[p.head].next # p.head
    BY <1>2, NeighboursOf
  <1>6. p.entry[p.head].next = Nil <=> p.head = p.tail
    BY <1>2 DEF WellFormed, EndsAgree
  <1>7. ASSUME NEW x \in Free(p), x = p.head
        PROVE  p.entry[x].next # Nil => p.entry[p.entry[x].next].prev = x
    <2>1. LinksMutual(p)
      BY DEF WellFormed
    <2> QED
      BY <2>1 DEF LinksMutual
  <1> QED
    BY <1>1, <1>2, <1>4, <1>5, <1>6, <1>7

\* r is q with the node behind p's head at the front.
HeadStitched(p, q, r) ==
    /\ r \in Pool
    /\ Members(r) = Members(q)
    /\ p.head \in Members(q) => r.entry[p.head] = q.entry[p.head]
    /\ \A x \in Members(p) \ {p.head} :
          /\ r.entry[x].prev = IF x = p.entry[p.head].next THEN Nil ELSE p.entry[x].prev
          /\ r.entry[x].next = p.entry[x].next
    /\ r.head = p.entry[p.head].next
    /\ r.tail = IF p.head = p.tail THEN Nil ELSE p.tail

\* Stitching the next node to the front removes the old head, once the head's
\* own entry is deleted or marked in q.
LEMMA AdvanceHeadRemoves ==
    ASSUME NEW p \in Pool, WellFormed(p), p.head \in Members(p),
           NEW q \in Pool, q.head = p.head, q.tail = p.tail,
           Members(q) \ {p.head} = Members(p) \ {p.head},
           \A x \in Members(p) \ {p.head} : q.entry[x] = p.entry[x]
    PROVE  HeadStitched(p, q, AdvanceHead(q, p.entry[p.head].next))
  <1> DEFINE k == p.head
             n == p.entry[k].next
             r == AdvanceHead(q, n)
             s == SetPrev(q, n, Nil)
  <1>0. /\ Members(q) \ {k} = Members(p) \ {k} /\ q.tail = p.tail
        /\ \A x \in Members(p) \ {k} : q.entry[x] = p.entry[x]
    OBVIOUS
  <1>1. /\ k \in Free(p) /\ k \in Key /\ n \in Free(p) \cup {Nil} /\ n # k
        /\ n = Nil <=> k = p.tail
    BY HeadOf
  <1> HIDE DEF r, s, n, k
  <1> DEFINE Stitched ==
               /\ r \in Pool /\ Members(r) = Members(q)
               /\ k \in Members(q) => r.entry[k] = q.entry[k]
               /\ \A x \in Members(p) \ {k} :
                     /\ r.entry[x].prev = IF x = n THEN Nil ELSE p.entry[x].prev
                     /\ r.entry[x].next = p.entry[x].next
               /\ r.head = n /\ r.tail = IF k = p.tail THEN Nil ELSE p.tail
  <1>2. ASSUME n = Nil PROVE Stitched
    <2>1. n \notin Members(q)
      BY <1>2, PoolShape, KeysAreValid
    <2>2. r = SetTail(SetHead(q, Nil), Nil)
      BY <1>2, <2>1 DEF AdvanceHead, r
    <2>3. /\ SetHead(q, Nil) \in Pool /\ SetHead(q, Nil).entry = q.entry
          /\ Members(SetHead(q, Nil)) = Members(q) /\ SetHead(q, Nil).head = Nil
      BY SetHeadShape
    <2>4. /\ r \in Pool /\ r.entry = q.entry /\ Members(r) = Members(q)
          /\ r.head = Nil /\ r.tail = Nil
      BY <2>2, <2>3, SetTailShape
    <2>5. \A x \in Members(p) \ {k} : x # n
      BY <1>2, PoolShape, KeysAreValid
    <2>6. \A x \in Members(p) \ {k} : /\ r.entry[x].prev = IF x = n THEN Nil ELSE p.entry[x].prev
                                      /\ r.entry[x].next = p.entry[x].next
      BY <2>4, <2>5, <1>0
    <2> QED
      BY <2>4, <2>6, <1>1, <1>2
  <1>3. ASSUME n # Nil PROVE Stitched
    <2>1. n \in Members(p) /\ n \in Members(q) /\ q.entry[n] = p.entry[n]
      BY <1>0, <1>1, <1>3 DEF Free
    <2>2. r = SetHead(s, n)
      BY <2>1 DEF AdvanceHead, r, s
    <2>3. /\ s \in Pool /\ Members(s) = Members(q)
          /\ s.entry[n] = Node(Nil, q.entry[n].next, q.entry[n].expiry)
          /\ \A x \in Members(q) \ {n} : s.entry[x] = q.entry[x]
          /\ s.tail = q.tail
      BY <2>1, SetPrevShape DEF s
    <2>4. s.entry[n].prev = Nil /\ s.entry[n].next = p.entry[n].next
      BY <2>3, <2>1 DEF Node
    <2>5. n \in Key
      BY <2>1, PoolShape
    <2>6. /\ r \in Pool /\ r.entry = s.entry /\ Members(r) = Members(s)
          /\ r.head = n /\ r.tail = s.tail
      BY <2>2, <2>3, <2>5, SetHeadShape
    <2>7. \A x \in Members(p) \ {k} : /\ r.entry[x].prev = IF x = n THEN Nil ELSE p.entry[x].prev
                                      /\ r.entry[x].next = p.entry[x].next
      <3> TAKE x \in Members(p) \ {k}
      <3>1. CASE x = n
        BY <3>1, <2>4, <2>6
      <3>2. CASE x # n
        BY <3>2, <2>3, <2>6, <1>0
      <3> QED
        BY <3>1, <3>2
    <2>8. k # n /\ (k \in Members(q) => r.entry[k] = q.entry[k])
      BY <2>3, <2>6, <1>1
    <2>9. r.head = n /\ r.tail = IF k = p.tail THEN Nil ELSE p.tail
      BY <2>3, <2>6, <1>0, <1>1, <1>3
    <2> QED
      BY <2>3, <2>6, <2>7, <2>8, <2>9
  <1>4. Stitched
    BY <1>2, <1>3
  <1> HIDE DEF Stitched
  <1>5. HeadStitched(p, q, r)
    BY <1>4 DEF HeadStitched, Stitched, n, k
  <1> QED
    BY <1>5 DEF r, n, k

\* The three ways pop_from_head takes the head out (its entry deleted or marked,
\* the next node stitched to the front) leave the same shape: the head removed
\* from a list that stays sound.
LEMMA HeadRemoved ==
    ASSUME NEW p \in Pool, WellFormed(p), p.head \in Members(p), NEW q \in Pool,
           Members(q) \ {p.head} = Members(p) \ {p.head},
           p.head \in Members(q) => /\ q.entry[p.head].prev = Allocated
                                    /\ q.entry[p.head].next = Allocated,
           \A x \in Members(p) \ {p.head} :
              /\ q.entry[x].prev = IF x = p.entry[p.head].next THEN Nil ELSE p.entry[x].prev
              /\ q.entry[x].next = p.entry[x].next,
           q.head = p.entry[p.head].next,
           q.tail = IF p.head = p.tail THEN Nil ELSE p.tail
    PROVE  /\ Removed(p, p.head, q)
           /\ WellFormed(q)
           /\ Free(q) = Free(p) \ {p.head}
  <1>1. p.head \in Free(p) /\ p.entry[p.head].prev = Nil
    BY HeadOf
  <1>2. ASSUME NEW x \in Members(p) \ {p.head}
        PROVE  /\ q.entry[x].prev = IF x = p.entry[p.head].next THEN p.entry[p.head].prev
                                    ELSE p.entry[x].prev
               /\ q.entry[x].next = IF x = p.entry[p.head].prev THEN p.entry[p.head].next
                                    ELSE p.entry[x].next
    <2>1. x # Nil
      BY PoolShape, KeysAreValid
    <2> QED
      BY <1>1, <2>1
  <1>3. q.tail = IF p.head = p.tail THEN p.entry[p.head].prev ELSE p.tail
    BY <1>1
  <1>4. Removed(p, p.head, q)
    BY <1>2, <1>3 DEF Removed
  <1>5. WellFormed(q)
    BY <1>1, <1>4, RemovedWellFormed
  <1>6. Free(q) = Free(p) \ {p.head}
    BY <1>1, <1>4, RemovedFree
  <1> QED
    BY <1>4, <1>5, <1>6

\* pop_from_head, an expired head: the list stays sound and the head is gone.
LEMMA DropExpiredHeadKeeps ==
    ASSUME NEW p \in Pool, WellFormed(p), p.head \in Members(p)
    PROVE  /\ DropExpiredHead(p) \in Pool
           /\ WellFormed(DropExpiredHead(p))
           /\ Members(DropExpiredHead(p)) = Members(p) \ {p.head}
           /\ Free(DropExpiredHead(p)) = Free(p) \ {p.head}
           /\ Removed(p, p.head, DropExpiredHead(p))
  <1> DEFINE k == p.head
             q == HDel(p, k)
             r == AdvanceHead(q, p.entry[k].next)
  <1>1. /\ q \in Pool /\ Members(q) = Members(p) \ {k}
        /\ \A x \in Members(p) \ {k} : q.entry[x] = p.entry[x]
        /\ q.head = p.head /\ q.tail = p.tail
    BY HDelShape
  <1>2. k \in Free(p) /\ p.entry[k].prev = Nil
    BY HeadOf
  <1> HIDE DEF q
  <1>3. /\ r \in Pool /\ Members(r) = Members(q)
        /\ \A x \in Members(p) \ {k} :
              /\ r.entry[x].prev = IF x = p.entry[k].next THEN Nil ELSE p.entry[x].prev
              /\ r.entry[x].next = p.entry[x].next
        /\ r.head = p.entry[k].next
        /\ r.tail = IF k = p.tail THEN Nil ELSE p.tail
    <2>1. HeadStitched(p, q, r)
      BY <1>1, AdvanceHeadRemoves
    <2> HIDE DEF r
    <2> QED
      BY <2>1 DEF HeadStitched
  <1> HIDE DEF r
  <1>4. /\ Members(r) = Members(p) \ {k} /\ k \notin Members(r)
        /\ Members(r) \ {k} = Members(p) \ {k}
    BY <1>1, <1>3
  <1>5. Removed(p, k, r) /\ WellFormed(r) /\ Free(r) = Free(p) \ {k}
    BY <1>3, <1>4, HeadRemoved
  <1>6. DropExpiredHead(p) = r
    BY DEF DropExpiredHead, q, r
  <1> HIDE DEF k
  <1>7. k = p.head
    BY DEF k
  <1> QED
    BY <1>3, <1>4, <1>5, <1>6, <1>7

\* pop_from_head, a locked head: the list stays sound, the head is marked.
LEMMA SkipLockedHeadKeeps ==
    ASSUME NEW p \in Pool, WellFormed(p), p.head \in Members(p)
    PROVE  /\ SkipLockedHead(p) \in Pool
           /\ WellFormed(SkipLockedHead(p))
           /\ Members(SkipLockedHead(p)) = Members(p)
           /\ Free(SkipLockedHead(p)) = Free(p) \ {p.head}
           /\ Removed(p, p.head, SkipLockedHead(p))
  <1> DEFINE k == p.head
             m == Marker(p.entry[k].expiry)
             q == HSet(p, k, m)
             r == AdvanceHead(q, p.entry[k].next)
  <1>1. m \in Item /\ m.prev = Allocated /\ m.next = Allocated
    BY PoolShape, MarkerType
  <1>2. k \in Free(p) /\ k \in Key /\ p.entry[k].prev = Nil
    BY HeadOf
  <1> HIDE DEF m
  <1>3. /\ q \in Pool /\ Members(q) = Members(p) /\ q.entry[k] = m
        /\ \A x \in Members(p) \ {k} : q.entry[x] = p.entry[x]
        /\ q.head = p.head /\ q.tail = p.tail
    <2>1. Members(p) \cup {k} = Members(p)
      OBVIOUS
    <2>2. /\ HSet(p, k, m) \in Pool
          /\ Members(HSet(p, k, m)) = Members(p) \cup {k}
          /\ HSet(p, k, m).entry[k] = m
          /\ \A x \in Members(p) \ {k} : HSet(p, k, m).entry[x] = p.entry[x]
          /\ HSet(p, k, m).head = p.head /\ HSet(p, k, m).tail = p.tail
      BY <1>1, <1>2, HSetShape
    <2> QED
      BY <2>1, <2>2
  <1> HIDE DEF q
  <1>4. /\ r \in Pool /\ Members(r) = Members(q)
        /\ k \in Members(q) => r.entry[k] = q.entry[k]
        /\ \A x \in Members(p) \ {k} :
              /\ r.entry[x].prev = IF x = p.entry[k].next THEN Nil ELSE p.entry[x].prev
              /\ r.entry[x].next = p.entry[x].next
        /\ r.head = p.entry[k].next
        /\ r.tail = IF k = p.tail THEN Nil ELSE p.tail
    <2>1. HeadStitched(p, q, r)
      BY <1>3, AdvanceHeadRemoves
    <2> HIDE DEF r
    <2> QED
      BY <2>1 DEF HeadStitched
  <1> HIDE DEF r
  <1>5. Members(r) = Members(p) /\ r.entry[k].prev = Allocated /\ r.entry[k].next = Allocated
    BY <1>1, <1>2, <1>3, <1>4 DEF Free
  <1>6. Removed(p, k, r) /\ WellFormed(r) /\ Free(r) = Free(p) \ {k}
    BY <1>4, <1>5, HeadRemoved
  <1>7. SkipLockedHead(p) = r
    BY DEF SkipLockedHead, q, r, m
  <1> HIDE DEF k
  <1>8. k = p.head
    BY DEF k
  <1> QED
    BY <1>4, <1>5, <1>6, <1>7, <1>8

\* pop_from_head, a usable head: no assert fails, the head is marked allocated.
LEMMA TakeHeadKeeps ==
    ASSUME NEW p \in Pool, WellFormed(p), p.head \in Members(p)
    PROVE  /\ TakeHead(p).ok
           /\ TakeHead(p).pool \in Pool
           /\ WellFormed(TakeHead(p).pool)
           /\ Members(TakeHead(p).pool) = Members(p)
           /\ Free(TakeHead(p).pool) = Free(p) \ {p.head}
           /\ Removed(p, p.head, TakeHead(p).pool)
  <1> DEFINE k == p.head
             m == Marker(p.entry[k].expiry)
             r == AdvanceHead(p, p.entry[k].next)
             s == HSet(r, k, m)
  <1>1. m \in Item /\ m.prev = Allocated /\ m.next = Allocated
    BY PoolShape, MarkerType
  <1>2. /\ k \in Free(p) /\ k \in Key /\ p.entry[k].prev = Nil
        /\ p.entry[k].next \in Free(p) \cup {Nil}
    BY HeadOf
  <1> HIDE DEF m
  <1>3. /\ r \in Pool /\ Members(r) = Members(p)
        /\ \A x \in Members(p) \ {k} :
              /\ r.entry[x].prev = IF x = p.entry[k].next THEN Nil ELSE p.entry[x].prev
              /\ r.entry[x].next = p.entry[x].next
        /\ r.head = p.entry[k].next
        /\ r.tail = IF k = p.tail THEN Nil ELSE p.tail
    <2>1. HeadStitched(p, p, r)
      BY AdvanceHeadRemoves
    <2> HIDE DEF r
    <2> QED
      BY <2>1 DEF HeadStitched
  <1> HIDE DEF r
  <1>4. /\ s \in Pool /\ Members(s) = Members(p) /\ s.entry[k] = m
        /\ \A x \in Members(p) \ {k} : s.entry[x] = r.entry[x]
        /\ s.head = r.head /\ s.tail = r.tail
    <2>1. r \in Pool /\ Members(r) = Members(p) /\ Members(p) \cup {k} = Members(p)
      BY <1>2, <1>3 DEF Free
    <2>2. /\ s \in Pool /\ Members(s) = Members(r) \cup {k} /\ s.entry[k] = m
          /\ \A x \in Members(r) \ {k} : s.entry[x] = r.entry[x]
          /\ s.head = r.head /\ s.tail = r.tail
      BY <2>1, <1>1, <1>2, HSetShape
    <2> QED
      BY <2>1, <2>2
  <1> HIDE DEF s
  <1>5. s.entry[k].prev = Allocated /\ s.entry[k].next = Allocated
    BY <1>1, <1>4
  <1>6. \A x \in Members(p) \ {k} :
           /\ s.entry[x].prev = IF x = p.entry[k].next THEN Nil ELSE p.entry[x].prev
           /\ s.entry[x].next = p.entry[x].next
    BY <1>3, <1>4
  <1>7. s.head = p.entry[k].next /\ s.tail = IF k = p.tail THEN Nil ELSE p.tail
    BY <1>3, <1>4
  <1>8. Removed(p, k, s) /\ WellFormed(s) /\ Free(s) = Free(p) \ {k}
    BY <1>4, <1>5, <1>6, <1>7, HeadRemoved
  <1>9. ~(p.entry[k].next # Nil /\ p.entry[k].next \notin Members(p))
    BY <1>2 DEF Free
  <1>10. TakeHead(p) = Done(s)
    BY <1>9 DEF TakeHead, s, r, m
  <1>11. TakeHead(p).ok /\ TakeHead(p).pool = s
    BY <1>10 DEF Done
  <1> HIDE DEF k
  <1>12. k = p.head
    BY DEF k
  <1> QED
    BY <1>4, <1>8, <1>11, <1>12

\* Unlinking a free item whose own entry may just have been deleted (q).
LEMMA UnlinkKeeps ==
    ASSUME NEW p \in Pool, WellFormed(p), NEW k \in Free(p)
    PROVE  LET r == Unlink(p, k, p.entry[k])
           IN  /\ r.ok
               /\ r.pool \in Pool
               /\ Members(r.pool) = Members(p)
               /\ Removed(p, k, r.pool)
  <1> DEFINE it == p.entry[k]
             m == Marker(it.expiry)
             q == IF it.expiry = "expired" THEN HDel(p, k) ELSE p
             a == LinkNext(q, it.prev, it.next)
             b == LinkPrev(a.pool, it.next, it.prev)
             s == HSet(b.pool, k, m)
  <1> HIDE DEF it, m, q, a, b, s
  <1>1. /\ k \in Members(p) /\ k \in Key
        /\ it.prev # Allocated /\ it.next # Allocated /\ it.prev # k /\ it.next # k
        /\ it.prev \in Free(p) \cup {Nil} /\ it.next \in Free(p) \cup {Nil}
    BY NeighboursOf DEF it
  <1>2. m \in Item /\ m.prev = Allocated /\ m.next = Allocated
    BY <1>1, PoolShape, MarkerType DEF m, it
  <1>3. /\ q \in Pool /\ Members(q) \ {k} = Members(p) \ {k}
        /\ \A x \in Members(p) \ {k} : q.entry[x] = p.entry[x]
        /\ q.head = p.head /\ q.tail = p.tail
    <2>1. CASE it.expiry = "expired"
      BY <2>1, HDelShape DEF q
    <2>2. CASE it.expiry # "expired"
      BY <2>2 DEF q
    <2> QED
      BY <2>1, <2>2
  <1>4. Free(p) \subseteq Members(p) /\ Free(p) \subseteq Key /\ Nil \notin Members(p)
    BY PoolShape, KeysAreValid DEF Free
  <1>5. /\ a.ok /\ a.pool \in Pool /\ Members(a.pool) = Members(q)
        /\ \A x \in Members(p) \ {k} :
              /\ a.pool.entry[x].prev = p.entry[x].prev
              /\ a.pool.entry[x].next = IF x = it.prev THEN it.next ELSE p.entry[x].next
        /\ a.pool.head = IF it.prev = Nil THEN it.next ELSE p.head
        /\ a.pool.tail = p.tail
    <2>1. CASE it.prev = Nil
      <3>1. it.next \in Key \cup {Nil}
        BY <1>1, <1>4
      <3>2. a = Done(SetHead(q, it.next))
        BY <2>1 DEF LinkNext, a
      <3>3. /\ SetHead(q, it.next) \in Pool /\ SetHead(q, it.next).entry = q.entry
            /\ Members(SetHead(q, it.next)) = Members(q)
            /\ SetHead(q, it.next).head = it.next
            /\ SetHead(q, it.next).tail = q.tail
        BY <1>3, <3>1, SetHeadShape
      <3>4. a.ok /\ a.pool = SetHead(q, it.next)
        BY <3>2 DEF Done
      <3>5. \A x \in Members(p) \ {k} : x # it.prev /\ a.pool.entry[x] = p.entry[x]
        BY <2>1, <3>3, <3>4, <1>3, <1>4
      <3> QED
        BY <2>1, <3>3, <3>4, <3>5, <1>3
    <2>2. CASE it.prev # Nil
      <3>1. it.prev \in Members(q) /\ q.entry[it.prev] = p.entry[it.prev]
        BY <2>2, <1>1, <1>3, <1>4
      <3>2. a = Done(SetNext(q, it.prev, it.next))
        BY <2>2, <3>1 DEF LinkNext, a
      <3>3. it.next \in Key \cup {Nil, Allocated}
        BY <1>1, <1>4
      <3>4. /\ SetNext(q, it.prev, it.next) \in Pool
            /\ Members(SetNext(q, it.prev, it.next)) = Members(q)
            /\ SetNext(q, it.prev, it.next).entry[it.prev]
                  = Node(q.entry[it.prev].prev, it.next, q.entry[it.prev].expiry)
            /\ \A x \in Members(q) \ {it.prev} :
                  SetNext(q, it.prev, it.next).entry[x] = q.entry[x]
            /\ SetNext(q, it.prev, it.next).head = q.head
            /\ SetNext(q, it.prev, it.next).tail = q.tail
        BY <1>3, <3>1, <3>3, SetNextShape
      <3>5. a.ok /\ a.pool = SetNext(q, it.prev, it.next)
        BY <3>2 DEF Done
      <3>6. /\ a.pool.entry[it.prev].prev = p.entry[it.prev].prev
            /\ a.pool.entry[it.prev].next = it.next
        BY <3>1, <3>4, <3>5 DEF Node
      <3>7. \A x \in Members(p) \ {k} :
               /\ a.pool.entry[x].prev = p.entry[x].prev
               /\ a.pool.entry[x].next = IF x = it.prev THEN it.next ELSE p.entry[x].next
        BY <3>4, <3>5, <3>6, <1>3
      <3>8. a.pool.head = p.head /\ a.pool.tail = p.tail
        BY <3>4, <3>5, <1>3
      <3>9. a.pool \in Pool /\ Members(a.pool) = Members(q)
        BY <3>4, <3>5
      <3> QED
        BY <2>2, <3>5, <3>7, <3>8, <3>9
    <2> QED
      BY <2>1, <2>2
  <1>6. /\ b.ok /\ b.pool \in Pool /\ Members(b.pool) = Members(q)
        /\ \A x \in Members(p) \ {k} :
              /\ b.pool.entry[x].prev = IF x = it.next THEN it.prev ELSE p.entry[x].prev
              /\ b.pool.entry[x].next = IF x = it.prev THEN it.next ELSE p.entry[x].next
        /\ b.pool.head = IF it.prev = Nil THEN it.next ELSE p.head
        /\ b.pool.tail = IF it.next = Nil THEN it.prev ELSE p.tail
    <2>1. CASE it.next = Nil
      <3>1. it.prev \in Key \cup {Nil}
        BY <1>1, <1>4
      <3>2. b = Done(SetTail(a.pool, it.prev))
        BY <2>1 DEF LinkPrev, b
      <3>3. /\ SetTail(a.pool, it.prev) \in Pool
            /\ SetTail(a.pool, it.prev).entry = a.pool.entry
            /\ Members(SetTail(a.pool, it.prev)) = Members(a.pool)
            /\ SetTail(a.pool, it.prev).head = a.pool.head
            /\ SetTail(a.pool, it.prev).tail = it.prev
        BY <1>5, <3>1, SetTailShape
      <3>4. b.ok /\ b.pool = SetTail(a.pool, it.prev)
        BY <3>2 DEF Done
      <3>5. \A x \in Members(p) \ {k} : x # it.next /\ b.pool.entry[x] = a.pool.entry[x]
        BY <2>1, <3>3, <3>4, <1>4
      <3> QED
        BY <2>1, <3>3, <3>4, <3>5, <1>5
    <2>2. CASE it.next # Nil
      <3>1. it.next \in Members(a.pool) /\ it.next \in Members(p) \ {k}
        BY <2>2, <1>1, <1>3, <1>4, <1>5
      <3>2. b = Done(SetPrev(a.pool, it.next, it.prev))
        BY <2>2, <3>1 DEF LinkPrev, b
      <3>3. it.prev \in Key \cup {Nil, Allocated}
        BY <1>1, <1>4
      <3>4. /\ SetPrev(a.pool, it.next, it.prev) \in Pool
            /\ Members(SetPrev(a.pool, it.next, it.prev)) = Members(a.pool)
            /\ SetPrev(a.pool, it.next, it.prev).entry[it.next]
                  = Node(it.prev, a.pool.entry[it.next].next, a.pool.entry[it.next].expiry)
            /\ \A x \in Members(a.pool) \ {it.next} :
                  SetPrev(a.pool, it.next, it.prev).entry[x] = a.pool.entry[x]
            /\ SetPrev(a.pool, it.next, it.prev).head = a.pool.head
            /\ SetPrev(a.pool, it.next, it.prev).tail = a.pool.tail
        BY <1>5, <3>1, <3>3, SetPrevShape
      <3>5. b.ok /\ b.pool = SetPrev(a.pool, it.next, it.prev)
        BY <3>2 DEF Done
      <3>6. /\ b.pool.entry[it.next].prev = it.prev
            /\ b.pool.entry[it.next].next = a.pool.entry[it.next].next
        <4>1. b.pool.entry[it.next]
                 = Node(it.prev, a.pool.entry[it.next].next, a.pool.entry[it.next].expiry)
          BY <3>4, <3>5
        <4> QED
          BY <4>1 DEF Node
      <3>7. \A x \in Members(p) \ {k} :
               /\ b.pool.entry[x].prev = IF x = it.next THEN it.prev ELSE p.entry[x].prev
               /\ b.pool.entry[x].next = IF x = it.prev THEN it.next ELSE p.entry[x].next
        <4> TAKE x \in Members(p) \ {k}
        <4>1. CASE x = it.next
          BY <4>1, <3>1, <3>6, <1>5
        <4>2. CASE x # it.next
          <5>1. x \in Members(a.pool) \ {it.next}
            BY <4>2, <1>3, <1>5
          <5>2. b.pool.entry[x] = a.pool.entry[x]
            BY <5>1, <3>4, <3>5
          <5> QED
            BY <4>2, <5>2, <1>5
        <4> QED
          BY <4>1, <4>2
      <3>8. /\ b.pool.head = IF it.prev = Nil THEN it.next ELSE p.head
            /\ b.pool.tail = p.tail
        BY <3>4, <3>5, <1>5
      <3>9. b.pool \in Pool /\ Members(b.pool) = Members(q)
        BY <3>4, <3>5, <1>5
      <3> QED
        BY <2>2, <3>5, <3>7, <3>8, <3>9
    <2> QED
      BY <2>1, <2>2
  <1>7. /\ s \in Pool /\ Members(s) = Members(p) /\ s.entry[k] = m
        /\ \A x \in Members(p) \ {k} : s.entry[x] = b.pool.entry[x]
        /\ s.head = b.pool.head /\ s.tail = b.pool.tail
    <2>1. Members(b.pool) \cup {k} = Members(p) /\ Members(b.pool) \ {k} = Members(p) \ {k}
      BY <1>1, <1>3, <1>6
    <2>2. /\ s \in Pool /\ Members(s) = Members(b.pool) \cup {k} /\ s.entry[k] = m
          /\ \A x \in Members(b.pool) \ {k} : s.entry[x] = b.pool.entry[x]
          /\ s.head = b.pool.head /\ s.tail = b.pool.tail
      BY <1>1, <1>2, <1>6, HSetShape DEF s
    <2> QED
      BY <2>1, <2>2
  <1>8. (it.prev = Nil <=> k = p.head) /\ (it.next = Nil <=> k = p.tail)
    BY DEF WellFormed, EndsAgree, it
  <1>9. Removed(p, k, s)
    <2>1. Members(s) \ {k} = Members(p) \ {k}
      BY <1>7
    <2>2. s.entry[k].prev = Allocated /\ s.entry[k].next = Allocated
      BY <1>2, <1>7
    <2>3. \A x \in Members(p) \ {k} :
             /\ s.entry[x].prev = IF x = it.next THEN it.prev ELSE p.entry[x].prev
             /\ s.entry[x].next = IF x = it.prev THEN it.next ELSE p.entry[x].next
      BY <1>6, <1>7
    <2>4. /\ s.head = IF k = p.head THEN it.next ELSE p.head
          /\ s.tail = IF k = p.tail THEN it.prev ELSE p.tail
      BY <1>6, <1>7, <1>8
    <2> QED
      BY <2>1, <2>2, <2>3, <2>4 DEF Removed, it
  <1>10. Unlink(p, k, it) = Done(s)
    <2>1. Unlink(p, k, it) = IF ~a.ok THEN a ELSE IF ~b.ok THEN b ELSE Done(s)
      BY DEF Unlink, s, b, a, q, m
    <2> QED
      BY <2>1, <1>5, <1>6
  <1>11. Unlink(p, k, it).ok /\ Unlink(p, k, it).pool = s
    BY <1>10 DEF Done
  <1> QED
    BY <1>7, <1>9, <1>11 DEF it

\* set_item_allocated of any member: no assert fails, the member is not free.
LEMMA SetItemAllocatedKeeps ==
    ASSUME NEW p \in Pool, WellFormed(p), NEW k \in Members(p)
    PROVE  /\ SetItemAllocated(p, k).ok
           /\ SetItemAllocated(p, k).pool \in Pool
           /\ WellFormed(SetItemAllocated(p, k).pool)
           /\ Members(SetItemAllocated(p, k).pool) = Members(p)
           /\ Free(SetItemAllocated(p, k).pool) = Free(p) \ {k}
           /\ IF k \in Free(p) THEN Removed(p, k, SetItemAllocated(p, k).pool)
              ELSE SetItemAllocated(p, k).pool = p
  <1> DEFINE r == Unlink(p, k, p.entry[k])
  <1>1. CASE p.entry[k].prev = Allocated
    <2>1. p.entry[k].next = Allocated /\ k \notin Free(p)
      BY <1>1 DEF WellFormed, NoHalfAllocated, Free
    <2>2. SetItemAllocated(p, k) = Done(p)
      BY <1>1, <2>1 DEF SetItemAllocated
    <2>3. Done(p).ok /\ Done(p).pool = p
      BY DEF Done
    <2> QED
      BY <2>1, <2>2, <2>3
  <1>2. CASE p.entry[k].prev # Allocated
    <2>1. p.entry[k].next # Allocated /\ k \in Free(p)
      BY <1>2 DEF WellFormed, NoHalfAllocated, Free
    <2>2. SetItemAllocated(p, k) = r
      BY <1>2, <2>1 DEF SetItemAllocated
    <2>3. r.ok /\ r.pool \in Pool /\ Members(r.pool) = Members(p) /\ Removed(p, k, r.pool)
      BY <2>1, UnlinkKeeps
    <2>4. WellFormed(r.pool) /\ Free(r.pool) = Free(p) \ {k}
      BY <2>1, <2>3, RemovedWellFormed, RemovedFree
    <2> QED
      BY <2>1, <2>2, <2>3, <2>4
  <1> QED
    BY <1>1, <1>2

\* Deleting an entry that is not in the list.
LEMMA HDelKeeps ==
    ASSUME NEW p \in Pool, WellFormed(p), NEW k \in Key \ Free(p)
    PROVE  WellFormed(HDel(p, k)) /\ Free(HDel(p, k)) = Free(p) /\ SameList(p, HDel(p, k))
  <1> DEFINE q == HDel(p, k)
  <1>1. /\ q \in Pool /\ Members(q) = Members(p) \ {k}
        /\ \A x \in Members(p) \ {k} : q.entry[x] = p.entry[x]
        /\ q.head = p.head /\ q.tail = p.tail
    BY HDelShape
  <1> HIDE DEF q
  <1>2. Free(q) = Free(p)
    BY <1>1 DEF Free
  <1>3. \A x \in Free(p) : q.entry[x] = p.entry[x]
    BY <1>1 DEF Free
  <1>4. NoHalfAllocated(q)
    BY <1>1 DEF WellFormed, NoHalfAllocated
  <1>5. EndsAgree(q)
    BY <1>1, <1>2, <1>3 DEF WellFormed, EndsAgree
  <1>6. LinksMutual(q)
    BY <1>2, <1>3 DEF WellFormed, LinksMutual
  <1>7. Acyclic(q)
    <2> SUFFICES ASSUME NEW S \in SUBSET Free(q), S # {}
                 PROVE  \E x \in S : q.entry[x].next \notin S
      BY DEF Acyclic
    <2>1. PICK x \in S : p.entry[x].next \notin S
      BY <1>2 DEF WellFormed, Acyclic
    <2> QED
      BY <2>1, <1>2, <1>3
  <1> QED
    BY <1>1, <1>2, <1>3, <1>4, <1>5, <1>6, <1>7 DEF WellFormed, SameList, q

\* Eviction of any member: no assert fails, and only that member is gone.
LEMMA EvictKeeps ==
    ASSUME NEW p \in Pool, WellFormed(p), NEW k \in Members(p)
    PROVE  /\ Evict(p, k).ok
           /\ Evict(p, k).pool \in Pool
           /\ WellFormed(Evict(p, k).pool)
           /\ Members(Evict(p, k).pool) = Members(p) \ {k}
           /\ Free(Evict(p, k).pool) = Free(p) \ {k}
           /\ IF k \in Free(p) THEN Removed(p, k, Evict(p, k).pool)
              ELSE SameList(p, Evict(p, k).pool)
  <1> DEFINE r == SetItemAllocated(p, k)
  <1>1. /\ r.ok /\ r.pool \in Pool /\ WellFormed(r.pool)
        /\ Members(r.pool) = Members(p) /\ Free(r.pool) = Free(p) \ {k}
        /\ IF k \in Free(p) THEN Removed(p, k, r.pool) ELSE r.pool = p
    BY SetItemAllocatedKeeps
  <1> HIDE DEF r
  <1>2. k \in Key \ Free(r.pool)
    BY <1>1, PoolShape
  <1>3. Evict(p, k) = Done(HDel(r.pool, k))
    BY <1>1 DEF Evict, r
  <1>4. /\ HDel(r.pool, k) \in Pool /\ Members(HDel(r.pool, k)) = Members(p) \ {k}
        /\ WellFormed(HDel(r.pool, k)) /\ Free(HDel(r.pool, k)) = Free(p) \ {k}
        /\ SameList(r.pool, HDel(r.pool, k))
    BY <1>1, <1>2, HDelShape, HDelKeeps
  <1>5. ASSUME k \in Free(p) PROVE Removed(p, k, HDel(r.pool, k))
    <2>1. /\ Members(HDel(r.pool, k)) = Members(r.pool) \ {k}
          /\ \A x \in Members(r.pool) \ {k} : HDel(r.pool, k).entry[x] = r.pool.entry[x]
          /\ HDel(r.pool, k).head = r.pool.head /\ HDel(r.pool, k).tail = r.pool.tail
      BY <1>1, HDelShape
    <2> QED
      BY <1>1, <1>5, <2>1 DEF Removed
  <1> QED
    BY <1>1, <1>3, <1>4, <1>5 DEF Done

\* gc never breaks the list, frees only unlocked items, each that stays, and
\* unlinks locked ones.
LEMMA CheckItemHealthKeeps ==
    ASSUME NEW p \in Pool, WellFormed(p), NEW k \in Members(p), NEW locked \in BOOLEAN
    PROVE  LET r == CheckItemHealth(p, k, locked)
           IN  /\ r.ok
               /\ r.pool \in Pool
               /\ WellFormed(r.pool)
               /\ Members(r.pool) \ {k} = Members(p) \ {k}
               /\ Members(r.pool) \subseteq Members(p)
               /\ Free(r.pool) \subseteq Free(p) \cup (IF locked THEN {} ELSE {k})
               /\ Free(p) \ {k} \subseteq Free(r.pool)
               /\ locked => k \notin Free(r.pool)
               /\ ~locked /\ k \in Members(r.pool) => k \in Free(r.pool)
  <1> DEFINE r == CheckItemHealth(p, k, locked)
             e == p.entry[k].expiry
  <1>1. k \in Key /\ e \in Expiry
    BY PoolShape
  <1>2. CASE IsExpired(p, k)
    <2>1. r = Evict(p, k)
      BY <1>2 DEF CheckItemHealth
    <2> QED
      BY <2>1, EvictKeeps
  <1>3. CASE ~IsExpired(p, k) /\ p.entry[k].prev = Allocated
    <2>1. k \notin Free(p)
      BY <1>3 DEF Free
    <2>2. CASE locked
      BY <1>3, <2>1, <2>2 DEF CheckItemHealth, Done
    <2>3. CASE ~locked
      <3>1. r = PushToTail(p, k, e)
        BY <1>3, <2>3 DEF CheckItemHealth
      <3>2. /\ PushToTail(p, k, e).ok
            /\ PushToTail(p, k, e).pool \in Pool
            /\ WellFormed(PushToTail(p, k, e).pool)
            /\ Free(PushToTail(p, k, e).pool) = Free(p) \cup {k}
            /\ Members(PushToTail(p, k, e).pool) = Members(p) \cup {k}
        BY <1>1, <2>1, PushToTailKeeps
      <3> QED
        BY <3>1, <3>2, <2>3
    <2> QED
      BY <2>2, <2>3
  <1>4. CASE ~IsExpired(p, k) /\ p.entry[k].prev # Allocated
    <2>1. CASE locked
      <3>1. r = SetItemAllocated(p, k)
        BY <1>4, <2>1 DEF CheckItemHealth
      <3> QED
        BY <3>1, <2>1, SetItemAllocatedKeeps
    <2>2. CASE ~locked
      BY <1>4, <2>2 DEF CheckItemHealth, Done, Free
    <2> QED
      BY <2>1, <2>2
  <1> QED
    BY <1>2, <1>3, <1>4

\* A new expiry on a member leaves the list as it is.
LEMMA RelabelKeeps ==
    ASSUME NEW p \in Pool, WellFormed(p), NEW k \in Members(p), NEW e \in Expiry
    PROVE  LET q == HSet(p, k, Node(p.entry[k].prev, p.entry[k].next, e))
           IN  /\ q \in Pool /\ WellFormed(q) /\ Free(q) = Free(p) /\ Members(q) = Members(p)
               /\ SameList(p, q)
  <1> DEFINE item == Node(p.entry[k].prev, p.entry[k].next, e)
             q == HSet(p, k, item)
  <1>1. /\ p.entry[k].prev \in Key \cup {Nil, Allocated}
        /\ p.entry[k].next \in Key \cup {Nil, Allocated}
        /\ k \in Key
    BY PoolShape
  <1>2. item \in Item /\ item.prev = p.entry[k].prev /\ item.next = p.entry[k].next
    BY <1>1, NodeType
  <1> HIDE DEF item
  <1>3. /\ q \in Pool /\ Members(q) = Members(p) \cup {k} /\ q.entry[k] = item
        /\ \A x \in Members(p) \ {k} : q.entry[x] = p.entry[x]
        /\ q.head = p.head /\ q.tail = p.tail
    BY <1>1, <1>2, HSetShape
  <1> HIDE DEF q
  <1>4. Members(q) = Members(p)
    BY <1>3
  <1>5. WellFormed(q) /\ Free(q) = Free(p) /\ SameList(p, q)
    BY <1>2, <1>3, <1>4, SameLinksWellFormed
  <1> QED
    BY <1>3, <1>4, <1>5 DEF q, item

-----------------------------------------------------------------------------
(* Any pool, sound or damaged: whatever a helper meets, it leaves a pool.  *)

\* The pool an outcome carries.
LEMMA Outcome ==
    ASSUME NEW p
    PROVE  /\ Done(p).pool = p /\ Done(p).ok
           /\ Abort(p).pool = p /\ ~Abort(p).ok
  BY DEF Done, Abort

\* push_to_tail writes a free item, also when it then finds the tail damaged.
LEMMA PushToTailTyped ==
    ASSUME NEW p \in Pool, NEW k \in Key, NEW e \in Expiry,
           NEW r, r = PushToTail(p, k, e)
    PROVE  r.pool \in Pool /\ (r.ok => k \in Free(r.pool))
  <1> DEFINE item == Node(p.tail, Nil, e)
             q    == HSet(p, k, item)
  <1>0. /\ p.tail \in Key \cup {Nil} /\ p.tail # Allocated
        /\ item \in Item /\ item.prev = p.tail
    BY PoolShape, NodeType, KeysAreValid
  <1> HIDE DEF item
  <1>1. /\ q \in Pool /\ k \in Members(q) /\ q.entry[k] = item
        /\ q.head = p.head /\ q.tail = p.tail
    BY <1>0, HSetShape
  <1>2. CASE r = Abort(p)
    BY <1>2 DEF Abort
  <1>3. CASE r = Abort(q)
    BY <1>1, <1>3 DEF Abort
  <1>4. CASE r = Done(SetTail(SetHead(q, k), k))
    <2> DEFINE a == SetHead(q, k)
    <2>1. a \in Pool /\ a.entry = q.entry
      BY <1>1, SetHeadShape
    <2> HIDE DEF a
    <2>2. SetTail(a, k) \in Pool /\ SetTail(a, k).entry = q.entry
      BY <2>1, SetTailShape
    <2> HIDE DEF q
    <2>3. r.pool = SetTail(a, k) /\ r.ok = TRUE
      BY <1>4 DEF Done, a
    <2> QED
      BY <1>0, <1>1, <2>2, <2>3 DEF Free, Members
  <1>5. CASE p.tail \in Members(q) /\ r = Done(SetTail(SetNext(q, p.tail, k), k))
    <2> DEFINE a == SetNext(q, p.tail, k)
    <2> HIDE DEF q
    <2>1. /\ a \in Pool /\ Members(a) = Members(q)
          /\ a.entry[p.tail] = Node(q.entry[p.tail].prev, k, q.entry[p.tail].expiry)
          /\ \A x \in Members(q) \ {p.tail} : a.entry[x] = q.entry[x]
      BY <1>1, <1>5, SetNextShape
    <2>2. a.entry[k].prev = q.entry[k].prev
      <3>1. CASE k = p.tail
        BY <2>1, <3>1 DEF Node
      <3>2. CASE k # p.tail
        BY <1>1, <2>1, <3>2
      <3> QED
        BY <3>1, <3>2
    <2> HIDE DEF a
    <2>3. SetTail(a, k) \in Pool /\ SetTail(a, k).entry = a.entry
      BY <2>1, SetTailShape
    <2>4. r.pool = SetTail(a, k) /\ r.ok = TRUE
      BY <1>5 DEF Done, a
    <2> QED
      BY <1>0, <1>1, <2>1, <2>2, <2>3, <2>4 DEF Free, Members
  <1> HIDE DEF q
  <1> QED
    BY <1>2, <1>3, <1>4, <1>5 DEF PushToTail, q, item

\* _advance_head_after_removal.
LEMMA AdvanceHeadTyped ==
    ASSUME NEW p \in Pool, NEW n
    PROVE  AdvanceHead(p, n) \in Pool
  <1>1. CASE n \in Members(p)
    <2> DEFINE a == SetPrev(p, n, Nil)
    <2>1. a \in Pool /\ n \in Key
      BY <1>1, SetPrevShape, PoolShape
    <2> HIDE DEF a
    <2>2. SetHead(a, n) \in Pool
      BY <2>1, SetHeadShape
    <2> QED
      BY <1>1, <2>2 DEF AdvanceHead, a
  <1>2. CASE n \notin Members(p)
    <2> DEFINE a == SetHead(p, Nil)
    <2>1. a \in Pool
      BY SetHeadShape
    <2> HIDE DEF a
    <2>2. SetTail(a, Nil) \in Pool
      BY <2>1, SetTailShape
    <2> QED
      BY <1>2, <2>2 DEF AdvanceHead, a
  <1> QED
    BY <1>1, <1>2

\* The three ways a head leaves the list.
LEMMA HeadTyped ==
    ASSUME NEW p \in Pool, p.head \in Members(p)
    PROVE  /\ DropExpiredHead(p) \in Pool
           /\ SkipLockedHead(p) \in Pool
           /\ TakeHead(p).pool \in Pool
  <1> DEFINE h == p.head
             n == p.entry[h].next
             m == Marker(p.entry[h].expiry)
  <1>0. h \in Key /\ m \in Item
    BY PoolShape, MarkerType
  <1>1. DropExpiredHead(p) \in Pool
    BY HDelShape, AdvanceHeadTyped DEF DropExpiredHead
  <1>2. SkipLockedHead(p) \in Pool
    <2> HIDE DEF m
    <2>1. HSet(p, h, m) \in Pool
      BY <1>0, HSetShape
    <2> QED
      BY <2>1, AdvanceHeadTyped DEF SkipLockedHead, m
  <1>3. TakeHead(p).pool \in Pool
    <2> DEFINE a == AdvanceHead(p, n)
    <2>1. a \in Pool
      BY AdvanceHeadTyped
    <2> HIDE DEF a, m
    <2>2. HSet(a, h, m) \in Pool
      BY <1>0, <2>1, HSetShape
    <2>3. TakeHead(p) = Abort(p) \/ TakeHead(p) = Done(HSet(a, h, m))
      BY DEF TakeHead, a, m
    <2> QED
      BY <2>2, <2>3, Outcome
  <1> QED
    BY <1>1, <1>2, <1>3

\* Joining what lies on the two sides of an item.
LEMMA LinkTyped ==
    ASSUME NEW p \in Pool, NEW k, NEW n \in Key \cup {Nil}
    PROVE  /\ LinkNext(p, k, n).pool \in Pool
           /\ LinkPrev(p, k, n).pool \in Pool
  <1>1. LinkNext(p, k, n).pool \in Pool
    <2>1. SetHead(p, n) \in Pool
      BY SetHeadShape
    <2>2. k \in Members(p) => SetNext(p, k, n) \in Pool
      BY SetNextShape
    <2> QED
      BY <2>1, <2>2 DEF LinkNext, Done, Abort
  <1>2. LinkPrev(p, k, n).pool \in Pool
    <2>1. SetTail(p, n) \in Pool
      BY SetTailShape
    <2>2. k \in Members(p) => SetPrev(p, k, n) \in Pool
      BY SetPrevShape
    <2> QED
      BY <2>1, <2>2 DEF LinkPrev, Done, Abort
  <1> QED
    BY <1>1, <1>2

\* set_item_allocated, of a member or not.
LEMMA SetItemAllocatedTyped ==
    ASSUME NEW p \in Pool, NEW k, NEW r, r = SetItemAllocated(p, k)
    PROVE  r.pool \in Pool
  <1>1. CASE r = Abort(p) \/ r = Done(p)
    BY <1>1, Outcome
  <1>2. CASE /\ k \in Members(p)
             /\ p.entry[k].prev # Allocated /\ p.entry[k].next # Allocated
             /\ r = Unlink(p, k, p.entry[k])
    <2> DEFINE item == p.entry[k]
               q    == IF item.expiry = "expired" THEN HDel(p, k) ELSE p
               a    == LinkNext(q, item.prev, item.next)
               b    == LinkPrev(a.pool, item.next, item.prev)
               m    == Marker(item.expiry)
    <2>1. /\ k \in Key /\ item.prev \in Key \cup {Nil} /\ item.next \in Key \cup {Nil}
          /\ m \in Item
      BY <1>2, PoolShape, MarkerType
    <2>2. q \in Pool
      BY HDelShape
    <2> HIDE DEF q, item
    <2>3. a.pool \in Pool
      BY <2>1, <2>2, LinkTyped
    <2> HIDE DEF a
    <2>4. b.pool \in Pool
      BY <2>1, <2>3, LinkTyped
    <2> HIDE DEF b, m
    <2>5. HSet(b.pool, k, m) \in Pool
      BY <2>1, <2>4, HSetShape
    <2>6. r = a \/ r = b \/ r = Done(HSet(b.pool, k, m))
      BY <1>2, Zenon DEF Unlink, item, q, a, b, m
    <2> QED
      BY <2>3, <2>4, <2>5, <2>6, Outcome
  <1> QED
    BY <1>1, <1>2 DEF SetItemAllocated

\* set_item_allocated and HDEL.
LEMMA EvictTyped ==
    ASSUME NEW p \in Pool, NEW k, NEW r, r = Evict(p, k)
    PROVE  r.pool \in Pool
  <1> DEFINE a == SetItemAllocated(p, k)
  <1>1. a.pool \in Pool
    BY SetItemAllocatedTyped
  <1>2. r = IF a.ok THEN Done(HDel(a.pool, k)) ELSE a
    BY DEF Evict
  <1> HIDE DEF a
  <1>3. HDel(a.pool, k) \in Pool
    BY <1>1, HDelShape
  <1>4. r = a \/ r = Done(HDel(a.pool, k))
    BY <1>2, Zenon
  <1> QED
    BY <1>1, <1>3, <1>4, Outcome

\* check_item_health.
LEMMA CheckItemHealthTyped ==
    ASSUME NEW p \in Pool, NEW k, NEW locked, NEW r, r = CheckItemHealth(p, k, locked)
    PROVE  r.pool \in Pool
  <1>1. CASE r = Abort(p) \/ r = Done(p)
    BY <1>1, Outcome
  <1>2. CASE r = Evict(p, k)
    BY <1>2, EvictTyped
  <1>3. CASE r = SetItemAllocated(p, k)
    BY <1>3, SetItemAllocatedTyped
  <1>4. CASE k \in Members(p) /\ r = PushToTail(p, k, p.entry[k].expiry)
    <2>1. k \in Key /\ p.entry[k].expiry \in Expiry
      BY <1>4, PoolShape
    <2> QED
      BY <1>4, <2>1, PushToTailTyped
  <1> QED
    BY <1>1, <1>2, <1>3, <1>4 DEF CheckItemHealth

-----------------------------------------------------------------------------
(* The list as a sequence.  Induction along it is by the least position    *)
(* where something fails.                                                  *)

\* Every set of numbers has a least one.
LEMMA LeastNumber ==
    ASSUME NEW T, T \subseteq Nat, T # {}
    PROVE  \E m \in T : \A x \in T : m <= x
  <1> DEFINE R == {r \in Nat \X Nat : r[1] < r[2]}
  <1>0. IsWellFoundedOn(R, Nat)
    BY NatLessThanWellFounded DEF OpToRel
  <1> HIDE DEF R
  <1>1. PICK m \in T : \A y \in T : ~ (<<y, m>> \in R)
    BY <1>0, WFMin
  <1>2. \A y \in T : ~(y < m)
    BY <1>1 DEF R
  <1> QED
    BY <1>1, <1>2

\* A set of numbers with 0, and with i whenever it has i - 1, has them all.
LEMMA CountUp ==
    ASSUME NEW n \in Nat, NEW T, 0 \in T, \A i \in 1 .. n : i - 1 \in T => i \in T
    PROVE  \A i \in 0 .. n : i \in T
  <1> SUFFICES ASSUME (0 .. n) \ T # {} PROVE FALSE
    OBVIOUS
  <1>1. PICK m \in (0 .. n) \ T : \A x \in (0 .. n) \ T : m <= x
    <2>1. (0 .. n) \ T \subseteq Nat
      OBVIOUS
    <2> QED
      BY <2>1, LeastNumber
  <1>2. m # 0 /\ m \in 1 .. n /\ m - 1 \in 0 .. n
    BY <1>1
  <1>3. m - 1 \in T
    BY <1>1, <1>2
  <1> QED
    BY <1>1, <1>2, <1>3

\* The free nodes from the head along `next`, up to some node; and all of them.
Chain(s, p) ==
    /\ s \in Seq(Free(p))
    /\ s # <<>> => s[1] = p.head
    /\ \A i \in 1 .. Len(s) - 1 : s[i + 1] = p.entry[s[i]].next

Lists(s, p) == Chain(s, p) /\ Onward(p, s) = Nil

\* A list does not meet itself: every node has one predecessor, the head none.
LEMMA ChainDistinct ==
    ASSUME NEW p \in Pool, WellFormed(p), NEW s, Chain(s, p),
           NEW i \in 1 .. Len(s), NEW j \in 1 .. Len(s), s[i] = s[j]
    PROVE  i = j
  <1> DEFINE T == {m \in 1 .. Len(s) : \E x \in 1 .. Len(s) : m < x /\ s[m] = s[x]}
  <1>0. s \in Seq(Free(p)) /\ Len(s) \in Nat /\ \A m \in 1 .. Len(s) : s[m] \in Free(p)
    BY DEF Chain
  <1>1. ASSUME T # {} PROVE FALSE
    <2>1. PICK m \in T : \A x \in T : m <= x
      <3>1. T \subseteq Nat
        BY <1>0
      <3> QED
        BY <1>1, <3>1, LeastNumber
    <2>2. PICK x \in 1 .. Len(s) : m < x /\ s[m] = s[x]
      BY <2>1
    <2>3. x - 1 \in 1 .. Len(s) - 1 /\ x - 1 \in 1 .. Len(s) /\ s[x] = p.entry[s[x - 1]].next
      BY <1>0, <2>1, <2>2 DEF Chain
    <2>0. \A y \in Free(p) : y # Nil
      BY PoolShape, KeysAreValid DEF Free
    <2>4. p.entry[s[x]].prev = s[x - 1] /\ s[x] # Nil
      <3>1. s[x] \in Free(p) /\ s[x - 1] \in Free(p)
        BY <1>0, <2>2, <2>3
      <3> QED
        BY <2>0, <2>3, <3>1, LinksOf
    <2>5. CASE m = 1
      <3>1. s[1] \in Free(p) /\ s[1] = p.head /\ s[x] = p.head
        BY <1>0, <2>2, <2>5 DEF Chain
      <3>2. p.entry[p.head].prev = Nil
        BY <3>1 DEF WellFormed, EndsAgree
      <3>3. s[x - 1] \in Free(p)
        BY <1>0, <2>3
      <3> QED
        BY <2>0, <2>4, <3>1, <3>2, <3>3
    <2>6. CASE m # 1
      <3>1. m - 1 \in 1 .. Len(s) - 1 /\ m - 1 \in 1 .. Len(s) /\ s[m] = p.entry[s[m - 1]].next
        BY <1>0, <2>1, <2>2, <2>6 DEF Chain
      <3>2. p.entry[s[m]].prev = s[m - 1]
        <4>1. s[m] \in Free(p) /\ s[m - 1] \in Free(p) /\ s[m] # Nil
          BY <1>0, <2>0, <3>1
        <4> QED
          BY <3>1, <4>1, LinksOf
      <3>3. m - 1 \in T
        BY <1>0, <2>1, <2>2, <2>3, <2>4, <3>1, <3>2
      <3> QED
        BY <1>0, <2>1, <3>3
    <2> QED
      BY <2>5, <2>6
  <1> QED
    BY <1>0, <1>1

\* The sequence of all free nodes is all of them: what it lacks would be closed
\* under `next`.
LEMMA ListComplete ==
    ASSUME NEW p \in Pool, WellFormed(p), NEW s, Lists(s, p)
    PROVE  {s[i] : i \in 1 .. Len(s)} = Free(p)
  <1> DEFINE S == Free(p) \ {s[i] : i \in 1 .. Len(s)}
  <1>0. /\ s \in Seq(Free(p)) /\ Len(s) \in Nat /\ \A m \in 1 .. Len(s) : s[m] \in Free(p)
        /\ Free(p) \subseteq Members(p) /\ Free(p) \subseteq Key /\ Chain(s, p)
    BY PoolShape DEF Lists, Chain, Free
  <1>1. ASSUME NEW k \in S PROVE p.entry[k].next \in S
    <2>1. p.entry[k].next # Nil
      <3>1. ASSUME p.entry[k].next = Nil PROVE FALSE
        <4>1. k = p.tail /\ p.head # Nil
          BY <1>0, <3>1, KeysAreValid DEF WellFormed, EndsAgree
        <4>2. s # <<>> /\ Len(s) \in 1 .. Len(s)
          BY <1>0, <4>1 DEF Lists, Onward
        <4>3. s[Len(s)] \in Free(p) /\ p.entry[s[Len(s)]].next = Nil
          BY <1>0, <4>2 DEF Lists, Onward
        <4>4. s[Len(s)] = p.tail
          BY <4>3 DEF WellFormed, EndsAgree
        <4> QED
          BY <4>1, <4>2, <4>4
      <3> QED
        BY <3>1
    <2>2. p.entry[k].next \in Free(p) /\ p.entry[p.entry[k].next].prev = k /\ k # Nil
      BY <1>0, <2>1, KeysAreValid DEF WellFormed, LinksMutual
    <2>3. ASSUME NEW i \in 1 .. Len(s), p.entry[k].next = s[i] PROVE FALSE
      <3>1. CASE i = 1
        <4>1. s[i] = p.head
          BY <1>0, <3>1 DEF Chain
        <4> QED
          BY <2>2, <2>3, <4>1 DEF WellFormed, EndsAgree
      <3>2. CASE i # 1
        <4>1. i - 1 \in 1 .. Len(s) - 1 /\ i - 1 \in 1 .. Len(s) /\ s[i] = p.entry[s[i - 1]].next
          BY <1>0, <3>2 DEF Chain
        <4>2. p.entry[s[i]].prev = s[i - 1]
          BY <1>0, <2>1, <2>3, <4>1 DEF WellFormed, LinksMutual
        <4> QED
          BY <2>2, <2>3, <4>1, <4>2
      <3> QED
        BY <3>1, <3>2
    <2> QED
      BY <2>2, <2>3
  <1>2. S = {}
    BY <1>1 DEF WellFormed, Acyclic
  <1> QED
    BY <1>0, <1>2

\* A pool has one such sequence only.
LEMMA ListUnique ==
    ASSUME NEW p \in Pool, WellFormed(p), NEW s, Lists(s, p), NEW t, Lists(t, p)
    PROVE  s = t
  <1>0. /\ s \in Seq(Free(p)) /\ Len(s) \in Nat /\ \A m \in 1 .. Len(s) : s[m] \in Free(p)
        /\ t \in Seq(Free(p)) /\ Len(t) \in Nat /\ \A m \in 1 .. Len(t) : t[m] \in Free(p)
        /\ Free(p) \subseteq Members(p) /\ Free(p) \subseteq Key /\ Chain(s, p) /\ Chain(t, p)
    BY PoolShape DEF Lists, Chain, Free
  <1> DEFINE n == IF Len(s) < Len(t) THEN Len(s) ELSE Len(t)
             T == {i \in 0 .. n : i = 0 \/ s[i] = t[i]}
  <1>1. \A i \in 0 .. n : i \in T
    <2>1. ASSUME NEW i \in 1 .. n, i - 1 \in T PROVE i \in T
      <3>1. CASE i = 1
        BY <1>0, <3>1 DEF Chain
      <3>2. CASE i # 1
        BY <1>0, <2>1, <3>2 DEF Chain
      <3> QED
        BY <3>1, <3>2
    <2> HIDE DEF T
    <2>2. 0 \in T /\ n \in Nat
      BY <1>0 DEF T
    <2> QED
      BY <2>1, <2>2, CountUp
  <1>2. \A i \in 1 .. n : s[i] = t[i]
    BY <1>0, <1>1
  <1>3. ASSUME NEW a, NEW b, Lists(a, p), Lists(b, p), Len(a) < Len(b),
               \A i \in 1 .. Len(a) : a[i] = b[i]
        PROVE  FALSE
    <2>0. /\ Len(a) \in Nat /\ Len(b) \in Nat /\ \A m \in 1 .. Len(b) : b[m] \in Free(p)
          /\ \A m \in 1 .. Len(a) : a[m] \in Free(p) /\ Chain(b, p) /\ a \in Seq(Free(p))
      BY <1>3 DEF Lists, Chain
    <2>1. Len(a) + 1 \in 1 .. Len(b) /\ b[Len(a) + 1] # Nil
      BY <1>0, <1>3, <2>0, KeysAreValid
    <2>2. CASE a = <<>>
      BY <1>3, <2>0, <2>1, <2>2 DEF Lists, Chain, Onward
    <2>3. CASE a # <<>>
      <3>1. Len(a) \in 1 .. Len(a) /\ Len(a) \in 1 .. Len(b) - 1
        BY <1>3, <2>0, <2>3
      <3>2. b[Len(a) + 1] = p.entry[a[Len(a)]].next
        BY <1>3, <2>0, <3>1 DEF Chain
      <3> QED
        BY <1>0, <1>3, <2>0, <2>1, <2>3, <3>1, <3>2 DEF Lists, Onward
    <2> QED
      BY <2>2, <2>3
  <1>4. Len(s) = Len(t)
    BY <1>0, <1>2, <1>3
  <1> QED
    BY <1>0, <1>2, <1>4

\* The next free node prolongs the chain.
LEMMA ChainExtends ==
    ASSUME NEW p \in Pool, WellFormed(p), NEW s, Chain(s, p), Onward(p, s) # Nil
    PROVE  /\ Onward(p, s) \in Free(p)
           /\ Chain(Append(s, Onward(p, s)), p)
           /\ Len(Append(s, Onward(p, s))) = Len(s) + 1
  <1> DEFINE x == Onward(p, s)
  <1>0. /\ s \in Seq(Free(p)) /\ Len(s) \in Nat /\ \A m \in 1 .. Len(s) : s[m] \in Free(p)
        /\ Free(p) \subseteq Members(p)
    BY DEF Chain, Free
  <1>1. x \in Free(p)
    <2>1. CASE s = <<>>
      BY <2>1 DEF Onward, WellFormed, EndsAgree
    <2>2. CASE s # <<>>
      <3>1. Len(s) \in 1 .. Len(s)
        BY <1>0, <2>2
      <3> QED
        BY <1>0, <2>2, <3>1 DEF Onward, WellFormed, LinksMutual
    <2> QED
      BY <2>1, <2>2
  <1>2. x = IF s = <<>> THEN p.head ELSE p.entry[s[Len(s)]].next
    BY <1>0 DEF Onward
  <1> HIDE DEF x
  <1>3. Chain(Append(s, x), p)
    <2> DEFINE r == Append(s, x)
    <2>1. /\ r \in Seq(Free(p)) /\ Len(r) = Len(s) + 1 /\ r[Len(s) + 1] = x
          /\ \A i \in 1 .. Len(s) : r[i] = s[i]
      BY <1>0, <1>1
    <2> HIDE DEF r
    <2>2. r[1] = p.head
      BY <1>0, <1>2, <2>1 DEF Chain
    <2>3. ASSUME NEW i \in 1 .. Len(r) - 1 PROVE r[i + 1] = p.entry[r[i]].next
      <3>1. CASE i = Len(s)
        BY <1>0, <1>2, <2>1, <2>3, <3>1
      <3>2. CASE i # Len(s)
        BY <1>0, <2>1, <2>3, <3>2 DEF Chain
      <3> QED
        BY <3>1, <3>2
    <2> QED
      BY <2>1, <2>2, <2>3 DEF Chain, r
  <1> QED
    BY <1>0, <1>1, <1>3 DEF x

\* A chain is no longer than there are members.
LEMMA ChainShort ==
    ASSUME NEW p \in Pool, WellFormed(p), NEW s, Chain(s, p), IsFiniteSet(Members(p))
    PROVE  Len(s) \in Nat /\ Len(s) <= Cardinality(Members(p))
  <1>0. s \in [1 .. Len(s) -> Members(p)] /\ Len(s) \in Nat
    <2>1. s \in Seq(Members(p))
      BY DEF Chain, Free
    <2> QED
      BY <2>1
  <1>2. IsFiniteSet(1 .. Len(s)) /\ Cardinality(1 .. Len(s)) = Len(s)
    <2>1. Len(s) \in Int /\ 1 \in Int
      BY <1>0
    <2>2. IsFiniteSet(1 .. Len(s)) /\ Cardinality(1 .. Len(s)) = IF 1 > Len(s) THEN 0 ELSE Len(s) - 1 + 1
      BY <2>1, FS_Interval
    <2> QED
      BY <1>0, <2>2
  <1>3. Cardinality(Members(p)) \in Nat
    BY FS_CardinalityType
  <1>1. ASSUME Cardinality(Members(p)) < Len(s) PROVE FALSE
    <2>1. \E x, y \in 1 .. Len(s) : x # y /\ s[x] = s[y]
      BY <1>0, <1>1, <1>2, FS_PigeonHole
    <2> QED
      BY <2>1, ChainDistinct
  <1> QED
    BY <1>0, <1>1, <1>3

\* get_free_list returns the sequence of all free nodes.
LEMMA WalkLists ==
    ASSUME NEW p \in Pool, WellFormed(p), IsFiniteSet(Members(p))
    PROVE  Lists(GetFreeList(p), p)
  <1> DEFINE n == Cardinality(Members(p))
             Rounds(f) == f = [i \in 0 .. n |-> IF i = 0 THEN <<>> ELSE WalkOn(p, f[i - 1], i)]
             walk == CHOOSE f : Rounds(f)
             Good(s, i) == /\ Chain(s, p) /\ Len(s) <= i
                           /\ Onward(p, s) = Nil \/ Len(s) = i
  <1>0. n \in Nat
    BY FS_CardinalityType
  <1>1. GetFreeList(p) = walk[n]
    BY Zenon DEF GetFreeList
  <1>2. \E f : Rounds(f)
    <2> DEFINE To(f, m) == f = [i \in 0 .. m |-> IF i = 0 THEN <<>> ELSE WalkOn(p, f[i - 1], i)]
               T == {m \in 0 .. n : \E f : To(f, m)}
    <2>1. 0 \in T
      <3> DEFINE f == [i \in 0 .. 0 |-> <<>>]
      <3>1. To(f, 0)
        OBVIOUS
      <3> HIDE DEF f, To
      <3> QED
        BY <1>0, <3>1
    <2>2. ASSUME NEW m \in 1 .. n, m - 1 \in T PROVE m \in T
      <3>1. PICK f : To(f, m - 1)
        BY <2>2
      <3> DEFINE g == [i \in 0 .. m |-> IF i = m THEN WalkOn(p, f[m - 1], m) ELSE f[i]]
                 h == [i \in 0 .. m |-> IF i = 0 THEN <<>> ELSE WalkOn(p, g[i - 1], i)]
      <3>2. ASSUME NEW i \in 0 .. m PROVE g[i] = h[i]
        <4>1. CASE i = m
          BY <1>0, <4>1
        <4>2. CASE i # m
          <5>1. i \in 0 .. m - 1 /\ g[i] = f[i]
            BY <1>0, <4>2
          <5>2. f[i] = IF i = 0 THEN <<>> ELSE WalkOn(p, f[i - 1], i)
            BY <3>1, <5>1
          <5>3. i # 0 => g[i - 1] = f[i - 1]
            BY <1>0, <4>2
          <5> QED
            BY <5>1, <5>2, <5>3
        <4> QED
          BY <4>1, <4>2
      <3>3. g = h
        BY <3>2
      <3>4. To(g, m)
        BY <3>3
      <3> HIDE DEF g, To
      <3> QED
        BY <1>0, <3>4
    <2> HIDE DEF T
    <2>3. \A m \in 0 .. n : m \in T
      BY <1>0, <2>1, <2>2, CountUp
    <2> QED
      BY <1>0, <2>3 DEF T
  <1> HIDE DEF Rounds
  <1>3. Rounds(walk)
    BY <1>2, Zenon
  <1> HIDE DEF walk
  <1>4. \A i \in 0 .. n : Good(walk[i], i)
    <2> DEFINE T == {i \in 0 .. n : Good(walk[i], i)}
    <2>1. 0 \in T
      <3>1. walk[0] = <<>>
        BY <1>0, <1>3 DEF Rounds
      <3>2. Chain(<<>>, p) /\ Len(<<>>) = 0
        BY DEF Chain
      <3> QED
        BY <1>0, <3>1, <3>2
    <2>2. ASSUME NEW i \in 1 .. n, i - 1 \in T PROVE i \in T
      <3>1. walk[i] = WalkOn(p, walk[i - 1], i)
        BY <1>0, <1>3 DEF Rounds
      <3>2. Good(walk[i - 1], i - 1) /\ Len(walk[i - 1]) \in Nat
        BY <2>2 DEF Chain
      <3> DEFINE w == walk[i - 1]
      <3>3. CASE Onward(p, w) = Nil
        BY <1>0, <3>1, <3>2, <3>3 DEF WalkOn
      <3>4. CASE Onward(p, w) # Nil
        <4>1. /\ Len(w) = i - 1 /\ Onward(p, w) \in Free(p)
              /\ Chain(Append(w, Onward(p, w)), p)
              /\ Len(Append(w, Onward(p, w))) = i
          BY <1>0, <3>2, <3>4, ChainExtends
        <4>2. Onward(p, w) \notin {Nil, Allocated}
          BY <4>1, PoolShape, KeysAreValid DEF Free
        <4>3. walk[i] = Append(w, Onward(p, w))
          BY <1>0, <3>1, <4>1, <4>2 DEF WalkOn
        <4>4. Good(walk[i], i)
          <5>1. Chain(walk[i], p) /\ Len(walk[i]) = i
            BY <4>1, <4>3
          <5> QED
            BY <1>0, <5>1
        <4> QED
          BY <1>0, <4>4
      <3> QED
        BY <3>3, <3>4
    <2> HIDE DEF T
    <2>3. \A i \in 0 .. n : i \in T
      BY <1>0, <2>1, <2>2, CountUp
    <2> QED
      BY <2>3 DEF T
  <1>5. Good(walk[n], n)
    BY <1>0, <1>4
  <1>6. ASSUME Onward(p, walk[n]) # Nil PROVE FALSE
    <2> DEFINE t == Append(walk[n], Onward(p, walk[n]))
    <2>1. Chain(t, p) /\ Len(t) = n + 1
      BY <1>0, <1>5, <1>6, ChainExtends
    <2> HIDE DEF t
    <2>2. Len(t) <= n
      BY <2>1, ChainShort
    <2> QED
      BY <1>0, <2>1, <2>2
  <1> QED
    BY <1>1, <1>5, <1>6 DEF Lists

\* What is left of a sequence without its i-th element.
LEMMA RemoveAtShape ==
    ASSUME NEW S, NEW s \in Seq(S), NEW i \in 1 .. Len(s)
    PROVE  /\ RemoveAt(s, i) \in Seq(S)
           /\ Len(RemoveAt(s, i)) = Len(s) - 1
           /\ \A j \in 1 .. Len(s) - 1 :
                 RemoveAt(s, i)[j] = IF j < i THEN s[j] ELSE s[j + 1]
  <1> DEFINE a == SubSeq(s, 1, i - 1)
             b == SubSeq(s, i + 1, Len(s))
  <1>1. /\ a \in Seq(S) /\ Len(a) = i - 1 /\ \A j \in 1 .. i - 1 : a[j] = s[j]
    OBVIOUS
  <1>2. /\ b \in Seq(S) /\ Len(b) = Len(s) - i
        /\ \A j \in 1 .. Len(s) - i : b[j] = s[i + j]
    OBVIOUS
  <1> HIDE DEF a, b
  <1>3. /\ a \o b \in Seq(S) /\ Len(a \o b) = Len(a) + Len(b)
        /\ \A j \in 1 .. Len(a) + Len(b) :
              (a \o b)[j] = IF j <= Len(a) THEN a[j] ELSE b[j - Len(a)]
    BY <1>1, <1>2, ConcatProperties
  <1> DEFINE c == a \o b
  <1>5. /\ c \in Seq(S) /\ Len(c) = Len(s) - 1 /\ Len(a) = i - 1
        /\ \A j \in 1 .. Len(s) - 1 : c[j] = IF j <= i - 1 THEN a[j] ELSE b[j - (i - 1)]
    BY <1>1, <1>2, <1>3
  <1> HIDE DEF c
  <1>4. ASSUME NEW j \in 1 .. Len(s) - 1
        PROVE  c[j] = IF j < i THEN s[j] ELSE s[j + 1]
    <2>1. CASE j < i
      BY <1>1, <1>5, <2>1
    <2>2. CASE ~(j < i)
      <3>1. j - (i - 1) \in 1 .. Len(s) - i /\ i + (j - (i - 1)) = j + 1
        BY <1>4, <2>2
      <3> QED
        BY <1>2, <1>5, <2>2, <3>1
    <2> QED
      BY <2>1, <2>2
  <1> QED
    BY <1>4, <1>5 DEF RemoveAt, a, b, c

\* Unlinking a free node takes it out of the list, and the head from its front.
LEMMA RemovedLists ==
    ASSUME NEW p \in Pool, WellFormed(p), NEW s, Lists(s, p), NEW k \in Free(p),
           NEW q \in Pool, Removed(p, k, q)
    PROVE  \E i \in 1 .. Len(s) : /\ s[i] = k
                                  /\ k = p.head => i = 1
                                  /\ Lists(RemoveAt(s, i), q)
  <1>0. /\ s \in Seq(Free(p)) /\ Len(s) \in Nat /\ \A m \in 1 .. Len(s) : s[m] \in Free(p)
        /\ Chain(s, p) /\ Onward(p, s) = Nil /\ Nil \notin Free(p)
        /\ Free(p) \subseteq Members(p)
    BY PoolShape, KeysAreValid DEF Lists, Chain, Free
  <1>1. PICK i \in 1 .. Len(s) : s[i] = k
    BY ListComplete
  <1>2. \A j \in 1 .. Len(s) : s[j] = k => j = i
    BY <1>1, ChainDistinct DEF Lists
  <1>3. k = p.head => i = 1
    <2>1. 1 \in 1 .. Len(s) /\ s[1] = p.head
      BY <1>0, <1>1 DEF Chain
    <2> QED
      BY <1>2, <2>1
  <1>4. Free(q) = Free(p) \ {k}
    BY RemovedFree
  <1> DEFINE r == RemoveAt(s, i)
             after(j) == IF j = Len(s) THEN Nil ELSE s[j + 1]
  <1>5. \A j \in 1 .. Len(s) : p.entry[s[j]].next = after(j)
    <2> TAKE j \in 1 .. Len(s)
    <2>1. CASE j = Len(s)
      BY <1>0, <2>1 DEF Onward
    <2>2. CASE j # Len(s)
      BY <1>0, <2>2 DEF Chain
    <2> QED
      BY <2>1, <2>2
  <1>6. \A j \in 1 .. Len(s) : j # i =>
           q.entry[s[j]].next = IF j = i - 1 THEN after(i) ELSE after(j)
    <2> TAKE j \in 1 .. Len(s)
    <2> SUFFICES ASSUME j # i
                 PROVE  q.entry[s[j]].next = IF j = i - 1 THEN after(i) ELSE after(j)
      OBVIOUS
    <2>1. s[j] # k /\ s[j] \in Free(p) /\ s[j] \in Members(p) \ {k}
      BY <1>0, <1>2
    <2>2. q.entry[s[j]].next = IF s[j] = p.entry[k].prev THEN p.entry[k].next
                               ELSE p.entry[s[j]].next
      BY <2>1 DEF Removed
    <2>3. CASE j = i - 1
      <3>1. p.entry[s[j]].next = k
        BY <1>0, <1>1, <1>5, <2>3
      <3>2. p.entry[k].prev = s[j]
        <4>1. k # Nil
          BY <1>0
        <4> QED
          BY <2>1, <3>1, <4>1, LinksOf
      <3> QED
        BY <1>1, <1>5, <2>2, <2>3, <3>2
    <2>4. CASE j # i - 1
      <3>1. p.entry[s[j]].next # k
        BY <1>0, <1>2, <1>5, <2>4
      <3>2. s[j] # p.entry[k].prev
        <4>1. p.entry[k].prev # Nil => p.entry[p.entry[k].prev].next = k
          BY LinksOf
        <4>2. s[j] # Nil
          BY <1>0
        <4> QED
          BY <3>1, <4>1, <4>2
      <3> QED
        BY <1>5, <2>2, <2>4, <3>2
    <2> QED
      BY <2>3, <2>4
  <1>7. /\ r \in Seq(Free(p)) /\ Len(r) = Len(s) - 1
        /\ \A j \in 1 .. Len(s) - 1 : r[j] = IF j < i THEN s[j] ELSE s[j + 1]
    BY <1>0, RemoveAtShape
  <1> HIDE DEF r, after
  <1>8. r \in Seq(Free(q)) /\ Len(r) \in Nat
    <2>1. \A j \in 1 .. Len(r) : r[j] \in Free(q)
      BY <1>0, <1>2, <1>4, <1>7
    <2> QED
      BY <1>0, <1>7, <2>1
  <1>9. r # <<>> => r[1] = q.head
    <2> SUFFICES ASSUME r # <<>> PROVE r[1] = q.head
      OBVIOUS
    <2>1. 1 \in 1 .. Len(s) - 1 /\ 1 \in 1 .. Len(s) /\ 2 \in 1 .. Len(s) /\ s[1] = p.head
      BY <1>0, <1>7, <1>8 DEF Chain
    <2>2. CASE i = 1
      <3>1. q.head = p.entry[k].next
        BY <1>1, <2>1, <2>2 DEF Removed
      <3> QED
        BY <1>1, <1>5, <1>7, <2>1, <2>2, <3>1 DEF after
    <2>3. CASE i # 1
      <3>1. q.head = p.head
        BY <1>2, <2>1, <2>3 DEF Removed
      <3> QED
        BY <1>7, <2>1, <2>3, <3>1
    <2> QED
      BY <2>2, <2>3
  <1>10. \A j \in 1 .. Len(r) - 1 : r[j + 1] = q.entry[r[j]].next
    <2> TAKE j \in 1 .. Len(r) - 1
    <2>1. /\ j \in Nat /\ i \in Nat /\ j \in 1 .. Len(s) - 1 /\ j + 1 \in 1 .. Len(s) - 1
          /\ j \in 1 .. Len(s) /\ j + 1 \in 1 .. Len(s)
      BY <1>0, <1>1, <1>7
    <2>2. /\ after(j) = s[j + 1]
          /\ j + 1 # Len(s) /\ after(j + 1) = s[j + 1 + 1]
      BY <1>0, <2>1 DEF after
    <2>3. /\ r[j] = IF j < i THEN s[j] ELSE s[j + 1]
          /\ r[j + 1] = IF j + 1 < i THEN s[j + 1] ELSE s[j + 1 + 1]
      BY <1>7, <2>1
    <2>4. CASE j < i - 1
      <3>1. j < i /\ j + 1 < i /\ j # i /\ j # i - 1
        BY <2>1, <2>4
      <3>2. q.entry[s[j]].next = after(j)
        BY <1>6, <2>1, <3>1
      <3> QED
        BY <2>2, <2>3, <3>1, <3>2
    <2>5. CASE j = i - 1
      <3>1. j < i /\ ~(j + 1 < i) /\ j # i /\ i = j + 1
        BY <2>1, <2>5
      <3>2. q.entry[s[j]].next = after(i)
        BY <1>6, <2>1, <2>5, <3>1
      <3> QED
        BY <2>2, <2>3, <3>1, <3>2
    <2>6. CASE j > i - 1
      <3>1. ~(j < i) /\ ~(j + 1 < i) /\ j + 1 # i /\ j + 1 # i - 1
        BY <2>1, <2>6
      <3>2. q.entry[s[j + 1]].next = after(j + 1)
        BY <1>6, <2>1, <3>1
      <3> QED
        BY <2>2, <2>3, <3>1, <3>2
    <2>7. j < i - 1 \/ j = i - 1 \/ j > i - 1
      BY <2>1
    <2> QED
      BY <2>4, <2>5, <2>6, <2>7
  <1>11. Onward(q, r) = Nil
    <2>1. CASE r = <<>>
      <3>1. Len(s) = 1 /\ i = 1 /\ s[1] = p.head
        <4>1. Len(r) = 0 /\ s # <<>>
          BY <1>0, <1>1, <2>1
        <4>2. Len(s) = 1
          BY <1>0, <1>7, <4>1
        <4> QED
          BY <1>0, <1>1, <4>1, <4>2 DEF Chain
      <3>2. q.head = p.entry[k].next
        BY <1>1, <3>1 DEF Removed
      <3> QED
        BY <1>1, <1>5, <2>1, <3>1, <3>2 DEF after, Onward
    <2>2. CASE r # <<>>
      <3>1. Len(r) \in 1 .. Len(r) /\ Len(r) \in 1 .. Len(s) - 1 /\ Len(r) + 1 = Len(s)
        BY <1>0, <1>7, <1>8, <2>2
      <3>2. q.entry[r[Len(r)]].next = Nil
        <4>0. /\ i \in 1 .. Len(s) /\ Len(r) \in Nat /\ after(Len(s)) = Nil
              /\ r[Len(r)] = IF Len(r) < i THEN s[Len(r)] ELSE s[Len(r) + 1]
          BY <1>1, <1>7, <1>8, <3>1 DEF after
        <4>1. CASE i = Len(s)
          <5>1. /\ Len(r) \in 1 .. Len(s) /\ Len(r) # i /\ Len(r) = i - 1
                /\ r[Len(r)] = s[Len(r)]
            BY <1>0, <3>1, <4>0, <4>1
          <5>2. q.entry[s[Len(r)]].next = after(i)
            BY <1>6, <5>1
          <5> QED
            BY <4>0, <4>1, <5>1, <5>2
        <4>2. CASE i # Len(s)
          <5>1. /\ Len(s) \in 1 .. Len(s) /\ Len(s) # i - 1 /\ Len(s) # i
                /\ r[Len(r)] = s[Len(s)]
            BY <1>0, <3>1, <4>0, <4>2
          <5>2. q.entry[s[Len(s)]].next = after(Len(s))
            BY <1>6, <5>1, <4>2
          <5> QED
            BY <4>0, <5>1, <5>2
        <4> QED
          BY <4>1, <4>2
      <3> QED
        BY <2>2, <3>2 DEF Onward
    <2> QED
      BY <2>1, <2>2
  <1> QED
    BY <1>1, <1>3, <1>8, <1>9, <1>10, <1>11 DEF Lists, Chain, r

\* push_to_tail puts the node behind the others.
LEMMA AppendedLists ==
    ASSUME NEW p \in Pool, WellFormed(p), NEW s, Lists(s, p), NEW k \in Key \ Free(p),
           NEW e \in Expiry, NEW q \in Pool, Appended(p, k, e, q)
    PROVE  Lists(Append(s, k), q)
  <1>0. /\ s \in Seq(Free(p)) /\ Len(s) \in Nat /\ \A m \in 1 .. Len(s) : s[m] \in Free(p)
        /\ Chain(s, p) /\ Onward(p, s) = Nil /\ Nil \notin Free(p)
        /\ Free(p) \subseteq Members(p) /\ Nil # k
    BY PoolShape, KeysAreValid DEF Lists, Chain, Free
  <1>1. Free(q) = Free(p) \cup {k} /\ k \in Members(q)
    BY AppendedWellFormed DEF Appended
  <1> DEFINE r == Append(s, k)
  <1>2. /\ r \in Seq(Free(q)) /\ Len(r) = Len(s) + 1 /\ r[Len(s) + 1] = k
        /\ \A j \in 1 .. Len(s) : r[j] = s[j]
    <2>1. s \in Seq(Free(q))
      BY <1>0, <1>1
    <2> QED
      BY <1>0, <1>1, <2>1
  <1> HIDE DEF r
  <1>3. r[1] = q.head
    <2>1. CASE s = <<>>
      <3>1. p.head = Nil
        BY <1>0, <2>1 DEF Onward
      <3> QED
        BY <1>2, <2>1, <3>1 DEF Appended
    <2>2. CASE s # <<>>
      <3>1. 1 \in 1 .. Len(s) /\ s[1] = p.head
        BY <1>0, <2>2 DEF Chain
      <3> QED
        BY <1>0, <1>2, <3>1 DEF Appended
    <2> QED
      BY <2>1, <2>2
  <1>4. \A j \in 1 .. Len(s) : r[j + 1] = q.entry[r[j]].next
    <2> TAKE j \in 1 .. Len(s)
    <2>0. s[j] \in Members(p) \ {k} /\ s[j] \in Free(p)
      BY <1>0
    <2>1. CASE j = Len(s)
      <3>1. p.entry[s[j]].next = Nil
        BY <1>0, <2>0, <2>1 DEF Onward
      <3>2. s[j] = p.tail
        BY <2>0, <3>1 DEF WellFormed, EndsAgree
      <3> QED
        BY <1>2, <2>0, <2>1, <3>2 DEF Appended
    <2>2. CASE j # Len(s)
      <3>1. j \in 1 .. Len(s) - 1 /\ j + 1 \in 1 .. Len(s) /\ p.entry[s[j]].next = s[j + 1]
        BY <1>0, <2>2 DEF Chain
      <3>2. s[j] # p.tail
        BY <1>0, <2>0, <3>1 DEF WellFormed, EndsAgree
      <3> QED
        BY <1>2, <2>0, <3>1, <3>2 DEF Appended
    <2> QED
      BY <2>1, <2>2
  <1>5. Onward(q, r) = Nil
    <2>1. r # <<>> /\ r[Len(r)] = k
      BY <1>0, <1>2
    <2>2. q.entry[k].next = Nil
      BY DEF Appended, Node
    <2> QED
      BY <2>1, <2>2 DEF Onward
  <1> QED
    BY <1>0, <1>2, <1>3, <1>4, <1>5 DEF Lists, Chain, r

\* A pool with the same free nodes in the same order.
LEMMA SameLists ==
    ASSUME NEW p \in Pool, NEW s, Lists(s, p), NEW q \in Pool, SameList(p, q)
    PROVE  Lists(s, q)
  <1>0. /\ s \in Seq(Free(p)) /\ Len(s) \in Nat /\ \A m \in 1 .. Len(s) : s[m] \in Free(p)
        /\ Chain(s, p) /\ Onward(p, s) = Nil
        /\ Free(p) \subseteq Members(p) /\ Free(q) \subseteq Members(q)
        /\ Free(q) = Free(p) /\ q.head = p.head
        /\ \A x \in Free(p) : q.entry[x].next = p.entry[x].next
    BY DEF Lists, Chain, Free, SameList
  <1>1. Chain(s, q)
    BY <1>0 DEF Chain
  <1>2. Onward(q, s) = Nil
    <2>1. CASE s = <<>>
      BY <1>0, <2>1 DEF Onward
    <2>2. CASE s # <<>>
      <3>1. Len(s) \in 1 .. Len(s)
        BY <1>0, <2>2
      <3> QED
        BY <1>0, <2>2, <3>1 DEF Onward
    <2> QED
      BY <2>1, <2>2
  <1> QED
    BY <1>1, <1>2 DEF Lists
=============================================================================
