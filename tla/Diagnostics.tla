----------------------------- MODULE Diagnostics -----------------------------
(***************************************************************************)
(* What the diagnostics say of one atomic snapshot of the pool and its     *)
(* locks (diagnostics/invariants.py): the two walks, check_invariants and  *)
(* the counters of summarize_pool.                                         *)
(***************************************************************************)
EXTENDS RedisAllocator, SequencesExt

\* is_allocated_marker wants both link fields; everything else is a free node.
Markers(p)   == {k \in Members(p) : {p.entry[k].prev, p.entry[k].next} = {Allocated}}
FreeNodes(p) == Members(p) \ Markers(p)

\* One round of a walk: the node it is at, if free and not met before, is noted
\* and left along link.
WalkRound(p, link, w) ==
    IF w.at \in FreeNodes(p) \ ToSet(w.path)
    THEN [path |-> Append(w.path, w.at), at |-> link[w.at]]
    ELSE w

\* The free nodes met from `first` along link, and what the walk stopped at:
\* nothing, a node met before, a key that is missing or one that is allocated.
Walk(p, first, link) ==
    LET n == Cardinality(Members(p)) + 1
        walk[i \in 0 .. n] == IF i = 0 THEN [path |-> <<>>, at |-> first]
                              ELSE WalkRound(p, link, walk[i - 1])
    IN  walk[n]

WalkForward(p)  == Walk(p, p.head, [k \in Members(p) |-> p.entry[k].next])
WalkBackward(p) == Walk(p, p.tail, [k \in Members(p) |-> p.entry[k].prev])

Cyclic(w) == w.at \in ToSet(w.path)

\* The list a walk returns ends in a mark for a missing or allocated key.
Mark(k) == <<"stopped at", k>>

Listing(w) ==
    w.path \o (IF w.at = Nil \/ Cyclic(w) THEN <<>> ELSE << Mark(w.at) >>)

\* Violations found in an empty hash, and in one with entries.
EmptyViolations(p) ==
    {v \in {"empty pool has non-empty pointers"} : p.head # Nil \/ p.tail # Nil}

EntryViolations(p, locked) ==
    LET head == p.head  tail == p.tail
        free == FreeNodes(p)
    IN  {v \in {"pointer imbalance"} : (head = Nil) # (tail = Nil)}
        \cup {v \in {"head missing"} : head # Nil /\ head \notin Members(p)}
        \cup {v \in {"tail missing"} : tail # Nil /\ tail \notin Members(p)}
        \cup {v \in {"head has prev"} : head \in free /\ p.entry[head].prev # Nil}
        \cup {v \in {"tail has next"} : tail \in free /\ p.entry[tail].next # Nil}
        \cup {v \in {"free entry locked"} : free \cap locked # {}}
        \cup {v \in {"half-allocated"} : \E k \in free :
                 Allocated \in {p.entry[k].prev, p.entry[k].next}}

\* check_invariants: the kinds of violation it reports.
CheckInvariants(p, locked) ==
    LET f == WalkForward(p)
        b == WalkBackward(p)
    IN  {v \in {"forward cycle"} : Cyclic(f)}
        \cup {v \in {"backward cycle"} : Cyclic(b)}
        \cup {v \in {"walks differ"} : Listing(f) # Reverse(Listing(b))}
        \cup {v \in {"free set differs"} : ToSet(f.path) # FreeNodes(p)}
        \cup IF Members(p) = {} THEN EmptyViolations(p) ELSE EntryViolations(p, locked)

\* summarize_pool: the counters that depend on the locks.
SummarizePool(p, lk) ==
    LET locked == {k \in Members(p) : lk[k] # "none"}
    IN  [total       |-> Cardinality(Members(p)),
         free        |-> Cardinality(FreeNodes(p)),
         permanent   |-> Cardinality({k \in locked : lk[k] = "permanent"}),
         reclaimable |-> Cardinality(Markers(p) \ locked)]

-----------------------------------------------------------------------------
(* Properties.                                                             *)

\* A damaged pool check_invariants takes for sound: nothing is free, but head
\* and tail name the same allocated key (malloc would grant it or drop it).
Overlooked(p) == FreeNodes(p) = {} /\ p.head \in Members(p) /\ p.head = p.tail

\* Exclusive mode: check_invariants finds nothing to report, whatever ran
\* before and between the rounds of a script: a "corrupt" verdict never comes
\* from the allocator's own scripts.
DiagnosticsFindNothing == CheckInvariants(pool, {k \in Key : Locked(k)}) = {}
=============================================================================
