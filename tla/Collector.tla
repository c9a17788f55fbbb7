------------------------------ MODULE Collector ------------------------------
(***************************************************************************)
(* RedisAllocatorDiagnostics.snapshot (diagnostics/collector.py) beside    *)
(* the allocator it observes.  One EVAL reads the pool with its locks; the *)
(* bindings, under their two prefixes, and the lock keys are then found by *)
(* bounded SCANs and read key by key, while scripts, soft-bind calls and   *)
(* expiries go on.  All of them are compared with the pool as it was read. *)
(*                                                                         *)
(* SCAN returns every key that is there from its start to its end, and may *)
(* return others that are there for a while.                               *)
(***************************************************************************)
EXTENDS SoftBind, Diagnostics

CONSTANTS ScanLimit,    \* RedisAllocatorDiagnostics(scan_limit=...)
          MaxMoves,     \* bound: steps of the allocator during one snapshot
          OtherLocks    \* locks in the allocator's namespace for no pool key, as
                        \* `<prefix>|<suffix>|pool|policy_update_lock`

ASSUME LimitsAreNat == ScanLimit \in Nat /\ MaxMoves \in Nat

VARIABLES snap,         \* the snapshot in progress, or the last one
          steady        \* history: what has not changed since the pool was read
dvars == <<sbvars, snap, steady>>

Phases == {"scan bindings", "read bindings", "scan strays", "read strays",
           "scan locks", "done"}

\* Redis keys the collector looks at.
LockKeys  == {<<"lock", k>> : k \in Key}
BindKeys  == {<<"bind", n>> : n \in Name}
StrayKeys == {<<"stray", n>> : n \in Name}

\* They have names of their own.
ASSUME OtherLocksAreOthers ==
    OtherLocks \cap (LockKeys \cup BindKeys \cup StrayKeys) = {}

Value(b) == IF b \in BindKeys THEN bind[b[2]].to ELSE stray[b[2]].to

LiveLocks    == {x \in LockKeys : Locked(x[2])}
LiveBindings == {b \in BindKeys \cup StrayKeys : Value(b) # Nil}
Live         == LiveLocks \cup LiveBindings \cup OtherLocks

\* The keys there are for the pattern of a phase.
Matching(phase) ==
    CASE phase = "scan bindings" -> LiveBindings \cap BindKeys
      [] phase = "scan strays"   -> LiveBindings \cap StrayKeys
      [] phase = "scan locks"    -> LiveLocks \cup (LiveBindings \cap StrayKeys) \cup OtherLocks
      [] OTHER                   -> {}

\* The collector's reports name bindings and locks of the allocator; what it
\* still has to read was returned by its scan.
CollectorTypeOK ==
    /\ snap.phase \in Phases
    /\ snap.members \in SUBSET Key /\ snap.locked \in SUBSET snap.members
    /\ snap.todo \subseteq snap.found
    /\ snap.owed \subseteq Matching(snap.phase) \ snap.found
    /\ snap.stale \subseteq BindKeys \cup StrayKeys
    /\ snap.orphans \subseteq LockKeys \cup OtherLocks
    /\ snap.truncated \in BOOLEAN
    /\ snap.health \in {"corrupt", "degraded", "healthy"}

NoSnapshot ==
    [phase |-> "done", members |-> {}, locked |-> {}, corrupt |-> FALSE,
     notable |-> FALSE, owed |-> {}, found |-> {}, todo |-> {}, stale |-> {},
     orphans |-> {}, truncated |-> FALSE, health |-> "healthy", moves |-> 0]

CollectorInit ==
    /\ SBInit
    /\ snap = NoSnapshot
    /\ steady = {}

-----------------------------------------------------------------------------
(* The snapshot.                                                           *)

\* Permanent locks, or less than a tenth of the pool free, by summarize_pool.
Notable(sum) == sum.permanent > 0 \/ (sum.total > 0 /\ 10 * sum.free < sum.total)

\* _collect_raw_pool, check_invariants and summarize_pool.
TakeRawPool ==
    /\ snap.phase = "done" /\ Idle
    /\ LET locked == {k \in Members(pool) : Locked(k)}
       IN  snap' = [NoSnapshot EXCEPT !.phase   = "scan bindings",
                                      !.members = Members(pool),
                                      !.locked  = locked,
                                      !.corrupt = CheckInvariants(pool, locked) # {},
                                      !.notable = Notable(SummarizePool(pool, lock)),
                                      !.owed    = Matching("scan bindings")]
    /\ steady' = LockKeys \cup BindKeys \cup StrayKeys
    /\ UNCHANGED sbvars

Scanning == snap.phase \in {"scan bindings", "scan strays", "scan locks"}

\* _bounded_scan: one more key, as long as the limit allows it.
ScanReturns ==
    /\ Scanning /\ Idle
    /\ Cardinality(snap.found) < ScanLimit
    /\ \E x \in Matching(snap.phase) \ snap.found :
          snap' = [snap EXCEPT !.found = @ \cup {x}, !.owed = @ \ {x}]
    /\ UNCHANGED <<sbvars, steady>>

\* Slip for the mutation runs: a scan of one batch, whatever the cursor says.
ScanMayEndEarly(truncated) == ~truncated

\* A scan ends with its cursor back at 0, or cut short at the limit.
ScanMayEnd(truncated) ==
    IF truncated THEN Cardinality(snap.found) >= ScanLimit
    ELSE snap.owed = {} /\ ScanLimit > 0

\* On to the next phase, whose scan owes the keys there are now.
GoTo(phase, s) == snap' = [s EXCEPT !.phase = phase, !.found = {}, !.owed = Matching(phase)]

BindingScanEnds ==
    /\ snap.phase \in {"scan bindings", "scan strays"} /\ Idle
    /\ \E t \in BOOLEAN :
          /\ ScanMayEnd(t)
          /\ snap' = [snap EXCEPT !.phase = IF @ = "scan bindings" THEN "read bindings"
                                                                   ELSE "read strays",
                                  !.owed = {}, !.todo = snap.found,
                                  !.truncated = @ \/ t]
    /\ UNCHANGED <<sbvars, steady>>

\* A binding is stale when it ran out since the scan, names no member, or, in
\* exclusive mode, one that is locked.
IsStale(v) ==
    \/ v \notin snap.members
    \/ ~Shared /\ v \in snap.locked

\* One GET of _collect_bindings.
ReadBinding ==
    /\ snap.phase \in {"read bindings", "read strays"} /\ Idle
    /\ \E b \in snap.todo :
          snap' = [snap EXCEPT !.todo = @ \ {b},
                               !.stale = IF IsStale(Value(b)) THEN @ \cup {b} ELSE @]
    /\ UNCHANGED <<sbvars, steady>>

BindingsRead ==
    /\ snap.phase \in {"read bindings", "read strays"} /\ Idle
    /\ snap.todo = {}
    /\ GoTo(IF snap.phase = "read bindings" THEN "scan strays" ELSE "scan locks", snap)
    /\ UNCHANGED <<sbvars, steady>>

\* Slip: keys under the soft-bind prefix are counted as locks.
OrphansCountStrays(found) == {x \in found : x \notin {<<"lock", k>> : k \in snap.members}}

\* _collect_orphans: every lock found whose key was not a member.
Orphans(found) ==
    {x \in found \ StrayKeys : x \notin {<<"lock", k>> : k \in snap.members}}

\* _recommendations and the verdict of snapshot(), without a previous snapshot
\* to compute pressure from.
Health(s) ==
    IF s.corrupt THEN "corrupt"
    ELSE IF s.orphans # {} \/ s.truncated \/ s.notable \/ s.stale # {} THEN "degraded"
    ELSE "healthy"

\* The last scan ends and the snapshot is returned.
Report ==
    /\ snap.phase = "scan locks" /\ Idle
    /\ \E t \in BOOLEAN :
          /\ ScanMayEnd(t)
          /\ LET s == [snap EXCEPT !.orphans = Orphans(snap.found), !.truncated = @ \/ t]
             IN  snap' = [s EXCEPT !.phase = "done", !.owed = {}, !.found = {},
                                   !.moves = 0, !.health = Health(s)]
    /\ UNCHANGED <<sbvars, steady>>

-----------------------------------------------------------------------------
(* The allocator goes on.                                                  *)

Unchanged(x) ==
    IF x \in LockKeys
    THEN (x[2] \in Members(pool)) = (x[2] \in Members(pool)') /\ Locked(x[2]) = Locked(x[2])'
    ELSE Value(x)' = Value(x)

\* A report that was returned is forgotten.
AllocatorStep ==
    /\ SBNext
    /\ IF snap.phase = "done"
       THEN snap' = NoSnapshot /\ steady' = {}
       ELSE /\ snap.moves < MaxMoves \/ ~Idle
            /\ snap' = [snap EXCEPT !.owed = @ \cap Live', !.moves = @ + (IF Idle THEN 1 ELSE 0)]
            /\ steady' = {x \in steady : Unchanged(x)}

CollectorStep ==
    \/ TakeRawPool \/ ScanReturns \/ BindingScanEnds \/ ReadBinding \/ BindingsRead \/ Report

CollectorNext == CollectorStep \/ AllocatorStep

CollectorSpec == CollectorInit /\ [][CollectorNext]_dvars

-----------------------------------------------------------------------------
(* Properties.                                                             *)

\* What there is to report: locks without a member, and bindings malloc will
\* not follow.
Anomalies ==
    {x \in LiveLocks : x[2] \notin Members(pool)}
    \cup {b \in LiveBindings : Value(b) \notin Members(pool) \/ (~Shared /\ Locked(Value(b)))}

\* Steady keys, and steady bindings to steady keys.
Settled ==
    (steady \cap LockKeys)
    \cup {b \in steady \cap LiveBindings : <<"lock", Value(b)>> \in steady}
    \cup {b \in steady \ LockKeys : Value(b) = Nil} \cup OtherLocks

\* However scans and reads interleave with scripts and expiries, what did not
\* change since the pool was read is reported only if it really is an orphan or
\* stale: the report's errors are about keys that were changing.
NoFalseAlarms ==
    [][Report => (snap'.orphans \cup snap'.stale) \cap Settled \subseteq Anomalies]_dvars

\* A "healthy" verdict overlooks nothing that was there all the time, scans cut
\* short at scan_limit included.
HealthyIsHonest ==
    [][Report /\ snap'.health = "healthy" => Settled \cap Anomalies = {}]_dvars
=============================================================================
