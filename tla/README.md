# RedisAllocator: formal models

TLA+ models of [redis_allocator](../src/redis_allocator), TLC runs over small
instances, and TLAPS proofs for every instance. Paths and line numbers refer to
`src/redis_allocator/` unless said otherwise. `PROJECT.json` lists the runs, the
source lines behind each definition, the hazards and the disagreements found
between code and documentation.

    tlc -config exclusive.cfg MCRedisAllocator.tla       # a run: see the table
    tlapm RedisAllocatorProofs.tla                       # the proofs: section 4

## 1. The system

| Component | State | Operations | What makes it correct |
|---|---|---|---|
| Pool and Lua helpers (`allocator.py` 614-895) | hash key → `prev‖next‖expiry`, head, tail | `push_to_tail`, `pop_from_head`, `set_item_allocated`, `check_item_health`, `get_free_list` | the free keys form one doubly linked list, in the order they became free |
| `RedisAllocator` (541-1425) | the pool, one lock key per resource, soft bindings, gc cursor | `clear`, `extend`, `shrink`, `assign`, `malloc_key`, `free_keys`, `gc`: one Lua script each | no key free and locked; none lost between free and locked; only unlocked keys are granted; crashed holders' keys come back |
| `RedisAllocatorObject`, policies' health checks (132-264, 348-392) | key, `_released` | `release`, `update`, `refresh`, `set_healthy`, `set_unhealthy`, `check_health` | one holder per key; `release` returns the key |
| `DefaultRedisAllocatorPolicy` (272-295, 395-538) | update lock, updater index, 5 s memo, object table | `malloc`, `refresh_pool`, `refresh_pool_all` | one updater at a time; keys of the source arrive; no stale refresh |
| `RedisLock` (`lock.py` 274-435) | one Redis key with TTL per lock | `lock`, `rlock`, `update`, `unlock`, `setgt`…`delne` | a caller told True by `lock`, `update` or `seteq` owns the key for its timeout |
| `ThreadLock` (543-665) | a `defaultdict`, an `RLock` | the same | behaves like an atomic lock, for threads that keep unguarded calls to the owner |
| Soft bindings (1110-1160) | binding keys of `malloc_key`, and those `update_soft_bind` writes | `update_soft_bind`, `unbind_soft_bind`, `get_soft_bind` | a binding never grants a key that is gone or locked |
| `RedisLockPool`, `ThreadLockPool` (439-528, 668-717) | a set of keys beside their locks | `extend`, `shrink`, `assign`, `clear`, `health_check` | counts agree with what held while they were taken |
| `RedisThreadHealthCheckPool` (`allocator.py` 47-88) | a `RedisLockPool` of thread idents | `initialize`, `update`, `finalize` | a living thread counts as locked, a crashed one as free in the end |
| `RedisTaskQueue` (`task_queue.py`) | a list of ids per task name, pickled tasks under TTL, listen keys | `query` (5 policies), `listen`, `RedisTask.update/save` | genuine answers, no double run, every query ends, fallbacks follow failures |
| Diagnostics (`diagnostics/`) | a snapshot in progress | `snapshot`, `check_invariants`, `summarize_pool` | reports damage only when there is some, and all of it when it says healthy |

How they interact: wrappers and policies call the allocator; the allocator *is* a
`RedisLockPool` and therefore a `RedisLock`, so `update`, `lock` and `unlock`
write the very lock keys the Lua scripts read. The policy's update lock is a lock of
that same interface. The diagnostics read the allocator's keys and write none.
The thread pool is a lock pool of its own. The task queue shares Redis with the rest and nothing else.

What is hard: calls of many processes interleave between two EVALs; locks, items
and bindings run out between any two commands; holders, updaters and listeners die;
a script may fail half-way and keeps what it wrote; ThreadLock's calls are not
atomic. `PROJECT.json` lists each of these hazards at its line.

## 2. Modules

| Module | Models | Composition |
|---|---|---|
| `FreeList` | the pool as a record and each Lua helper as an operator that returns the pool and whether its asserts held; the parts of `WellFormed` | constants only |
| `RedisAllocator` | every script, its rounds, and expiry | EXTENDS `FreeList` |
| `FifoPool` | abstract: a queue of free keys and a set of others; from the queue a key leaves at any place and joins at the end only | refined by `RedisAllocator` (`RefinesFifo`) |
| `SoftBind` | the soft-bind calls and the second namespace they write | EXTENDS `RedisAllocator` |
| `Diagnostics` | the walks, `check_invariants`, `summarize_pool` as operators on a pool | EXTENDS `RedisAllocator` |
| `Collector` | `snapshot`, one Redis command per step | EXTENDS `SoftBind`, `Diagnostics`; runs beside the allocator's steps |
| `AllocatorClients` | wrappers, the policy's table, administrator, health checks | EXTENDS `SoftBind`: its actions call the scripts |
| `PoolUpdater` | update lock, refresh of the pool | the pool as a set of keys |
| `Lock` | `BaseLock` on one key, atomic, as Redis runs it | |
| `LockClients` | callers that count on their answers | EXTENDS `Lock` |
| `ThreadLock` | one dictionary operation per step | refines `Lock` (`RefinesLock`) |
| `LockPool` | `RedisLockPool`: one operator per command | |
| `ThreadHealth` | threads that register, renew, withdraw and crash, and a monitor | EXTENDS `LockPool` |
| `TaskQueue` | callers, Redis list and keys, listeners, workers | |
| `MC…` | symmetry sets and constants for TLC | |
| `FreeListProofs` | the contract of each Lua helper; the list as a sequence | EXTENDS `FreeList` |
| `RedisAllocatorProofs` | theorems about the scripts | EXTENDS `RedisAllocator`, `FreeListProofs` |
| `AroundAllocatorProofs` | theorems about wrappers and clients, the collector, `check_invariants` | EXTENDS `AllocatorClients`, `Collector`, `RedisAllocatorProofs` |
| `LockProofs`, `ThreadLockProofs`, `ThreadHealthProofs`, `TaskQueueProofs`, `PoolUpdaterProofs` | theorems about the module of that name (`LockClients` for the first) | EXTENDS that module |

Definitions whose comment begins with *Slip* are not part of a specification: they
are the plausible mistakes the mutation entries of `PROJECT.json` put in place of a
definition to show that a property notices them.

### State and actions against the code

**FreeList, RedisAllocator.** An expiry is `never`, `live` or `expired`; a lock or
binding TTL is absent, `timed` or `permanent`; a wall clock would add numbers and no
behaviour. Redis runs one EVAL at a time. A script that loops is split into rounds,
one per key or per skipped head, and `script` holds what is left of it; while it is
not idle nothing else may happen and no key expires, so the split is invisible to
others, yet the invariants are checked (and hold) between the rounds. A failing
`assert` ends the script with the writes made before it, `reply.status = "assert"`;
a failing Redis command likewise with `"error"`. `pairs` and `HKEYS` orders are
nondeterministic. HSCAN is modelled by its guarantee: a scan visits every member
present from its start to its end, in any order, and may return others. A batch is
a set: naming a key twice in one call is left out.

**SoftBind.** `bind` is the key malloc and `get_soft_bind` use. `update_soft_bind` and
`unbind_soft_bind` pass that key through `_key_str` once more and reach another one,
`stray`, which no script reads: so they are actions on `stray` alone.

**Diagnostics, Collector.** A walk is a recursive function, one `WalkRound` per node, as
`GetFreeList` is one `WalkOn` per node. `check_invariants` is an operator that returns the
kinds of violation it finds; `DiagnosticsAreExact`, an assumption TLC evaluates on all pools of
the instance, sound or not, compares it with `WellFormed`. They agree but for one blind
spot (`Overlooked`): nothing is free and head and tail name the same allocated key, which
both walks list alike; `DiagnosticsExact` proves this for pools of any size. `Mark` is what
a walk leaves for a key that is missing or allocated. In `Collector` the atomic script is one step; SCAN is modelled by
its guarantee, one returned key per step, cut short at `ScanLimit`; every GET is a step.
`snap` is the report in progress; `steady` is a history variable: what did not change
since the pool was read, which is what a report can be held to. A name whose own
grant locked its key counts as stale by the code's definition, and so it does here. The
values of `moves` bound the allocator's steps during a snapshot.

**ThreadHealth.** `initialize` is `Start` and `Register`, `finalize` is `Withdraw` and
`Finish`, `health_check` is `ListKeys` and `Count`; a crash may come between any two.
`due` and `left` are history: the threads that registered before a listing, and the
idents that may be listed without a living thread.

**AllocatorClients.** A client holds at most one wrapper. `lease` is a history
variable: the keys a client may believe to hold, from its grant until it frees the
key or the lock runs out. The clients are careful: they make no call on a wrapper
whose lease ended, and the administrator does not re-add a key that is still locked,
unless `LateCalls` or `Readds` allow it. With `AutoClose` the clients are
threads of one process whose objects differ by their key only: a grant is then followed
by a lookup in the policy's table and by the registration, each a step (`join`). A refreshed
wrapper stays registered under its old key, and a refresh onto the key it had takes its
entry away (the temporary wrapper registered there is gone). The `gc` calls of `policy.malloc` are the
administrator's, at any moment, which includes the moment before a malloc.

**Lock, LockClients, ThreadLock.** One key, as keys do not interact. Time is counted
in ticks, since the promise is about how long. An owner's value is a number so that
the conditional calls can compare; `result` carries a bit that flips with each call,
so a refinement distinguishes a call from no call. `Renews` says what an rlock of the owner
does to the TTL: nothing in RedisLock (`lock.cfg`), a new one in ThreadLock. In `ThreadLock` a step is what the
interpreter cannot interrupt: one dictionary operation; a lookup of a missing key is
two, because the Python factory runs in between.

**TaskQueue.** A query and its task are one element of `Task`. A result or error is
the place that produced it. Each Redis command is a step; deadlines, expiries and
crashes are actions that may strike in the behaviours with `trouble`. `listener` is the
loop of `listen`, `job` the copy of a task in a worker thread, `runs` the history of
task_fn. `unpicklable` is a result pickle refuses: the save fails after `_save` was
cleared. Several task names, and one id used by two queries, are left out.

**PoolUpdater.** A key is named by the parameter it was fetched for and the version
the source had then. `pc` is where a process is in `refresh_pool` (`"refresh"` under
the update lock, `"all"` from `refresh_pool_all`). With one parameter the keys are
assigned, with more they extend the pool; `deployment` is fixed for a behaviour.

## 3. Runs

Passing runs (sizes are distinct states, after symmetry):

| Run | Question | Bounds | States |
|---|---|---|---|
| `exclusive` | all scripts and expiries; the list is a queue; the diagnostics are exact and find nothing | 3 keys (a list with a middle), batches of 2, timed and permanent locks | 183,838 |
| `named` | soft bindings that take from the middle; no key lost; scripts end, crashed holders' keys return | 2 keys, 1 name, timed locks, fair | 78,849 |
| `clients` | one holder per key, with health checks and auto_close | 2 clients, 2 keys, 1 name, batches of 1 | 1,294,389 |
| `clients_shared` | shared mode: what is granted stays available beside locks set by health checks | 2 clients, 2 keys, batches of 1 | 639,706 |
| `collector` | what a snapshot beside a running allocator may report | 2 keys, 1 name, scans of 2 keys, 3 allocator calls per snapshot | 720,180 |
| `threads` | health counts beside threads that come, go and crash | 3 threads, 2 idents, fair | 90,360 |
| `queue` | genuine answers, at most one run per place, under every policy and outcome | 2 queries, 2 listeners | 3,040,926 |
| `queue_ends` | every query ends, fallbacks follow failures, polling leaves pending state alone | 2 queries, 4 policies, 1 listener, with and without trouble, fair | 180,405 |
| `lock` | the promises of RedisLock, with its rlock | 3 owners, timeouts 1 and 2 | 1,512 |
| `threadlock` | `ThreadLock` refines `Lock` | 3 threads, timeouts 1, 2 and none | 258,600 |
| `updater` | one updater, no stale refresh, keys arrive | 2 processes; 1 parameter (assign) with and without `refresh_pool_all`, or 2 (extend); 2 versions, fair | 2,620 |

Three keys give a list a head, a middle and a tail, so every link of every helper is
rewritten in all three positions; the proofs below remove the bound. Two clients
suffice for a key to change hands behind the back of its holder, two listeners to
pop the same list, three threads for an ident to be taken over while another is
withdrawn, a scan limit below the number of keys there may be for scans to be cut short,
two versions to tell an older refresh from a newer one. Symmetry is
used where only invariants and action properties are checked.

One run expects a violation. `clients_shared_list` is about the comment of `push_to_tail`
(`allocator.py` 707), "push the item to the free list, item should not be in the free
list", in shared mode: a key locked while it is free (`update`, `set_unhealthy`) is pushed
a second time by `release()`, and a list of one key becomes its own neighbour. README 448
says "The pool linked-list invariants survive arbitrary interleaving of `malloc` / `free` /
`extend` / `assign` / `gc` from concurrent processes": `release()` is such a `free`, the
calls that set the lock are not in that list.

Two things the code does are in the passing runs, and no property forbids them. A bound
caller is granted an item whose expiry has passed: the soft-bind path looks at membership
and lock (1207-1209), where `pop_from_head` drops expired heads. And a LocalFirst caller
raises the local error without waiting for a listener: it stores the task with that error
(`task_queue.py` 403), and its first poll finds it.

### What the passing runs assume of callers

The properties are about code used as its design needs it, and the assumption is a
constant or a bound of the configuration. Changing it shows what happens otherwise:

| In | Change | TLC then shows |
|---|---|---|
| `clients.cfg` | `LateCalls = {"free"}` or `{"update"}` | after its lock ran out a client frees or takes over the next holder's key: no call tests ownership |
| `clients.cfg` | `Readds = TRUE` | re-adding an evicted key that is still held deletes its lock |
| `clients.cfg` | invariant `FreeKeysUnlocked` | `check_health` locks an unhealthy key inside the free list, against INV-4 of the tests; `check_invariants` reports such a key, in either mode |
| `clients.cfg` | `LateCalls = {"register"}` | the lock runs out before the wrapper is registered: auto_close closes the next holder's object (`AutoCloseSparesHolders`) |
| `clients_shared.cfg` | `Name = {n1}` | the soft-bind path grants a key that gc had marked allocated, and leaves it so (`SharedGrantStaysFree`) |
| `named.cfg` | `LockTtl = {"timed", "permanent"}` | malloc by name with timeout ≤ 0: SET EX fails after the item was marked; the key is neither free nor locked until gc (`NoScriptAbandonsKey`) |
| `named.cfg` | property `UnbindUnbinds` | `unbind_soft_bind` leaves the binding malloc follows, against its docstring |
| `collector.cfg` | `OtherLocks <- PolicyLock` | the policy's own update lock is reported as an orphan (`NoFalseAlarms`) |
| `threads.cfg` | `Collide = TRUE` | two processes whose threads have the same ident: one's `finalize` takes the other out of the count, although the docstring (`allocator.py` 50) speaks of a distributed environment |
| `threads.cfg` | `Late = {t1}` | a thread that renews late counts as free |
| `queue_ends.cfg` | `Reports = TRUE` | after one `task.update()`, the outcome is never saved, although `_save` is there to persist result, error and progress (`task_queue.py` 58-59): a caller without a deadline polls on (`QueriesEnd`) |
| `queue_ends.cfg` | outcome `"unpicklable"` | nothing is stored: a caller without a deadline polls on (`QueriesEnd`) |
| `queue_ends.cfg` | outcome `"nothing"` | a `None` result is no result: a caller without a deadline polls on (`QueriesEnd`) |
| `lock.cfg` | `Hopeful = TRUE` | `RedisLock.rlock` answers its owner True and leaves the old TTL (347): an owner that takes the answer for new time, as the docstring (`lock.py` 112-125) lets it, loses the key early (`PromisesKept`) |
| `lock.cfg` | `Late = {"unlock"}` | `unlock` deletes the next owner's lock |
| `threadlock.cfg` | `Careful = FALSE` | `update` outside the RLock is lost; a read overwrites a lock with a default; `unlock` of an expired entry answers True |
| `updater.cfg` | `SlowFetch = TRUE` | a fetch longer than `update_interval`: two updaters, and the slower one writes older keys |

### Fairness

- `FairSBSpec` (`named`): Redis finishes a script it began (WF on rounds). A timed lock
  runs out and somebody calls gc again and again — the default policy does so in every
  malloc. Both need an idle server, which other scripts interrupt for ever, hence SF.
  `CrashedHolderReclaimed` excepts a key that a name stays bound to: the next malloc of
  that name may take the key between the end of its lock and gc, again and again.
- `FairTHSpec`: the monitor goes on counting and a lock nobody renews runs out (WF each).
  Nothing makes a thread start, renew or end.
- `FairTQSpec`: a caller polls on, task_fn ends, a listener goes round its loop and is
  started again when it stopped (WF each). Nothing makes a listener survive.
- `FairPUSpec`: processes go on allocating, TTLs end, and a fetch that is tried again
  and again for a parameter brings keys some time. `KeysArrive` assumes besides that
  processes stop dying at some time, and that nobody clears the pool for ever: a process
  that starts begins with the first parameter, so processes that die for ever after one
  refresh starve the other parameters.

## 4. Proofs

Every invariant and every action property of the passing runs, and both refinements, are
stated by a theorem: for every set of keys, names, clients, threads, queries, listeners,
owners or processes, every timeout and batch. Liveness stays with TLC. `PROJECT.json`
lists the theorems. They assume the named constant assumptions of the modules (the two
reserved strings are no keys, as `_validate_keys` sees to; parameters have their types)
and, where the code needs a careful caller, a hypothesis, which is a row of the table of
section 3 turned around:

| Theorem | Hypothesis | What goes wrong otherwise, section 3 |
|---|---|---|
| all of `RedisAllocatorProofs` but the next two rows, `AllClientsGrantUnlocked`, `ClientsTypeCorrect`, `DiagnosticsClean`, `HealthyReportsHonest`, `RunsOnce`, `AnswersGenuine`, `FallbacksFollow`, `PendingSurvives` | none | |
| `SharedGrantsStayFree`, `AllClientsShareGrants` | shared mode, no names | the soft-bind path keeps the key |
| `NoScriptAbandons` | no names, or no timeout ≤ 0 | SET EX fails half-way |
| the clients' other theorems (`KeysExclusive`, `LeasesStayLocked`, `LeaseLocksStayUndisturbed`, `AutoCloseSpares`, `ClientsListWellFormed`) | `Careful`: exclusive mode, no late calls, no re-adding of held keys | `LateCalls`, `Readds` |
| `DiagnosticsExact` | finitely many members, and no key that looks like a `Mark` | below, under Diagnostics |
| `ReportsNoFalseAlarms` | `OtherLocks = {}` | the policy's own lock as an orphan |
| the thread pool's theorems | `InTime`: one process, renewals in time | `Collide`, `Late` |
| `OneUpdaterOnly` | `~SlowFetch`; the property does not count `refresh_pool_all` | two updaters |
| `NoRefreshIsStale` | `~SlowFetch`; the property is for deployments without `refresh_pool_all` | two updaters |
| `PromisesAlwaysKept` | `InTime`: no late calls, and owners expect new time of a further rlock just if it renews (RedisLock's does not) | `Late`, `Hopeful` |
| `ThreadLockRefinesLock` | `Careful`: calls without the RLock come from the owner of a live lock, lookups run alone; the `Lock` it implements has an rlock that renews, as ThreadLock's does (608-616) | lost updates |

The type invariants of the scripts, the clients, the collector, the queue, the updater
and `ThreadLock` need no hypothesis.

### The scripts

No invariant of the scripts is inductive alone. `push_to_tail` asserts that the key it
appends is not in the list; `free` and `gc` call it knowing something about the *lock*. So
the asserts need `FreeKeysUnlocked`, which needs `ListWellFormed` (to know that a
detached key is really out), which needs the asserts (a half-done script would tear the
list). `ScriptConsistent`, which no run lists, adds what the loops of gc and assign know
about the keys that are left, and `MallocLocks` the timeout a running malloc will lock
with. The conjunction comes in two parts, `IInv == SInv /\ FreeKeysUnlocked`: health
checks and careful clients lock keys inside the list, which breaks the second part and not
the first, so the lemmas about rounds assume `SInv` and, of the key at hand, only that it
is not both free and locked. `AroundAllocatorProofs` cites the same lemmas.

The argument has two layers. `FreeListProofs` shows of each helper, on any well-formed
pool, that its asserts hold, that the result is well formed and how `Free` changes. All
removals, from head, middle or tail, are reduced to one relation (`Removed`), all
insertions to another (`Appended`), so the preservation of the links is proved once
each. `Acyclic` is stated as "no non-empty set of free keys is closed under `next`",
which a local change preserves without induction along the list. `RedisAllocatorProofs`
then has one lemma per script round and one for expiries. The same lemmas say what a
round does to locks and membership (`FreedUnlocked`, `NothingAbandoned`, `NothingAdded`,
`LocksStay`), from which the action properties follow.

### The list as a sequence

What `get_free_list` and the two walks return needs induction after all: along one list,
over its positions. The provers cannot instantiate an induction theorem, but they need
none: `LeastNumber`, from the library's `WFMin`, gives every set
of numbers a least element, and `CountUp` turns that into "a set with 0 that has *i*
whenever it has *i* - 1 has them all". Both take sets, not predicates.

`Chain(s, p)` says that the sequence *s* follows `next` from the head of *p*, and `Lists`
that it goes on to the end. A chain never meets itself (`ChainDistinct`), so it is not longer
than the pool is large (`ChainShort`), and one that ends has every free key
(`ListComplete`: the keys it lacks would be closed under `next`), which fixes it (`ListUnique`).
`WalkLists` concludes that `GetFreeList` is that sequence; `RemovedLists`,
`AppendedLists` and `SameLists` say what each helper makes of it.

**FIFO.** Every step of every script is one of seven kinds of change (`Moves`: a key leaves
the pool from the list or from outside it, is lent, joins, is rotated, the pool is
cleared or stays; `NextMoves`), and each kind is a step of `FifoPool` or stutters
(`MovesRefine`). The walk is bounded by the number of members, so the proof carries
`FinitePool` along, which holds since each step adds one member at most. `ListIsFifo` has
no hypothesis: shared mode and names included.

**Diagnostics.** A walk along a sequence of distinct free nodes notes it all and ends at
nothing (`WalkAlong`). The forward walk is along the list, the backward walk along its
reverse (`WalksMeetTheList`), so `check_invariants` has nothing to report on a sound pool
without locked free keys (`SoundListPasses`), which `IInv` provides.

`DiagnosticsExact` is about any pool, damaged ones included, and goes both ways. A walk
along whatever links stops at nothing, at a node it met or at a mark (`WalkStops`: it has
one round more than there are members, and its nodes are distinct). If the one listing is
the reverse of the other and neither walk is cyclic, they either met the same nodes or are
one mark (`ListingsMirror`); the nodes a walk met are then all the free ones, each names its
neighbours in both directions, and a set of them closed under `next` would hold the last
(`ListIsSound`). A single mark is the blind spot: head and tail name one allocated key. The
hypothesis about marks is real: `_walk_forward` writes them into the list of keys
(`"<missing:...>"`), `check_invariants` drops what begins with `<`, and `_validate_keys`
does not refuse a key that does; a free key of that kind would be reported although the
pool is sound.

### Soft bindings, clients and collector

`SoftBindIsBeside` shows that the soft-bind calls change nothing the scripts read, so the
theorems about the scripts hold beside them (`named` runs both). `AllClientsGrantUnlocked`
needs no invariant, mode or careful caller: malloc looks at the lock last.

Beside clients that are not careful, or in shared mode, the list may be damaged
(`clients_shared_list`) and `SInv` is lost. What is left is types, and they are inductive
alone: `FreeListProofs` shows of every helper that on *any* pool, sound or damaged, it leaves
a pool, whether its asserts hold or not ("Any pool, sound or damaged"). One consequence of
the type is worth having: the tail is a key or none, never the sentinel, so an item
`push_to_tail` writes behind it is a free item (`PushToTailTyped`). `ClientsKeepTypes` carries this
through every call of every client, the administrator, the health check and expiries; it gives
`ClientsTypeCorrect` and, as a grant in shared mode ends with that push,
`AllClientsShareGrants`: `SharedGrantStaysFree` beside any clients.

`CInv` adds to `SInv` that leases are disjoint (`LeasesDisjoint`), that a leased key is
locked and out of the list (`LeasesBacked`: so the scripts grant it to nobody, and its
release meets no failing assert), that a grant on its way into the policy's table is
leased (`JoinsHeld`), and that what an administrator's running script has still to add is not
locked (`AdditionsUnlocked`: the guard against re-adding is read when the script starts).
From it follow `Exclusive`, `LeasesAreLocked`, and for a registration that the object
it finds in the table under its key belongs to nobody who holds it. A lease ends with its
lock, so `LeasesAreLocked` cannot see a TTL that somebody shortened.
`LeaseLocksUndisturbed`, an action property, can: the lock under a lease is changed by its
holder, by a health check of that very key, which may shorten it, and by its TTL, by nobody
else. It is proved and in no run, whose locks all have a TTL; TLC finds no violation with
`LockTtl = {"timed", "permanent"}` and `BindTtl = {"permanent"}` in `clients.cfg`.

For the collector, `SnapInv` relates the report in progress to the store through the
history variable `steady`: of a steady key the pool as read is the pool as it is
(`PoolAsRead`), what a scan found is there (`FoundLive`), what it noted as stale is
(`StaleIsOld`); and a scan that was not cut short owes nothing it has to return
(`ScanComplete`, `StaleComplete`). The first three give no false alarms, the last two an
honest "healthy". `SnapInv` leans on `IInv` for the allocator's own steps.

### Thread pool, task queue, updater, locks

`HInv` (`ThreadHealth`): living threads have distinct idents that stay locked from
`initialize` to `finalize`; registered ones are in the Set, or in a listing made since;
every ident in the Set or a listing belongs to a running thread or is in `left`.

`TaskQueue` has several invariants on top of its types (`TInv`), since its properties
have little to do with each other. `RInv`: the id of a query is a token, in the
list, in a listener's hand or in a worker, at one place at most; once the task ran remotely,
or before it is sent, at none. Hence one run per place (`RunsOnce`). `EInv`: whatever a
stored task, a job or a caller's object holds was produced by a run at the place it
names (`AnswersGenuine`). `FInv`: where an error answer is in the course of its policy; `GInv`:
a RemoteFirst caller that fell back without trouble did so on an error of a listener's run
(with `FInv` and `RInv`, `FallbacksFollow`). `DInv`: until the task ran remotely, key and job hold what the
caller put there, so a copy written late cannot undo an outcome, nor polling change a
pending state (`PendingSurvives`).

`PoolUpdater`: only the holder of the update lock updates (`OnlyHolderUpdates`), and what it
has fetched is no older than what the pool has of that parameter (`NotOvertaken`).

`LockProofs` proves `PromisesKept`: a caller told True owns the key until its time is up. The
owner's count and the TTL are equal (`OwnerCounts`), which is why the True of an rlock that
leaves the TTL is worth the time still counted.
`ThreadLockProofs` shows that `ThreadLock` implements `Lock` step by step. `SafeInv` says
that what a call read under the RLock still lets it write: one thread is inside, and
nobody else is anywhere while a read stores its default. The step in which a call returns
is the step of `Lock`; all others stutter.

### Only model-checked

Liveness, which TLAPS does not reach: `ScriptsEnd`, `CrashedHolderReclaimed` (`named`),
`CrashesAreNoticed` (`threads`), `QueriesEnd` (`queue_ends`), `KeysArrive` (`updater`). And of
course the violation of `clients_shared_list`.

## 5. Not modelled

Dashboard and CLI have no state; `diagnostics/models.py` is records and their JSON. Of
the collector, the pressure against a previous snapshot, INFO and the slow log, and keys
SCAN returns twice are left out. `ThreadLockPool` is not modelled: its `keys()` hands out
the live Python set, so an iteration beside an `extend` fails with RuntimeError rather than
with a wrong count. `policy.finalize` only closes user objects at exit. User code (`open`,
`close`, `is_healthy`, `fetch`, `task_fn`) appears as the outcomes it may have. Key names and their encoding, logging,
progress numbers, the shuffle before a refresh, and the interval between polls are
left out: no property depends on them. Redis Cluster is out of scope of the library
itself.

## 6. Plan

What is left: `ThreadLockPool`, and one task id used by two queries, where the older
result answers the younger query.
