------------------------ MODULE AroundAllocatorProofs ------------------------
(* What goes on around the allocator's scripts.  Careful clients of an     *)
(* exclusive allocator, however many they are: one holder per key, its     *)
(* lock behind it, and a sound list, although health checks lock keys      *)
(* inside the free list; and what clients of any kind can rely on.  The    *)
(* diagnostics that read the pool, the bindings and the locks one command  *)
(* after the other.  And what check_invariants says of any list, sound or  *)
(* damaged.                                                                *)
EXTENDS AllocatorClients, Collector, RedisAllocatorProofs

-----------------------------------------------------------------------------
(* Soft-bind calls, and clients of any kind.                               *)

\* The soft-bind calls touch nothing the scripts read: beside them the scripts run
\* as they do alone, and keep what they keep alone.
THEOREM SoftBindIsBeside == SBSpec => Spec
  <1>1. SBInit => Init
    BY DEF SBInit
  <1>2. [SBNext]_sbvars => [Next]_vars
    BY DEF SBNext, SoftBindCall, sbvars
  <1> QED
    BY <1>1, <1>2, PTL DEF SBSpec, Spec

\* Whoever calls what, careful or not, in either mode and with any list, malloc
\* grants only keys that nobody has locked: it looks at the lock last.
THEOREM AllClientsGrantUnlocked == ClientsSpec => GrantsOnlyUnlocked
  <1>1. [Granted => ~Locked(reply'.key)]_vars
    <2> SUFFICES ASSUME Granted PROVE ~Locked(reply'.key)
      OBVIOUS
    <2>1. script'.op = "idle" /\ reply'.key # Nil
      BY DEF Granted
    <2>2. ASSUME NEW s, s.op = "malloc", NEW b, PopFromHead(s, b) PROVE ~Locked(reply'.key)
      BY <2>1, <2>2 DEF PopFromHead, PopSkip, PopTake, PopNothing, HeadUsable, Return
    <2>3. CASE MallocNext
      BY <2>2, <2>3 DEF MallocNext
    <2>4. CASE Malloc
      <3>1. PICK n \in Name \cup {NoName}, t \in LockTtl, bt \in BindTtl : MallocFor(n, t, bt)
        BY <2>4 DEF Malloc
      <3> DEFINE s == [NoScript EXCEPT !.op = "malloc", !.ttl = t, !.name = n,
                                       !.bttl = IF n = NoName THEN "none" ELSE bt]
      <3>2. s.op = "malloc" /\ s.name = n
        BY DEF NoScript
      <3>3. IF BindingUsable(n) THEN MallocBound(s)
            ELSE PopFromHead(s, IF n = NoName THEN bind ELSE [bind EXCEPT ![n] = Unbound])
        BY <3>1, Zenon DEF MallocFor
      <3> HIDE DEF s
      <3>4. CASE BindingUsable(n)
        <4>1. reply'.key \in {bind[n].to, Nil}
          BY <3>2, <3>3, <3>4 DEF MallocBound, Return
        <4> QED
          BY <2>1, <3>4, <4>1 DEF BindingUsable
      <3> QED
        BY <2>2, <3>2, <3>3, <3>4
    <2> QED
      BY <2>3, <2>4 DEF Granted
  <1> QED
    BY <1>1, PTL DEF GrantsOnlyUnlocked

-----------------------------------------------------------------------------
(* Careful clients.                                                        *)

\* Exclusive mode; clients make no call when their lease has ended, and nobody
\* adds a key again that is still locked.
Careful == ~Shared /\ LateCalls = {} /\ ~Readds

WrappersTyped ==
    /\ stray \in [Name -> [to : Key \cup {Nil}, ttl : Ttl]]
    /\ obj \in [Client -> [key : Key \cup {Nil}, name : Name \cup {NoName},
                            released : BOOLEAN]]
    /\ caller \in Client \cup {Nobody}
    /\ join \in [Client -> [key : Key \cup {Nil}, name : Name \cup {NoName},
                             looked : BOOLEAN, old : Client \cup {Nobody}]]
    /\ objects \in [Key -> Client \cup {Nobody}]
    /\ lease \in [Client -> SUBSET Key]

\* A leased key is locked and out of the free list, so its release cannot fail.
LeasesBacked   == \A c \in Client : \A k \in lease[c] : Locked(k) /\ k \notin Free(pool)
LeasesDisjoint == \A c, d \in Client : c # d => lease[c] \cap lease[d] = {}

\* A key granted is leased until its wrapper is registered.
JoinsHeld == \A c \in Client : Joining(c) => join[c].key \in lease[c]

\* What extend and assign have still to add is not locked.
AdditionsUnlocked ==
    /\ script.op = "extend" => \A k \in script.todo \ Members(pool) : ~Locked(k)
    /\ script.op = "assign" => \A k \in script.add : ~Locked(k)

\* The inductive invariant; a wrapper frees one key at a time, in one round.
CInv ==
    /\ SInv /\ WrappersTyped
    /\ LeasesBacked /\ LeasesDisjoint /\ JoinsHeld
    /\ AdditionsUnlocked
    /\ script.op # "free"

\* Nobody has a wrapper or a lease.
LEMMA ClientsInitCInv == ClientsInit => CInv
  <1> SUFFICES ASSUME ClientsInit PROVE CInv
    OBVIOUS
  <1>1. SInv
    BY InitIInv DEF ClientsInit, SBInit, IInv
  <1>2. WrappersTyped
    BY DEF ClientsInit, SBInit, WrappersTyped, NoObject, NotJoining, Unbound, Ttl
  <1>3. script.op = "idle"
    BY DEF ClientsInit, SBInit, Init, NoScript
  <1> QED
    BY <1>1, <1>2, <1>3
    DEF ClientsInit, CInv, LeasesBacked, LeasesDisjoint, JoinsHeld, Joining, NotJoining,
        AdditionsUnlocked

\* While no lease is added, a step that frees no locked key keeps the leases
\* whose locks it leaves.
LEMMA LeasesKept ==
    ASSUME CInv, FreedUnlocked, lease' \in [Client -> SUBSET Key],
           \A c \in Client : \A k \in lease'[c] : k \in lease[c] /\ Locked(k)'
    PROVE  LeasesBacked' /\ LeasesDisjoint'
  <1>1. LeasesBacked'
    BY DEF CInv, LeasesBacked, FreedUnlocked
  <1>2. LeasesDisjoint'
    BY DEF CInv, LeasesDisjoint
  <1> QED
    BY <1>1, <1>2

-----------------------------------------------------------------------------
(* The administrator.                                                      *)

\* The scripts that add nothing leave all locks alone.
LEMMA OthersAddNothing ==
    ASSUME SInv, Clear \/ Shrink \/ ShrinkNext \/ Gc \/ GcNext
    PROVE  UNCHANGED lock /\ script'.op \in {"idle", "shrink", "gc"}
  <1>1. script \in Scripts
    BY DEF SInv, TypeOK
  <1>2. ASSUME NEW k, NEW rest, ShrinkOne(k, rest) \/ GcOne(k, rest)
        PROVE  UNCHANGED lock /\ (script' = rest \/ script'.op = "idle")
    BY <1>2 DEF ShrinkOne, GcOne, Continue, Return, NoScript
  <1>3. CASE Clear
    BY <1>3 DEF Clear, Return, NoScript
  <1>4. CASE Shrink
    <2>1. PICK ks, k : ShrinkOne(k, [NoScript EXCEPT !.op = "shrink", !.todo = ks \ {k}])
      BY <1>4 DEF Shrink
    <2>2. [NoScript EXCEPT !.op = "shrink", !.todo = ks \ {k}].op = "shrink"
      BY DEF NoScript
    <2> QED
      BY <1>2, <2>1, <2>2
  <1>5. CASE ShrinkNext
    BY <1>1, <1>2, <1>5 DEF ShrinkNext, Scripts
  <1>6. CASE Gc
    <2>1. PICK ks, k : GcOne(k, [NoScript EXCEPT !.op = "gc", !.todo = ks \ {k},
                                                 !.cursor = ToVisit \ ks])
      BY <1>6 DEF Gc
    <2>2. [NoScript EXCEPT !.op = "gc", !.todo = ks \ {k}, !.cursor = ToVisit \ ks].op = "gc"
      BY DEF NoScript
    <2> QED
      BY <1>2, <2>1, <2>2
  <1>7. CASE GcNext
    BY <1>1, <1>2, <1>7 DEF GcNext, Scripts
  <1> QED
    BY <1>3, <1>4, <1>5, <1>6, <1>7

\* A round of extend unlocks the key it adds.
LEMMA ExtendUnlocks ==
    ASSUME SInv, NEW k \in Key, NEW rest \in Scripts, ExtendOne(k, rest)
    PROVE  /\ script' = rest \/ script'.op = "idle"
           /\ \A x \in Key : /\ ~Locked(x) => ~Locked(x)'
                             /\ Locked(x) /\ ~Locked(x)' => x = k /\ x \notin Members(pool)
  <1>1. lock \in [Key -> Ttl]
    BY DEF SInv, TypeOK
  <1>2. script' = rest \/ script'.op = "idle"
    BY DEF ExtendOne, Continue, Return, NoScript
  <1>3. \/ lock' = lock
        \/ lock' = [lock EXCEPT ![k] = "none"] /\ k \notin Members(pool)
    BY DEF ExtendOne
  <1> QED
    BY <1>1, <1>2, <1>3 DEF Locked

\* So does a round of assign.
LEMMA AssignUnlocks ==
    ASSUME SInv, NEW s \in Scripts, AssignRound(s)
    PROVE  /\ \/ script'.op = "idle"
              \/ script'.op = s.op /\ script'.add \subseteq s.add
           /\ \A x \in Key : /\ ~Locked(x) => ~Locked(x)'
                             /\ Locked(x) /\ ~Locked(x)' => x \in s.add
  <1>1. lock \in [Key -> Ttl]
    BY DEF SInv, TypeOK
  <1>2. ASSUME NEW k \in s.todo, AssignEvict(k, [s EXCEPT !.todo = @ \ {k}])
        PROVE  /\ lock' = lock
               /\ \/ script'.op = "idle"
                  \/ script'.op = s.op /\ script'.add \subseteq s.add
    BY <1>2 DEF AssignEvict, Continue, Return, NoScript, Scripts
  <1>3. ASSUME NEW k \in s.add, AssignAdd(k, [s EXCEPT !.add = @ \ {k}])
        PROVE  /\ lock' = [lock EXCEPT ![k] = "none"]
               /\ \/ script'.op = "idle"
                  \/ script'.op = s.op /\ script'.add \subseteq s.add
    BY <1>3 DEF AssignAdd, Continue, Return, NoScript, Scripts
  <1>4. ASSUME Return(Nil, "ok"), UNCHANGED <<pool, lock, bind, gcCursor>>
        PROVE  lock' = lock /\ script'.op = "idle"
    BY <1>4 DEF Return, NoScript
  <1>5. \/ /\ lock' = lock \/ \E k \in s.add : lock' = [lock EXCEPT ![k] = "none"]
           /\ \/ script'.op = "idle"
              \/ script'.op = s.op /\ script'.add \subseteq s.add
    BY <1>2, <1>3, <1>4 DEF AssignRound
  <1> QED
    BY <1>1, <1>5 DEF Locked

\* A script of the administrator that frees no leased key's lock keeps all.
LEMMA ScriptKeepsLeases ==
    ASSUME CInv, SInv', FreedUnlocked, UNCHANGED <<stray, obj, caller, Policy, lease>>,
           \A c \in Client : \A k \in lease[c] : Locked(k)',
           script'.op # "free", AdditionsUnlocked'
    PROVE  CInv'
  <1>1. WrappersTyped' /\ JoinsHeld'
    BY DEF CInv, WrappersTyped, JoinsHeld, Joining, Policy
  <1>2. LeasesBacked' /\ LeasesDisjoint'
    BY LeasesKept DEF CInv, WrappersTyped
  <1> QED
    BY <1>1, <1>2 DEF CInv

\* Whoever changes the pool adds no key that is still locked.
LEMMA AdministerKeeps ==
    ASSUME CInv, Careful, Administer
    PROVE  CInv'
  <1>0. /\ SInv /\ UNCHANGED <<stray, obj, caller, Policy, lease>>
        /\ \A c \in Client : \A k \in lease[c] : k \in Key /\ Locked(k)
        /\ AdditionsUnlocked
    BY DEF CInv, Administer, LeasesBacked, WrappersTyped
  <1>1. CASE Clear \/ Shrink \/ ShrinkNext \/ Gc \/ GcNext
    <2>1. UNCHANGED lock /\ script'.op \in {"idle", "shrink", "gc"}
      BY <1>0, <1>1, OthersAddNothing
    <2>2. SInv' /\ FreedUnlocked
      BY <1>0, <1>1, ClearKeeps, ShrinkKeeps, GcKeeps
    <2> QED
      BY <1>0, <2>1, <2>2, ScriptKeepsLeases DEF Locked, AdditionsUnlocked
  <1>2. CASE Extend /\ \A k \in Added : ~Locked(k)
    <2>1. PICK ks \in Batches, e \in ItemTtl : \E k \in ks :
             ExtendOne(k, [NoScript EXCEPT !.op = "extend", !.todo = ks \ {k}, !.expiry = e])
      BY <1>2 DEF Extend
    <2>2. PICK k \in ks :
             ExtendOne(k, [NoScript EXCEPT !.op = "extend", !.todo = ks \ {k}, !.expiry = e])
      BY <2>1
    <2> DEFINE rest == [NoScript EXCEPT !.op = "extend", !.todo = ks \ {k}, !.expiry = e]
    <2>3. rest \in Scripts /\ rest.op = "extend" /\ rest.todo \subseteq Key /\ k \in Key
      BY <1>0, StartFacts DEF Scripts, NoScript
    <2>4. ExtendOne(k, rest)
      BY <2>2
    <2> HIDE DEF rest
    <2>5. /\ SInv' /\ FreedUnlocked /\ Members(pool) \subseteq Members(pool)'
          /\ AddedUnlocked
      BY <1>0, <2>3, <2>4, <1>2, ExtendKeeps
    <2>6. /\ script' = rest \/ script'.op = "idle"
          /\ \A x \in Key : ~Locked(x) => ~Locked(x)'
      BY <1>0, <2>3, <2>4, ExtendUnlocks
    <2>7. AdditionsUnlocked'
      BY <1>2, <2>3, <2>5, <2>6 DEF AdditionsUnlocked, Added
    <2>8. \A c \in Client : \A x \in lease[c] : Locked(x)'
      BY <1>0, <1>2, <2>5 DEF AddedUnlocked, Added
    <2> QED
      BY <1>0, <2>3, <2>5, <2>6, <2>7, <2>8, ScriptKeepsLeases
  <1>3. CASE Assign /\ \A k \in Added : ~Locked(k)
    <2>1. PICK ks \in Batches, e \in ItemTtl :
             AssignRound([NoScript EXCEPT !.op = "assign", !.expiry = e,
                                          !.todo = Members(pool) \ ks,
                                          !.add  = ks \ Members(pool)])
      BY <1>3 DEF Assign
    <2> DEFINE s == [NoScript EXCEPT !.op = "assign", !.expiry = e,
                                     !.todo = Members(pool) \ ks,
                                     !.add  = ks \ Members(pool)]
    <2>2. s \in Scripts /\ s.op = "assign" /\ s.add \subseteq Key
      BY <1>0, StartFacts DEF Scripts, NoScript
    <2>3. AssignRound(s)
      BY <2>1
    <2> HIDE DEF s
    <2>4. SInv' /\ FreedUnlocked /\ AddedUnlocked
      BY <1>0, <1>3, AssignKeeps
    <2>5. /\ \/ script'.op = "idle"
             \/ script'.op = "assign" /\ script'.add \subseteq s.add
          /\ \A x \in Key : ~Locked(x) => ~Locked(x)'
      BY <1>0, <2>2, <2>3, AssignUnlocks
    <2>6. AdditionsUnlocked'
      BY <1>3, <2>2, <2>5 DEF AdditionsUnlocked, Added
    <2>7. \A c \in Client : \A x \in lease[c] : Locked(x)'
      BY <1>0, <1>3, <2>4 DEF AddedUnlocked, Added
    <2> QED
      BY <1>0, <2>4, <2>5, <2>6, <2>7, ScriptKeepsLeases
  <1>4. CASE ExtendNext
    <2>1. PICK k \in script.todo : ExtendOne(k, [script EXCEPT !.todo = @ \ {k}])
      BY <1>4 DEF ExtendNext
    <2> DEFINE rest == [script EXCEPT !.todo = @ \ {k}]
    <2>2. /\ rest \in Scripts /\ rest.op = "extend" /\ rest.todo = script.todo \ {k}
          /\ k \in Key /\ script.todo \subseteq Key /\ ExtendOne(k, rest)
      BY <1>0, <1>4, <2>1, RoundFacts DEF ExtendNext, Scripts
    <2> HIDE DEF rest
    <2>3. SInv' /\ FreedUnlocked /\ Members(pool) \subseteq Members(pool)'
      BY <1>0, <1>4, ExtendKeeps
    <2>4. /\ script' = rest \/ script'.op = "idle"
          /\ \A x \in Key : /\ ~Locked(x) => ~Locked(x)'
                            /\ Locked(x) /\ ~Locked(x)' => x = k /\ x \notin Members(pool)
      BY <1>0, <2>2, ExtendUnlocks
    <2>5. \A x \in script.todo \ Members(pool) : ~Locked(x)
      BY <1>0, <1>4 DEF AdditionsUnlocked, ExtendNext
    <2>6. AdditionsUnlocked'
      BY <2>2, <2>3, <2>4, <2>5 DEF AdditionsUnlocked
    <2>7. \A c \in Client : \A x \in lease[c] : Locked(x)'
      BY <1>0, <2>4, <2>5
    <2> QED
      BY <1>0, <2>2, <2>3, <2>4, <2>6, <2>7, ScriptKeepsLeases
  <1>5. CASE AssignNext
    <2>1. /\ script \in Scripts /\ script.op = "assign" /\ script.add \subseteq Key
          /\ AssignRound(script)
      BY <1>0, <1>5, RoundFacts DEF AssignNext, Scripts
    <2>2. SInv' /\ FreedUnlocked
      BY <1>0, <1>5, AssignKeeps
    <2>3. /\ \/ script'.op = "idle"
             \/ script'.op = "assign" /\ script'.add \subseteq script.add
          /\ \A x \in Key : /\ ~Locked(x) => ~Locked(x)'
                            /\ Locked(x) /\ ~Locked(x)' => x \in script.add
      BY <1>0, <2>1, AssignUnlocks
    <2>4. \A x \in script.add : ~Locked(x)
      BY <1>0, <2>1 DEF AdditionsUnlocked
    <2>5. AdditionsUnlocked'
      BY <2>1, <2>3, <2>4 DEF AdditionsUnlocked
    <2>6. \A c \in Client : \A x \in lease[c] : Locked(x)'
      BY <1>0, <2>3, <2>4
    <2> QED
      BY <1>0, <2>2, <2>3, <2>5, <2>6, ScriptKeepsLeases
  <1> QED
    BY <1>1, <1>2, <1>3, <1>4, <1>5 DEF Administer, Careful

-----------------------------------------------------------------------------
(* The clients' calls.                                                     *)

\* A malloc goes on as itself or ends.
LEMMA MallocScripts ==
    ASSUME SInv, \/ \E n, t, bt : MallocFor(n, t, bt)
                 \/ MallocNext
    PROVE  script'.op \in {"idle", "malloc"}
  <1>1. ASSUME NEW s, NEW b, s.op = "malloc", PopFromHead(s, b) \/ MallocBound(s)
        PROVE  script'.op \in {"idle", "malloc"}
    <2>1. (\E key, status : Return(key, status)) \/ script' = s
      BY <1>1 DEF PopFromHead, PopSkip, PopTake, PopNothing, MallocBound
    <2> QED
      BY <1>1, <2>1 DEF Return, NoScript
  <1>2. ASSUME NEW n, NEW t, NEW bt, MallocFor(n, t, bt)
        PROVE  script'.op \in {"idle", "malloc"}
    <2> DEFINE s == [NoScript EXCEPT !.op = "malloc", !.ttl = t, !.name = n,
                                     !.bttl = IF n = NoName THEN "none" ELSE bt]
    <2>1. s.op = "malloc"
      BY DEF NoScript
    <2>2. \E b : PopFromHead(s, b) \/ MallocBound(s)
      BY <1>2 DEF MallocFor
    <2> HIDE DEF s
    <2> QED
      BY <1>1, <2>1, <2>2
  <1>3. CASE MallocNext
    BY <1>1, <1>3 DEF MallocNext
  <1> QED
    BY <1>2, <1>3

\* One value of a function replaced.
LEMMA OneReplaced ==
    ASSUME NEW A, NEW B, NEW f \in [A -> B], NEW a \in A, NEW v \in B
    PROVE  /\ [f EXCEPT ![a] = v] \in [A -> B]
           /\ [f EXCEPT ![a] = v][a] = v
           /\ \A x \in A \ {a} : [f EXCEPT ![a] = v][x] = f[x]
  OBVIOUS

\* The wrapper made of a grant, or the registration that waits, has its type.
LEMMA ReceiveTyped ==
    ASSUME WrappersTyped, NEW c \in Client, NEW n \in Name \cup {NoName},
           reply' \in Replies, Receive(c, n), UNCHANGED stray
    PROVE  WrappersTyped'
  <1>1. CASE script'.op # "idle" \/ reply'.key = Nil
    <2>1. UNCHANGED <<obj, join, objects, lease, stray>> /\ caller' \in {c, Nobody}
      BY <1>1 DEF Receive, Policy
    <2> QED
      BY <2>1 DEF WrappersTyped
  <1>2. CASE script'.op = "idle" /\ reply'.key # Nil
    <2> DEFINE k == reply'.key
    <2>1. k \in Key
      BY <1>2 DEF Replies
    <2>2. /\ caller' = Nobody /\ objects' = objects /\ stray' = stray
          /\ lease' = [lease EXCEPT ![c] = @ \cup {k}]
          /\ \/ /\ join' = [join EXCEPT ![c] = [NotJoining EXCEPT !.key = k, !.name = n]]
                /\ obj' = obj
             \/ /\ obj' = [obj EXCEPT ![c] = [key |-> k, name |-> n, released |-> @.released]]
                /\ join' = join
      BY <1>2 DEF Receive, Wrap
    <2> HIDE DEF k
    <2>3. /\ lease \in [Client -> SUBSET Key]
          /\ obj \in [Client -> [key : Key \cup {Nil}, name : Name \cup {NoName},
                                  released : BOOLEAN]]
          /\ join \in [Client -> [key : Key \cup {Nil}, name : Name \cup {NoName},
                                   looked : BOOLEAN, old : Client \cup {Nobody}]]
      BY DEF WrappersTyped
    <2>4. [key |-> k, name |-> n, released |-> obj[c].released]
            \in [key : Key \cup {Nil}, name : Name \cup {NoName}, released : BOOLEAN]
      BY <2>1, <2>3
    <2>5. [NotJoining EXCEPT !.key = k, !.name = n]
            \in [key : Key \cup {Nil}, name : Name \cup {NoName},
                 looked : BOOLEAN, old : Client \cup {Nobody}]
      BY <2>1 DEF NotJoining
    <2>6. obj' \in [Client -> [key : Key \cup {Nil}, name : Name \cup {NoName},
                                released : BOOLEAN]]
      BY <2>2, <2>3, <2>4
    <2>7. join' \in [Client -> [key : Key \cup {Nil}, name : Name \cup {NoName},
                                 looked : BOOLEAN, old : Client \cup {Nobody}]]
      BY <2>2, <2>3, <2>5
    <2>8. lease' \in [Client -> SUBSET Key]
      BY <2>1, <2>2, <2>3
    <2> QED
      BY <2>2, <2>6, <2>7, <2>8 DEF WrappersTyped
  <1> QED
    BY <1>1, <1>2

\* The grant of a key nobody leases makes a lease; the wrapper is made at once, or
\* waits for its registration.
LEMMA ReceiveKeeps ==
    ASSUME CInv, Careful, NEW c \in Client, NEW n \in Name \cup {NoName},
           SInv', FreedUnlocked, LocksStay, GrantSound,
           script'.op \in {"idle", "malloc"}, Receive(c, n), UNCHANGED stray
    PROVE  CInv'
  <1>0. /\ WrappersTyped /\ LeasesBacked /\ LeasesDisjoint /\ JoinsHeld
        /\ reply'.key \in Key \cup {Nil} /\ Nil \notin Key
        /\ lease \in [Client -> SUBSET Key]
    BY KeysAreValid DEF CInv, WrappersTyped, SInv, TypeOK, Replies
  <1>1. AdditionsUnlocked' /\ script'.op # "free"
    BY DEF AdditionsUnlocked
  <1>2. CASE script'.op # "idle" \/ reply'.key = Nil
    <2>1. UNCHANGED <<obj, join, objects, lease, stray>> /\ caller' \in {c, Nobody}
      BY <1>2 DEF Receive, Policy
    <2>2. WrappersTyped' /\ JoinsHeld'
      BY <1>0, <2>1 DEF WrappersTyped, JoinsHeld, Joining
    <2>3. LeasesBacked' /\ LeasesDisjoint'
      BY <1>0, <2>1, LeasesKept DEF LeasesBacked, LocksStay
    <2> QED
      BY <1>1, <2>2, <2>3 DEF CInv
  <1>3. CASE script'.op = "idle" /\ reply'.key # Nil
    <2> DEFINE k == reply'.key
    <2>1. k \in Key /\ ~Locked(k) /\ lock'[k] # "none" /\ k \notin Free(pool)'
      BY <1>3 DEF GrantSound, Careful
    <2>2. /\ caller' = Nobody /\ objects' = objects /\ stray' = stray
          /\ lease' = [lease EXCEPT ![c] = @ \cup {k}]
          /\ \/ /\ join' = [join EXCEPT ![c] = [NotJoining EXCEPT !.key = k, !.name = n]]
                /\ obj' = obj
             \/ /\ obj' = [obj EXCEPT ![c] = [key |-> k, name |-> n, released |-> @.released]]
                /\ join' = join
      BY <1>3 DEF Receive, Wrap
    <2> HIDE DEF k
    <2>3. /\ lease' \in [Client -> SUBSET Key]
          /\ lease'[c] = lease[c] \cup {k} /\ \A d \in Client \ {c} : lease'[d] = lease[d]
      BY <1>0, <2>1, <2>2
    <2>4. WrappersTyped'
      BY <1>0, ReceiveTyped DEF SInv, TypeOK
    <2>5. JoinsHeld'
      <3>1. join[c].key \in lease'[c] \/ join[c].key = Nil
        BY <1>0, <2>3 DEF JoinsHeld, Joining
      <3> DEFINE v == [NotJoining EXCEPT !.key = k, !.name = n]
                 J == [key : Key \cup {Nil}, name : Name \cup {NoName},
                       looked : BOOLEAN, old : Client \cup {Nobody}]
      <3>a. v \in J /\ v.key = k
        BY <2>1 DEF NotJoining
      <3>b. join \in [Client -> J]
        BY <1>0 DEF WrappersTyped
      <3>c. join' = [join EXCEPT ![c] = v] \/ join' = join
        BY <2>2
      <3> HIDE DEF v, J
      <3>2. \A d \in Client \ {c} : join'[d] = join[d]
        <4>1. CASE join' = [join EXCEPT ![c] = v]
          BY <3>a, <3>b, <4>1, OneReplaced
        <4> QED
          BY <3>c, <4>1
      <3>3. join'[c].key = join[c].key \/ join'[c].key = k
        <4>1. CASE join' = [join EXCEPT ![c] = v]
          BY <3>a, <3>b, <4>1, OneReplaced
        <4> QED
          BY <3>c, <4>1
      <3> QED
        BY <1>0, <2>3, <3>1, <3>2, <3>3 DEF JoinsHeld, Joining
    <2>6. \A d \in Client : k \notin lease[d]
      BY <1>0, <2>1 DEF LeasesBacked
    <2>7. LeasesBacked'
      <3> SUFFICES ASSUME NEW d \in Client, NEW x \in lease'[d]
                   PROVE  Locked(x)' /\ x \notin Free(pool)'
        BY DEF LeasesBacked
      <3>1. CASE x = k
        BY <2>1, <3>1 DEF Locked
      <3>2. CASE x # k
        <4>1. x \in Key /\ Locked(x) /\ x \notin Free(pool)
          BY <1>0, <2>3, <3>2 DEF LeasesBacked
        <4> QED
          BY <4>1 DEF LocksStay, FreedUnlocked
      <3> QED
        BY <3>1, <3>2
    <2>8. LeasesDisjoint'
      BY <1>0, <2>3, <2>6 DEF LeasesDisjoint
    <2> QED
      BY <1>1, <2>4, <2>5, <2>7, <2>8 DEF CInv
  <1> QED
    BY <1>2, <1>3

\* malloc and refresh, from the call to the reply.
LEMMA MallocsKeep ==
    ASSUME CInv, Careful,
           \/ \E c \in Client : Acquire(c) \/ Refresh(c)
           \/ AwaitMalloc
    PROVE  CInv'
  <1>0. SInv
    BY DEF CInv
  <1>1. ASSUME NEW c \in Client, NEW n \in Name \cup {NoName}, CallMalloc(c, n)
        PROVE  CInv'
    <2>1. PICK t \in LockTtl, bt \in BindTtl : MallocFor(n, t, bt)
      BY <1>1 DEF CallMalloc
    <2>2. SInv' /\ FreedUnlocked /\ LocksStay /\ GrantSound
      BY <1>0, <2>1, MallocForKeeps
    <2>3. script'.op \in {"idle", "malloc"}
      BY <1>0, <2>1, MallocScripts
    <2> QED
      BY <1>1, <2>2, <2>3, ReceiveKeeps DEF CallMalloc
  <1>2. ASSUME NEW c \in Client, Acquire(c)
        PROVE  CInv'
    BY <1>1, <1>2 DEF Acquire
  <1>3. ASSUME NEW c \in Client, Refresh(c)
        PROVE  CInv'
    BY <1>1, <1>3 DEF Refresh, CInv, WrappersTyped
  <1>4. CASE AwaitMalloc
    <2>1. /\ caller \in Client /\ script.name \in Name \cup {NoName}
          /\ MallocNext /\ Receive(caller, script.name) /\ UNCHANGED stray
      BY <1>4 DEF AwaitMalloc, CInv, WrappersTyped, SInv, TypeOK, Scripts
    <2>2. SInv' /\ FreedUnlocked /\ LocksStay /\ GrantSound
      BY <1>0, <2>1, MallocNextKeeps
    <2>3. script'.op \in {"idle", "malloc"}
      BY <1>0, <2>1, MallocScripts
    <2> QED
      BY <2>1, <2>2, <2>3, ReceiveKeeps
  <1> QED
    BY <1>2, <1>3, <1>4

\* A holder gives its key back: its lease is the only one on it.
LEMMA GiveBackKeeps ==
    ASSUME CInv, Careful, NEW c \in Client, MayCall(c, "free"), Idle,
           NEW rest \in Scripts, rest.op = "free", rest.todo = {}, FreeOne(obj[c].key, rest),
           obj' \in [Client -> [key : Key \cup {Nil}, name : Name \cup {NoName},
                                 released : BOOLEAN]],
           lease' = [lease EXCEPT ![c] = @ \ {obj[c].key}],
           UNCHANGED <<stray, caller, Policy>>
    PROVE  CInv'
  <1> DEFINE k == obj[c].key
  <1>0. /\ SInv /\ WrappersTyped /\ LeasesBacked /\ LeasesDisjoint /\ JoinsHeld
        /\ lease \in [Client -> SUBSET Key] /\ lock \in [Key -> Ttl]
    BY DEF CInv, WrappersTyped, SInv, TypeOK
  <1>1. k \in lease[c] /\ k \in Key /\ k \notin Free(pool) /\ ~Joining(c)
    BY <1>0 DEF MayCall, Careful, Holds, LeasesBacked
  <1>3. FreeOne(k, rest)
    OBVIOUS
  <1> HIDE DEF k
  <1>4. SInv' /\ FreedUnlocked
    BY <1>0, <1>1, <1>3, FreeOneKeeps
  <1>5. script'.op = "idle"
    BY <1>3 DEF FreeOne, Continue, Return, NoScript
  <1>6. \A x \in Key \ {k} : lock'[x] = lock[x]
    BY <1>0, <1>3 DEF FreeOne
  <1>7. /\ lease' \in [Client -> SUBSET Key] /\ lease'[c] = lease[c] \ {k}
        /\ \A d \in Client \ {c} : lease'[d] = lease[d]
    BY <1>0 DEF k
  <1>8. \A d \in Client : \A x \in lease'[d] : x \in lease[d] /\ x \in Key \ {k}
    BY <1>0, <1>1, <1>7 DEF LeasesDisjoint
  <1>9. LeasesBacked' /\ LeasesDisjoint'
    BY <1>0, <1>4, <1>6, <1>7, <1>8, LeasesKept DEF LeasesBacked, Locked
  <1>10. JoinsHeld'
    BY <1>0, <1>1, <1>7 DEF JoinsHeld, Joining, Policy
  <1>11. WrappersTyped'
    BY <1>0, <1>7 DEF WrappersTyped, Policy
  <1> QED
    BY <1>4, <1>5, <1>9, <1>10, <1>11 DEF CInv, AdditionsUnlocked

\* release(), and update(timeout <= 0), free() and free_keys() on a wrapper.
LEMMA ReleasesKeep ==
    ASSUME CInv, Careful, NEW c \in Client, Release(c) \/ FreeThroughUpdate(c)
    PROVE  CInv'
  <1>0. /\ ItemTtl \subseteq Expiry /\ NoScript \in Scripts
        /\ obj \in [Client -> [key : Key \cup {Nil}, name : Name \cup {NoName},
                                released : BOOLEAN]]
    BY StartFacts DEF CInv, WrappersTyped
  <1>1. CASE Release(c)
    <2>1. PICK e \in ItemTtl :
             FreeOne(obj[c].key, [NoScript EXCEPT !.op = "free", !.expiry = e])
      BY <1>1 DEF Release
    <2> DEFINE rest == [NoScript EXCEPT !.op = "free", !.expiry = e]
    <2>2. rest \in Scripts /\ rest.op = "free" /\ rest.todo = {}
      BY <1>0 DEF Scripts, NoScript
    <2>3. obj' \in [Client -> [key : Key \cup {Nil}, name : Name \cup {NoName},
                                released : BOOLEAN]]
      <3> DEFINE b == reply'.status = "ok"
                 v == [obj[c] EXCEPT !.released = b]
                 O == [key : Key \cup {Nil}, name : Name \cup {NoName}, released : BOOLEAN]
      <3>1. obj \in [Client -> O]
        BY <1>0
      <3>2. b \in BOOLEAN
        OBVIOUS
      <3>3. obj' = [obj EXCEPT ![c] = v]
        BY <1>1 DEF Release
      <3> HIDE DEF b
      <3>4. v \in O
        BY <1>0, <3>2
      <3> HIDE DEF v, O
      <3>5. obj' \in [Client -> O]
        BY <3>1, <3>3, <3>4, OneReplaced
      <3> QED
        BY <3>5 DEF O
    <2>4. /\ MayCall(c, "free") /\ Idle /\ FreeOne(obj[c].key, rest)
          /\ lease' = [lease EXCEPT ![c] = @ \ {obj[c].key}]
          /\ UNCHANGED <<stray, caller, Policy>>
      BY <1>1, <2>1 DEF Release
    <2> HIDE DEF rest
    <2> QED
      BY <2>2, <2>3, <2>4, GiveBackKeeps
  <1>2. CASE FreeThroughUpdate(c)
    <2> DEFINE rest == [NoScript EXCEPT !.op = "free"]
    <2>1. rest \in Scripts /\ rest.op = "free" /\ rest.todo = {}
      BY <1>0 DEF Scripts, NoScript
    <2>2. /\ MayCall(c, "free") /\ Idle /\ FreeOne(obj[c].key, rest)
          /\ lease' = [lease EXCEPT ![c] = @ \ {obj[c].key}]
          /\ UNCHANGED <<stray, caller, Policy>> /\ obj' = obj
      BY <1>2 DEF FreeThroughUpdate
    <2>3. obj' \in [Client -> [key : Key \cup {Nil}, name : Name \cup {NoName},
                                released : BOOLEAN]]
      BY <1>0, <2>2
    <2> HIDE DEF rest
    <2> QED
      BY <2>1, <2>2, <2>3, GiveBackKeeps
  <1> QED
    BY <1>1, <1>2

\* Steps beside the scripts that leave the list and the leases alone and take no
\* lock away.
LEMMA BesideScripts ==
    ASSUME CInv, Idle \/ lock' = lock, lock' \in [Key -> Ttl], LocksStay,
           UNCHANGED <<pool, bind, gcCursor, script, reply, lease>>,
           WrappersTyped', JoinsHeld'
    PROVE  CInv'
  <1>1. SInv' /\ script'.op # "free"
    BY DEF CInv, SInv, TypeOK, ListWellFormed, ScriptConsistent, LuaAssertsHold, MallocLocks
  <1>2. AdditionsUnlocked'
    BY DEF CInv, AdditionsUnlocked, Idle, Locked
  <1>3. LeasesBacked' /\ LeasesDisjoint'
    BY DEF CInv, WrappersTyped, LeasesBacked, LeasesDisjoint, LocksStay
  <1> QED
    BY <1>1, <1>2, <1>3 DEF CInv

\* Locking any key, free or not.
LEMMA LockKeyFacts ==
    ASSUME CInv, NEW k \in Key, LockKey(k)
    PROVE  /\ Idle /\ lock' \in [Key -> Ttl] /\ LocksStay
           /\ UNCHANGED <<pool, bind, gcCursor, script, reply>>
  <1>1. lock \in [Key -> Ttl]
    BY DEF CInv, SInv, TypeOK
  <1> QED
    BY <1>1 DEF LockKey, LocksStay, Locked, Ttl

\* update(timeout > 0), set_unhealthy and set_healthy of a holder, and the health
\* check of any key.
LEMMA LocksKeep ==
    ASSUME CInv, Careful,
           \/ \E c \in Client : Update(c) \/ SetUnhealthy(c) \/ SetHealthy(c)
           \/ \E k \in Key : CheckHealthOnce(k)
    PROVE  CInv'
  <1>0. /\ SInv /\ WrappersTyped /\ JoinsHeld /\ lock \in [Key -> Ttl]
        /\ lease \in [Client -> SUBSET Key]
    BY DEF CInv, SInv, TypeOK, WrappersTyped
  <1>1. ASSUME NEW c \in Client, MayCall(c, "update")
        PROVE  obj[c].key \in lease[c] /\ obj[c].key \in Key /\ obj[c].name \in Name \cup {NoName}
    BY <1>0, <1>1 DEF MayCall, Careful, Holds, WrappersTyped
  <1>2. ASSUME NEW n \in Name, UnbindSoftBind(n) \/ \E k \in Key : UpdateSoftBind(n, k)
        PROVE  stray' \in [Name -> [to : Key \cup {Nil}, ttl : Ttl]]
    BY <1>0, <1>2 DEF UnbindSoftBind, UpdateSoftBind, WrappersTyped, Unbound, Ttl
  <1>3. ASSUME stray' \in [Name -> [to : Key \cup {Nil}, ttl : Ttl]],
               UNCHANGED <<obj, caller, Policy, lease>>
        PROVE  WrappersTyped' /\ JoinsHeld'
    BY <1>0, <1>3 DEF WrappersTyped, JoinsHeld, Joining, Policy
  <1>4. ASSUME UNCHANGED stray
        PROVE  stray' \in [Name -> [to : Key \cup {Nil}, ttl : Ttl]]
    BY <1>0, <1>4 DEF WrappersTyped
  <1>5. ASSUME NEW c \in Client, Update(c)
        PROVE  CInv'
    <2>1. lease' = lease
      BY <1>0, <1>1, <1>5 DEF Update
    <2> QED
      BY <1>1, <1>3, <1>4, <1>5, <2>1, LockKeyFacts, BesideScripts DEF Update
  <1>6. ASSUME NEW c \in Client, SetUnhealthy(c)
        PROVE  CInv'
    <2>1. stray' \in [Name -> [to : Key \cup {Nil}, ttl : Ttl]]
      BY <1>1, <1>2, <1>4, <1>6 DEF SetUnhealthy, Named
    <2> QED
      BY <1>1, <1>3, <1>6, <2>1, LockKeyFacts, BesideScripts DEF SetUnhealthy
  <1>7. ASSUME NEW c \in Client, SetHealthy(c)
        PROVE  CInv'
    <2>1. stray' \in [Name -> [to : Key \cup {Nil}, ttl : Ttl]]
      BY <1>1, <1>2, <1>4, <1>7 DEF SetHealthy, Named, Rebind
    <2>2. Idle /\ UNCHANGED vars /\ LocksStay
      BY <1>7 DEF SetHealthy, Careful, LocksStay, Locked, vars
    <2> QED
      BY <1>0, <1>3, <1>7, <2>1, <2>2, BesideScripts DEF SetHealthy, vars
  <1>8. ASSUME NEW k \in Key, CheckHealthOnce(k)
        PROVE  CInv'
    <2>1. LockKey(k) /\ stray' \in [Name -> [to : Key \cup {Nil}, ttl : Ttl]]
      BY <1>2, <1>4, <1>8 DEF CheckHealthOnce, Careful
    <2> QED
      BY <1>3, <1>8, <2>1, LockKeyFacts, BesideScripts DEF CheckHealthOnce
  <1> QED
    BY <1>5, <1>6, <1>7, <1>8

\* A wrapper that has looked up who is registered under its key.
LEMMA LookedUp ==
    ASSUME NEW was \in [key : Key \cup {Nil}, name : Name \cup {NoName},
                        looked : BOOLEAN, old : Client \cup {Nobody}],
           NEW o \in Client \cup {Nobody}
    PROVE  LET now == [was EXCEPT !.looked = TRUE, !.old = o]
           IN  /\ now \in [key : Key \cup {Nil}, name : Name \cup {NoName},
                           looked : BOOLEAN, old : Client \cup {Nobody}]
               /\ now.key = was.key
  <1> DEFINE J == [key : Key \cup {Nil}, name : Name \cup {NoName},
                   looked : BOOLEAN, old : Client \cup {Nobody}]
             mid == [was EXCEPT !.looked = TRUE]
             now == [mid EXCEPT !.old = o]
  <1>1. mid \in J /\ mid.key = was.key
    OBVIOUS
  <1>2. [was EXCEPT !.looked = TRUE, !.old = o] = now
    OBVIOUS
  <1> HIDE DEF mid
  <1>3. now \in J /\ now.key = mid.key
    BY <1>1
  <1> QED
    BY <1>1, <1>2, <1>3

\* The bookkeeping of wrappers: lookup, registration and drop.
LEMMA BookkeepingTyped ==
    ASSUME WrappersTyped, NEW c \in Client, LookUp(c) \/ Register(c) \/ Drop(c)
    PROVE  /\ WrappersTyped' /\ (JoinsHeld => JoinsHeld')
           /\ UNCHANGED <<stray, pool, lock, bind, gcCursor, script, reply, caller, lease>>
  <1>0. /\ WrappersTyped
        /\ join \in [Client -> [key : Key \cup {Nil}, name : Name \cup {NoName},
                                 looked : BOOLEAN, old : Client \cup {Nobody}]]
        /\ obj \in [Client -> [key : Key \cup {Nil}, name : Name \cup {NoName},
                                released : BOOLEAN]]
        /\ objects \in [Key -> Client \cup {Nobody}]
    BY DEF WrappersTyped
  <1>1. UNCHANGED <<stray, pool, lock, bind, gcCursor, script, reply, caller, lease>>
    BY DEF LookUp, Register, Drop, sbvars, vars
  <1>3. CASE LookUp(c)
    <2>1. /\ join[c].key \in Key /\ objects[join[c].key] \in Client \cup {Nobody}
          /\ join' = [join EXCEPT ![c].looked = TRUE, ![c].old = objects[join[c].key]]
          /\ UNCHANGED <<obj, objects>>
      BY <1>0, <1>3 DEF LookUp, Joining
    <2>2. /\ join' \in [Client -> [key : Key \cup {Nil}, name : Name \cup {NoName},
                                   looked : BOOLEAN, old : Client \cup {Nobody}]]
          /\ \A d \in Client : join'[d].key = join[d].key
      <3> DEFINE v == [join[c] EXCEPT !.looked = TRUE, !.old = objects[join[c].key]]
                 J == [key : Key \cup {Nil}, name : Name \cup {NoName},
                       looked : BOOLEAN, old : Client \cup {Nobody}]
      <3>1. join \in [Client -> J]
        BY <1>0
      <3>2. join' = [join EXCEPT ![c] = v]
        BY <2>1
      <3>3. v \in J /\ v.key = join[c].key
        <4> DEFINE was == join[c]
                   o == objects[join[c].key]
        <4> HIDE DEF J, v
        <4>1. was \in J
          BY <3>1
        <4>2. o \in Client \cup {Nobody}
          BY <2>1
        <4>3. v = [was EXCEPT !.looked = TRUE, !.old = o] /\ was.key = join[c].key
          BY DEF v
        <4> HIDE DEF was, o
        <4> QED
          BY <4>1, <4>2, <4>3, LookedUp DEF J
      <3> HIDE DEF v, J
      <3>4. join' \in [Client -> J] /\ \A d \in Client : join'[d].key = join[d].key
        BY <3>1, <3>2, <3>3, OneReplaced
      <3> QED
        BY <3>4 DEF J
    <2>3. WrappersTyped' /\ (JoinsHeld => JoinsHeld')
      BY <1>0, <1>1, <2>1, <2>2 DEF WrappersTyped, JoinsHeld, Joining
    <2> QED
      BY <1>1, <2>3
  <1>4. CASE Register(c)
    <2>1. /\ join[c].key \in Key /\ join[c].name \in Name \cup {NoName}
          /\ obj[c].released \in BOOLEAN
          /\ obj' = [obj EXCEPT ![c] = [key |-> join[c].key, name |-> join[c].name,
                                        released |-> obj[c].released]]
          /\ objects' = [objects EXCEPT ![join[c].key] = IF Has(c) THEN Nobody ELSE c]
          /\ join' = [join EXCEPT ![c] = NotJoining]
      BY <1>0, <1>4 DEF Register, Joining, Wrap
    <2>2. obj' \in [Client -> [key : Key \cup {Nil}, name : Name \cup {NoName},
                               released : BOOLEAN]]
      BY <1>0, <2>1
    <2>3. objects' \in [Key -> Client \cup {Nobody}]
      BY <1>0, <2>1
    <2>4. NotJoining \in [key : Key \cup {Nil}, name : Name \cup {NoName},
                          looked : BOOLEAN, old : Client \cup {Nobody}]
      BY DEF NotJoining
    <2>5. /\ join' \in [Client -> [key : Key \cup {Nil}, name : Name \cup {NoName},
                                   looked : BOOLEAN, old : Client \cup {Nobody}]]
          /\ \A d \in Client : join'[d].key = join[d].key \/ join'[d].key = Nil
      BY <1>0, <2>1, <2>4 DEF NotJoining
    <2>6. WrappersTyped' /\ (JoinsHeld => JoinsHeld')
      BY <1>0, <1>1, <2>2, <2>3, <2>5 DEF WrappersTyped, JoinsHeld, Joining
    <2> QED
      BY <1>1, <2>6
  <1>5. CASE Drop(c)
    <2>1. obj' \in [Client -> [key : Key \cup {Nil}, name : Name \cup {NoName},
                               released : BOOLEAN]]
      BY <1>0, <1>5 DEF Drop, NoObject
    <2>2. objects' \in [Key -> Client \cup {Nobody}]
      BY <1>0, <1>5 DEF Drop
    <2>3. \A d \in Client :
             /\ [join[d] EXCEPT !.old = Nobody]
                  \in [key : Key \cup {Nil}, name : Name \cup {NoName},
                       looked : BOOLEAN, old : Client \cup {Nobody}]
             /\ [join[d] EXCEPT !.old = Nobody].key = join[d].key
      BY <1>0
    <2>4. /\ join' \in [Client -> [key : Key \cup {Nil}, name : Name \cup {NoName},
                                   looked : BOOLEAN, old : Client \cup {Nobody}]]
          /\ \A d \in Client : join'[d].key = join[d].key
      BY <1>0, <1>5, <2>3 DEF Drop
    <2>5. WrappersTyped' /\ (JoinsHeld => JoinsHeld')
      BY <1>0, <1>1, <2>1, <2>2, <2>4 DEF WrappersTyped, JoinsHeld, Joining
    <2> QED
      BY <1>1, <2>5
  <1> QED
    BY <1>3, <1>4, <1>5

\* It keeps the invariant.
LEMMA BookkeepingKeeps ==
    ASSUME CInv, NEW c \in Client, LookUp(c) \/ Register(c) \/ Drop(c)
    PROVE  CInv'
  <1>1. /\ WrappersTyped' /\ JoinsHeld'
        /\ UNCHANGED <<stray, pool, lock, bind, gcCursor, script, reply, caller, lease>>
    BY BookkeepingTyped DEF CInv
  <1>2. lock' \in [Key -> Ttl] /\ LocksStay
    BY <1>1 DEF CInv, SInv, TypeOK, LocksStay, Locked
  <1> QED
    BY <1>1, <1>2, BesideScripts

\* A lock that runs out ends the leases it backs; a malloc registers its wrapper
\* before.
LEMMA ClockTicksKeeps ==
    ASSUME CInv, Careful, ClockTicks
    PROVE  CInv'
  <1>0. /\ SInv /\ WrappersTyped /\ LeasesBacked /\ JoinsHeld
        /\ lease \in [Client -> SUBSET Key]
        /\ UNCHANGED <<obj, caller, Policy>>
    BY DEF CInv, WrappersTyped, ClockTicks
  <1>1. SInv' /\ FreedUnlocked /\ script' = script /\ Idle
    <2>1. CASE TimePasses
      BY <1>0, <2>1, TimePassesKeeps DEF TimePasses, LockExpires, ItemExpires, BindingExpires
    <2>2. CASE Idle /\ UNCHANGED vars
      BY <1>0, <2>2 DEF vars, SInv, TypeOK, ListWellFormed, ScriptConsistent, LuaAssertsHold,
                        MallocLocks, FreedUnlocked, Locked
    <2> QED
      BY <2>1, <2>2 DEF ClockTicks
  <1>2. stray' \in [Name -> [to : Key \cup {Nil}, ttl : Ttl]]
    BY <1>0 DEF ClockTicks, StrayExpires, WrappersTyped, Unbound, Ttl
  <1>3. /\ lease' \in [Client -> SUBSET Key]
        /\ \A c \in Client : \A k \in lease'[c] : k \in lease[c] /\ Locked(k)'
    BY <1>0 DEF ClockTicks, LeasesBacked
  <1>4. LeasesBacked' /\ LeasesDisjoint'
    BY <1>1, <1>3, LeasesKept
  <1>5. JoinsHeld'
    BY <1>0 DEF ClockTicks, Careful, JoinsHeld, Joining, Policy
  <1>6. WrappersTyped'
    BY <1>0, <1>2, <1>3 DEF WrappersTyped, Policy
  <1> QED
    BY <1>1, <1>4, <1>5, <1>6 DEF CInv, AdditionsUnlocked, Idle

-----------------------------------------------------------------------------
(* Clients of any kind, in either mode, beside any list.                   *)

\* What clients lock, unlock and bind again beside the scripts.
LEMMA CallsKeepTypes ==
    ASSUME TypeOK, WrappersTyped,
           \/ \E c \in Client : Update(c) \/ SetUnhealthy(c) \/ SetHealthy(c)
           \/ \E k \in Key : CheckHealthOnce(k)
    PROVE  TypeOK' /\ WrappersTyped' /\ reply' = reply
  <1>1. ASSUME NEW k \in Key, LockKey(k) \/ UnlockKey(k)
        PROVE  TypeOK' /\ reply' = reply
    BY <1>1 DEF LockKey, UnlockKey, TypeOK, Ttl
  <1>2. ASSUME UNCHANGED vars
        PROVE  TypeOK' /\ reply' = reply
    BY <1>2 DEF vars, TypeOK
  <1>3. ASSUME NEW n \in Name, UnbindSoftBind(n) \/ \E k \in Key : UpdateSoftBind(n, k)
        PROVE  stray' \in [Name -> [to : Key \cup {Nil}, ttl : Ttl]]
    BY <1>3 DEF UnbindSoftBind, UpdateSoftBind, WrappersTyped, Unbound, Ttl
  <1>4. ASSUME UNCHANGED stray
        PROVE  stray' \in [Name -> [to : Key \cup {Nil}, ttl : Ttl]]
    BY <1>4 DEF WrappersTyped
  <1>5. ASSUME stray' \in [Name -> [to : Key \cup {Nil}, ttl : Ttl]],
               UNCHANGED <<obj, caller, Policy>>, lease' \in [Client -> SUBSET Key]
        PROVE  WrappersTyped'
    BY <1>5 DEF WrappersTyped, Policy
  <1>6. ASSUME NEW c \in Client, Has(c)
        PROVE  obj[c].key \in Key /\ obj[c].name \in Name \cup {NoName}
    BY <1>6 DEF Has, WrappersTyped
  <1>7. lease \in [Client -> SUBSET Key]
    BY DEF WrappersTyped
  <1>8. ASSUME NEW c \in Client, Update(c)
        PROVE  TypeOK' /\ WrappersTyped' /\ reply' = reply
    <2>1. /\ obj[c].key \in Key /\ LockKey(obj[c].key)
          /\ lease' = [lease EXCEPT ![c] = @ \cup {obj[c].key}]
          /\ UNCHANGED <<stray, obj, caller, Policy>>
      BY <1>6, <1>8 DEF Update, MayCall
    <2>2. lease' \in [Client -> SUBSET Key]
      BY <1>7, <2>1
    <2> QED
      BY <1>1, <1>4, <1>5, <2>1, <2>2
  <1>9. ASSUME NEW c \in Client, SetUnhealthy(c)
        PROVE  TypeOK' /\ WrappersTyped' /\ reply' = reply
    <2>1. /\ obj[c].key \in Key /\ obj[c].name \in Name \cup {NoName}
          /\ LockKey(obj[c].key) /\ UNCHANGED <<obj, caller, Policy, lease>>
      BY <1>6, <1>9 DEF SetUnhealthy, MayCall
    <2>2. stray' \in [Name -> [to : Key \cup {Nil}, ttl : Ttl]]
      BY <1>3, <1>4, <1>9, <2>1 DEF SetUnhealthy, Named
    <2> QED
      BY <1>1, <1>5, <1>7, <2>1, <2>2
  <1>10. ASSUME NEW c \in Client, SetHealthy(c)
         PROVE  TypeOK' /\ WrappersTyped' /\ reply' = reply
    <2>1. /\ obj[c].key \in Key /\ obj[c].name \in Name \cup {NoName}
          /\ UnlockKey(obj[c].key) \/ UNCHANGED vars
          /\ UNCHANGED <<obj, caller, Policy, lease>>
      BY <1>6, <1>10 DEF SetHealthy, MayCall
    <2>2. stray' \in [Name -> [to : Key \cup {Nil}, ttl : Ttl]]
      BY <1>3, <1>4, <1>10, <2>1 DEF SetHealthy, Rebind, Named
    <2> QED
      BY <1>1, <1>2, <1>5, <1>7, <2>1, <2>2
  <1>11. ASSUME NEW k \in Key, CheckHealthOnce(k)
         PROVE  TypeOK' /\ WrappersTyped' /\ reply' = reply
    <2>1. /\ LockKey(k) \/ UnlockKey(k)
          /\ UNCHANGED <<obj, caller, Policy, lease>>
      BY <1>11 DEF CheckHealthOnce
    <2>2. stray' \in [Name -> [to : Key \cup {Nil}, ttl : Ttl]]
      BY <1>3, <1>4, <1>11 DEF CheckHealthOnce
    <2> QED
      BY <1>1, <1>5, <1>7, <2>1, <2>2
  <1> QED
    BY <1>8, <1>9, <1>10, <1>11

\* release() and update(timeout <= 0), also of a key that somebody else holds by now.
LEMMA ReleasesKeepTypes ==
    ASSUME TypeOK, WrappersTyped, NEW c \in Client, Release(c) \/ FreeThroughUpdate(c)
    PROVE  TypeOK' /\ WrappersTyped'
  <1>0. /\ obj \in [Client -> [key : Key \cup {Nil}, name : Name \cup {NoName},
                                released : BOOLEAN]]
        /\ lease \in [Client -> SUBSET Key]
        /\ ItemTtl \subseteq Expiry /\ NoScript \in Scripts
    BY TypedStart DEF WrappersTyped
  <1>1. /\ obj[c].key \in Key
        /\ lease' = [lease EXCEPT ![c] = @ \ {obj[c].key}]
        /\ UNCHANGED <<stray, caller, Policy>>
        /\ \/ obj' = obj
           \/ obj' = [obj EXCEPT ![c].released = reply'.status = "ok"]
    BY <1>0 DEF Release, FreeThroughUpdate, MayCall, Has
  <1>2. /\ [obj EXCEPT ![c].released = reply'.status = "ok"]
             \in [Client -> [key : Key \cup {Nil}, name : Name \cup {NoName},
                             released : BOOLEAN]]
    <2> DEFINE b == reply'.status = "ok"
               R == [key : Key \cup {Nil}, name : Name \cup {NoName}, released : BOOLEAN]
    <2>1. b \in BOOLEAN
      OBVIOUS
    <2> HIDE DEF b
    <2>2. [obj[c] EXCEPT !.released = b] \in R
      BY <1>0, <2>1
    <2>3. obj \in [Client -> R]
      BY <1>0
    <2>4. [obj EXCEPT ![c].released = b] = [obj EXCEPT ![c] = [obj[c] EXCEPT !.released = b]]
      BY <1>0
    <2> HIDE DEF R
    <2>5. [obj EXCEPT ![c].released = b] \in [Client -> R]
      BY <2>2, <2>3, <2>4, OneReplaced
    <2> QED
      BY <2>5 DEF b, R
  <1>3. WrappersTyped'
    <2>1. lease' \in [Client -> SUBSET Key]
      BY <1>0, <1>1
    <2>2. obj' \in [Client -> [key : Key \cup {Nil}, name : Name \cup {NoName},
                               released : BOOLEAN]]
      BY <1>0, <1>1, <1>2
    <2> QED
      BY <1>1, <2>1, <2>2 DEF WrappersTyped, Policy
  <1>4. TypeOK'
    <2>1. ASSUME NEW e \in Expiry,
                 FreeOne(obj[c].key, [NoScript EXCEPT !.op = "free", !.expiry = e])
          PROVE  TypeOK'
      <3> DEFINE rest == [NoScript EXCEPT !.op = "free", !.expiry = e]
      <3>1. rest \in Scripts
        BY <1>0 DEF Scripts, NoScript
      <3> HIDE DEF rest
      <3> QED
        BY <1>1, <2>1, <3>1, RoundKeepsTypes DEF rest
    <2>2. CASE Release(c)
      BY <1>0, <2>1, <2>2 DEF Release
    <2>3. CASE FreeThroughUpdate(c)
      <3> DEFINE rest == [NoScript EXCEPT !.op = "free"]
      <3>1. rest \in Scripts
        BY <1>0 DEF Scripts, NoScript
      <3>2. FreeOne(obj[c].key, rest)
        BY <2>3 DEF FreeThroughUpdate
      <3> HIDE DEF rest
      <3> QED
        BY <1>1, <3>1, <3>2, RoundKeepsTypes
    <2> QED
      BY <2>2, <2>3
  <1> QED
    BY <1>3, <1>4

\* Whatever the clients, the administrator and the health check call, and
\* whenever.
LEMMA ClientsKeepTypes ==
    ASSUME TypeOK, WrappersTyped, [ClientsNext]_cvars
    PROVE  TypeOK' /\ WrappersTyped'
  <1>1. ASSUME NEW c \in Client, NEW n \in Name \cup {NoName}, CallMalloc(c, n)
        PROVE  TypeOK' /\ WrappersTyped'
    <2>1. TypeOK'
      BY <1>1, MallocKeepsTypes DEF CallMalloc
    <2>2. reply' \in Replies
      BY <2>1 DEF TypeOK
    <2> QED
      BY <1>1, <2>1, <2>2, ReceiveTyped DEF CallMalloc
  <1>2. ASSUME NEW c \in Client, Acquire(c) \/ Refresh(c)
        PROVE  TypeOK' /\ WrappersTyped'
    <2>1. obj[c].name \in Name \cup {NoName}
      BY DEF WrappersTyped
    <2> QED
      BY <1>1, <1>2, <2>1 DEF Acquire, Refresh
  <1>3. CASE AwaitMalloc
    <2>1. /\ caller \in Client /\ script.name \in Name \cup {NoName}
          /\ MallocNext /\ Receive(caller, script.name) /\ UNCHANGED stray
      BY <1>3 DEF AwaitMalloc, WrappersTyped, TypeOK, Scripts
    <2>2. TypeOK' /\ reply' \in Replies
      BY <2>1, MallocKeepsTypes DEF TypeOK
    <2> QED
      BY <2>1, <2>2, ReceiveTyped
  <1>4. ASSUME NEW c \in Client, LookUp(c) \/ Register(c) \/ Drop(c)
        PROVE  TypeOK' /\ WrappersTyped'
    BY <1>4, BookkeepingTyped DEF TypeOK
  <1>5. CASE Administer
    <2>1. WrappersTyped'
      BY <1>5 DEF Administer, WrappersTyped, Policy
    <2> QED
      BY <1>5, <2>1, StartKeepsTypes, NextKeepsTypes DEF Administer
  <1>6. CASE ClockTicks
    <2>1. TypeOK'
      BY <1>6, TimeKeepsTypes DEF ClockTicks, vars, TypeOK
    <2>2. stray' \in [Name -> [to : Key \cup {Nil}, ttl : Ttl]]
      BY <1>6 DEF ClockTicks, StrayExpires, WrappersTyped, Unbound, Ttl
    <2>3. lease' \in [Client -> SUBSET Key] /\ UNCHANGED <<obj, caller, Policy>>
      BY <1>6 DEF ClockTicks, WrappersTyped
    <2> QED
      BY <2>1, <2>2, <2>3 DEF WrappersTyped, Policy
  <1>7. CASE UNCHANGED cvars
    <2>1. UNCHANGED <<pool, lock, bind, gcCursor, script, reply, stray, obj, caller, join,
                      objects, lease>>
      BY <1>7 DEF cvars, sbvars, vars
    <2> QED
      BY <2>1 DEF TypeOK, WrappersTyped
  <1> QED
    BY <1>2, <1>3, <1>4, <1>5, <1>6, <1>7, CallsKeepTypes, ReleasesKeepTypes DEF ClientsNext

\* Wrappers, table and leases keep their types, and so do the scripts, whoever
\* calls: a free list damaged by late calls is still a list of keys.
THEOREM ClientsTypeCorrect == ClientsSpec => []ClientsTypeOK
  <1>1. ClientsTypeOK <=> TypeOK /\ WrappersTyped
    BY DEF ClientsTypeOK, WrappersTyped
  <1>2. ClientsInit => TypeOK /\ WrappersTyped
    BY ClientsInitCInv DEF CInv, SInv
  <1>3. TypeOK /\ WrappersTyped /\ [ClientsNext]_cvars => (TypeOK /\ WrappersTyped)'
    BY ClientsKeepTypes
  <1>4. ClientsSpec => [](TypeOK /\ WrappersTyped)
    BY <1>2, <1>3, PTL DEF ClientsSpec
  <1> QED
    BY <1>1, <1>4, PTL

\* Shared mode without names: what malloc grants to any client is back in the
\* list when the script ends, although health checks and late calls lock, unlock
\* and free keys inside it, and whatever they made of the list.
THEOREM AllClientsShareGrants ==
    ASSUME Shared, Name = {}
    PROVE  ClientsSpec => SharedGrantStaysFree
  <1>1. ClientsTypeOK /\ [ClientsNext]_cvars =>
           [Granted => reply'.key \in Free(pool)']_vars
    BY MallocKeepsTypes DEF ClientsTypeOK, Granted, Malloc, GrantStaysFree
  <1> QED
    BY <1>1, ClientsTypeCorrect, PTL DEF ClientsSpec, SharedGrantStaysFree

-----------------------------------------------------------------------------
(* What careful clients can rely on.                                       *)

\* Every call of a client, of the administrator and of the health check, and
\* every expiry, keeps the invariant.
LEMMA ClientsNextKeeps ==
    ASSUME CInv, Careful, [ClientsNext]_cvars
    PROVE  CInv'
  <1>1. CASE UNCHANGED cvars
    <2>1. UNCHANGED <<pool, lock, bind, gcCursor, script, reply, stray, obj, caller, join,
                      objects, lease>>
      BY <1>1 DEF cvars, sbvars, vars
    <2>2. WrappersTyped' /\ JoinsHeld' /\ LocksStay /\ lock' \in [Key -> Ttl]
      BY <2>1 DEF CInv, SInv, TypeOK, WrappersTyped, JoinsHeld, Joining, LocksStay, Locked
    <2> QED
      BY <2>1, <2>2, BesideScripts
  <1>2. CASE ClientsNext
    BY <1>2, MallocsKeep, BookkeepingKeeps, ReleasesKeep, LocksKeep, AdministerKeeps,
       ClockTicksKeeps DEF ClientsNext
  <1> QED
    BY <1>1, <1>2

\* CInv is inductive for careful clients.
THEOREM ClientsInductive ==
    ASSUME Careful
    PROVE  ClientsSpec => []CInv
  <1>1. ClientsInit => CInv
    BY ClientsInitCInv
  <1>2. CInv /\ [ClientsNext]_cvars => CInv'
    BY ClientsNextKeeps
  <1> QED
    BY <1>1, <1>2, PTL DEF ClientsSpec

\* Between its grant and the end of its lease a key belongs to one client only.
THEOREM KeysExclusive ==
    ASSUME Careful
    PROVE  ClientsSpec => []Exclusive
  <1>1. CInv => Exclusive
    BY DEF CInv, LeasesDisjoint, Exclusive
  <1> QED
    BY <1>1, ClientsInductive, PTL

\* The lock is there until its TTL ends it, and the lease with it: no call of
\* another client, of the administrator or of the health check removes it.
THEOREM LeasesStayLocked ==
    ASSUME Careful
    PROVE  ClientsSpec => []LeasesAreLocked
  <1>1. CInv => LeasesAreLocked
    BY DEF CInv, LeasesBacked, LeasesAreLocked
  <1> QED
    BY <1>1, ClientsInductive, PTL

\* malloc leaves every lock there is alone: it locks what nobody has locked.
LEMMA MallocSparesLocks ==
    ASSUME SInv, (\E n, t, bt : MallocFor(n, t, bt)) \/ MallocNext,
           NEW k \in Key, Locked(k)
    PROVE  lock'[k] = lock[k]
  <1>0. lock \in [Key -> Ttl]
    BY DEF SInv, TypeOK
  <1>1. ASSUME NEW s, NEW b, PopFromHead(s, b) PROVE lock'[k] = lock[k]
    BY <1>0, <1>1 DEF PopFromHead, PopSkip, PopTake, PopNothing, HeadUsable, LockGranted
  <1>2. ASSUME NEW s, BindingUsable(s.name), MallocBound(s) PROVE lock'[k] = lock[k]
    BY <1>0, <1>2 DEF MallocBound, BindingUsable, LockGranted
  <1>3. ASSUME NEW n, NEW t, NEW bt, MallocFor(n, t, bt) PROVE lock'[k] = lock[k]
    <2> DEFINE s == [NoScript EXCEPT !.op = "malloc", !.ttl = t, !.name = n,
                                     !.bttl = IF n = NoName THEN "none" ELSE bt]
    <2>1. s.name = n
      BY DEF NoScript
    <2>2. \/ BindingUsable(n) /\ MallocBound(s)
          \/ \E b : PopFromHead(s, b)
      BY <1>3 DEF MallocFor
    <2> HIDE DEF s
    <2> QED
      BY <1>1, <1>2, <2>1, <2>2
  <1> QED
    BY <1>1, <1>3 DEF MallocNext

\* The administrator's scripts delete locks and set none.
LEMMA AdministerDeletes ==
    ASSUME SInv, Administer, NEW k \in Key
    PROVE  lock'[k] \in {lock[k], "none"}
  <1>0. lock \in [Key -> Ttl]
    BY DEF SInv, TypeOK
  <1>1. ASSUME NEW x, NEW rest, ExtendOne(x, rest) \/ ShrinkOne(x, rest) \/ GcOne(x, rest)
        PROVE  lock'[k] \in {lock[k], "none"}
    BY <1>0, <1>1 DEF ExtendOne, ShrinkOne, GcOne
  <1>2. ASSUME NEW s, AssignRound(s)
        PROVE  lock'[k] \in {lock[k], "none"}
    BY <1>0, <1>2 DEF AssignRound, AssignEvict, AssignAdd
  <1> QED
    BY <1>1, <1>2 DEF Administer, Clear, Extend, ExtendNext, Shrink, ShrinkNext, Assign, AssignNext,
                      Gc, GcNext

\* The lock under a lease changes by its holder, by a health check of its key and
\* by its TTL; one without a TTL stays until one of the two puts a TTL on it.
THEOREM LeaseLocksStayUndisturbed ==
    ASSUME Careful
    PROVE  ClientsSpec => LeaseLocksUndisturbed
  <1> DEFINE Undisturbed(c, k) ==
                \/ /\ obj[c].key = k
                   /\ Release(c) \/ FreeThroughUpdate(c) \/ Update(c) \/ SetUnhealthy(c)
                \/ CheckHealthOnce(k)
                \/ ClockTicks /\ lock[k] = "timed"
  <1>1. CInv /\ [ClientsNext]_cvars =>
           [\A c \in Client : \A k \in lease[c] :
               ~Shared /\ lock'[k] # lock[k] => Undisturbed(c, k)]_cvars
    <2> SUFFICES ASSUME CInv, ClientsNext, NEW c \in Client, NEW k \in lease[c],
                        lock'[k] # lock[k]
                 PROVE  Undisturbed(c, k)
      BY DEF cvars, sbvars, vars
    <2>0. /\ SInv /\ k \in Key /\ Locked(k) /\ lock \in [Key -> Ttl]
          /\ \A d \in Client : k \in lease[d] => d = c
      BY DEF CInv, SInv, TypeOK, WrappersTyped, LeasesBacked, LeasesDisjoint
    <2>1. ASSUME NEW d \in Client,
                 Release(d) \/ FreeThroughUpdate(d) \/ Update(d) \/ SetUnhealthy(d)
          PROVE  Undisturbed(c, k)
      <3>1. obj[d].key \in lease[d]
        BY <2>1 DEF Release, FreeThroughUpdate, Update, SetUnhealthy, MayCall, Careful, Holds
      <3>2. obj[d].key = k
        BY <2>0, <2>1 DEF Release, FreeThroughUpdate, Update, SetUnhealthy, FreeOne, LockKey
      <3> QED
        BY <2>0, <2>1, <3>1, <3>2
    <2>2. ASSUME NEW d \in Client,
                 Acquire(d) \/ Refresh(d) \/ LookUp(d) \/ Register(d) \/ SetHealthy(d) \/ Drop(d)
          PROVE  FALSE
      <3>1. (\E n, t, bt : MallocFor(n, t, bt)) \/ lock' = lock
        BY <2>2 DEF Acquire, Refresh, CallMalloc, LookUp, Register, SetHealthy, Drop, Careful,
                    sbvars, vars
      <3> QED
        BY <2>0, <3>1, MallocSparesLocks
    <2>3. CASE AwaitMalloc
      BY <2>0, <2>3, MallocSparesLocks DEF AwaitMalloc
    <2>4. ASSUME NEW x \in Key, CheckHealthOnce(x) PROVE Undisturbed(c, k)
      <3>1. x = k
        BY <2>0, <2>4 DEF CheckHealthOnce, LockKey, Careful
      <3> QED
        BY <2>4, <3>1
    <2>5. CASE Administer
      <3>1. CInv' /\ lease' = lease
        BY <2>5, AdministerKeeps DEF Administer
      <3>2. Locked(k)'
        BY <3>1 DEF CInv, LeasesBacked
      <3> QED
        BY <2>0, <2>5, <3>2, AdministerDeletes DEF Locked
    <2>6. CASE ClockTicks
      BY <2>0, <2>6 DEF ClockTicks, TimePasses, LockExpires, ItemExpires, BindingExpires, vars
    <2> QED
      BY <2>1, <2>2, <2>3, <2>4, <2>5, <2>6 DEF ClientsNext
  <1> QED
    BY <1>1, ClientsInductive, PTL DEF ClientsSpec, LeaseLocksUndisturbed

\* The free list survives health checks that lock keys inside it, and no script
\* of theirs fails an assert.
THEOREM ClientsListWellFormed ==
    ASSUME Careful
    PROVE  ClientsSpec => [](ListWellFormed /\ LuaAssertsHold)
  <1>1. CInv => ListWellFormed /\ LuaAssertsHold
    BY DEF CInv, SInv
  <1> QED
    BY <1>1, ClientsInductive, PTL

\* auto_close closes no object whose client still holds the key it is registered
\* for; an object that refresh() moved to another key is closed with its old one.
THEOREM AutoCloseSpares ==
    ASSUME Careful
    PROVE  ClientsSpec => AutoCloseSparesHolders
  <1>1. CInv /\ [ClientsNext]_cvars =>
           [\A c, d \in Client :
              /\ ~Shared
              /\ Register(c) /\ join[c].old = d /\ d # c
              /\ obj[d].key = join[c].key
              => ~Holds(d)]_cvars
    <2> SUFFICES ASSUME CInv, NEW c \in Client, NEW d \in Client, Register(c), d # c,
                        obj[d].key = join[c].key
                 PROVE  ~Holds(d)
      OBVIOUS
    <2>1. join[c].key \in lease[c]
      BY DEF CInv, JoinsHeld, Register
    <2> QED
      BY <2>1 DEF CInv, LeasesDisjoint, Holds
  <1> QED
    BY <1>1, ClientsInductive, PTL DEF ClientsSpec, AutoCloseSparesHolders

-----------------------------------------------------------------------------
(* The diagnostics beside the allocator.                                   *)

\* Whatever a scan may return.
Scanned == LockKeys \cup BindKeys \cup StrayKeys \cup OtherLocks

Snapshots == [phase : Phases, members : SUBSET Key, locked : SUBSET Key,
              corrupt : BOOLEAN, notable : BOOLEAN, owed : SUBSET Scanned,
              found : SUBSET Scanned, todo : SUBSET Scanned,
              stale : SUBSET (BindKeys \cup StrayKeys),
              orphans : SUBSET (LockKeys \cup OtherLocks), truncated : BOOLEAN,
              health : {"corrupt", "degraded", "healthy"}, moves : Nat]

Reading(phase) == phase \in {"read bindings", "read strays"}

\* What the scan of a phase may have returned.
Sought(phase) ==
    CASE phase \in {"scan bindings", "read bindings"} -> BindKeys
      [] phase \in {"scan strays", "read strays"}     -> StrayKeys
      [] phase = "scan locks"                         -> LockKeys \cup StrayKeys \cup OtherLocks
      [] OTHER                                        -> {}

SnapSound ==
    /\ snap \in Snapshots
    /\ steady \subseteq LockKeys \cup BindKeys \cup StrayKeys
    /\ snap.locked \subseteq snap.members
    /\ snap.found \subseteq Sought(snap.phase)
    /\ snap.owed \subseteq Matching(snap.phase) \ snap.found
    /\ snap.todo \subseteq snap.found
    /\ ~Reading(snap.phase) => snap.todo = {}

\* The pool as it was read is what it still is, where it is steady.
PoolAsRead ==
    \A k \in Key : <<"lock", k>> \in steady =>
        /\ k \in Members(pool) <=> k \in snap.members
        /\ k \in snap.members => (Locked(k) <=> k \in snap.locked)

\* What was found, or reported as stale, and did not change was there, and stale.
FoundLive  == steady \cap snap.found \subseteq Live
StaleIsOld == \A b \in snap.stale \cap steady : Value(b) # Nil /\ IsStale(Value(b))

\* A scan misses nothing steady, and neither does what was read of it.
ScanComplete ==
    /\ Scanning => steady \cap Matching(snap.phase) \subseteq snap.found \cup snap.owed
    /\ Reading(snap.phase) /\ ~snap.truncated =>
          steady \cap LiveBindings \cap Sought(snap.phase) \subseteq snap.found

\* The bindings the snapshot has dealt with.
Treated(b) ==
    /\ snap.phase # "scan bindings"
    /\ b \in StrayKeys => snap.phase \in {"read strays", "scan locks", "done"}
    /\ Reading(snap.phase) /\ b \in Sought(snap.phase) => b \notin snap.todo

StaleComplete ==
    ~snap.truncated =>
        \A b \in steady \cap LiveBindings : Treated(b) /\ IsStale(Value(b)) => b \in snap.stale

SnapInv == SnapSound /\ PoolAsRead /\ FoundLive /\ StaleIsOld /\ ScanComplete /\ StaleComplete

\* The keys of the four kinds are told apart by their prefixes.
LEMMA KindsApart ==
    /\ LockKeys \cap (BindKeys \cup StrayKeys \cup OtherLocks) = {}
    /\ BindKeys \cap (StrayKeys \cup OtherLocks) = {}
    /\ StrayKeys \cap OtherLocks = {}
    /\ \A x \in LockKeys : x[2] \in Key /\ x = <<"lock", x[2]>>
    /\ \A k \in Key : <<"lock", k>> \in LockKeys /\ <<"lock", k>>[2] = k
    /\ \A k : <<"lock", k>> \in LockKeys \cup BindKeys \cup StrayKeys => k \in Key
  BY OtherLocksAreOthers DEF LockKeys, BindKeys, StrayKeys

ScanPhases == {"scan bindings", "scan strays", "scan locks"}

\* The keys of a phase are those that are there of the kind it looks for.
LEMMA MatchingLive ==
    ASSUME NEW phase \in Phases
    PROVE  /\ Sought(phase) \subseteq Scanned
           /\ phase \in ScanPhases => /\ Matching(phase) = Live \cap Sought(phase)
                                     /\ Matching(phase)' = Live' \cap Sought(phase)
           /\ phase \notin ScanPhases => Matching(phase) = {} /\ Matching(phase)' = {}
  <1>1. LiveLocks \subseteq LockKeys /\ LiveLocks' \subseteq LockKeys
    BY DEF LiveLocks
  <1>2. /\ LiveBindings \subseteq BindKeys \cup StrayKeys
        /\ LiveBindings' \subseteq BindKeys \cup StrayKeys
    BY DEF LiveBindings
  <1> QED
    BY <1>1, <1>2, KindsApart DEF Phases, ScanPhases, Matching, Sought, Live, Scanned

\* Before a snapshot, and when its report is forgotten.
LEMMA NoSnapshotSound ==
    /\ snap = NoSnapshot /\ steady = {} => SnapInv
    /\ snap' = NoSnapshot /\ steady' = {} => SnapInv'
  <1>1. /\ NoSnapshot \in Snapshots /\ NoSnapshot.phase = "done"
        /\ NoSnapshot.locked = {} /\ NoSnapshot.found = {} /\ NoSnapshot.owed = {}
        /\ NoSnapshot.todo = {} /\ NoSnapshot.stale = {}
    BY DEF NoSnapshot, Snapshots, Phases
  <1> QED
    BY <1>1 DEF SnapInv, SnapSound, PoolAsRead, FoundLive, StaleIsOld, ScanComplete,
                StaleComplete, Scanning, Reading

\* A step of the allocator changes nothing about what stays steady.
LEMMA SteadySame ==
    ASSUME SnapSound, steady' = {x \in steady : Unchanged(x)}
    PROVE  /\ steady' \subseteq steady
           /\ \A x \in steady' \cap LockKeys :
                 /\ x[2] \in Members(pool) <=> x[2] \in Members(pool)'
                 /\ Locked(x[2]) <=> Locked(x[2])'
                 /\ x \in Live <=> x \in Live'
           /\ \A b \in steady' \ LockKeys : 
                 /\ b \in BindKeys \cup StrayKeys
                 /\ Value(b)' = Value(b)
                 /\ b \in LiveBindings <=> b \in LiveBindings'
                 /\ b \in Live <=> b \in Live'
  <1>1. \A x \in steady' \cap LockKeys :
                 /\ x[2] \in Members(pool) <=> x[2] \in Members(pool)'
                 /\ Locked(x[2]) <=> Locked(x[2])'
    BY DEF Unchanged
  <1>2. \A x \in LockKeys : /\ x \in Live <=> Locked(x[2])
                            /\ x \in Live' <=> Locked(x[2])'
    BY KindsApart DEF Live, LiveLocks, LiveBindings
  <1>3. \A b \in steady' \ LockKeys : b \in BindKeys \cup StrayKeys /\ Value(b)' = Value(b)
    BY DEF Unchanged, SnapSound
  <1>4. \A b \in BindKeys \cup StrayKeys : 
             /\ b \in LiveBindings <=> Value(b) # Nil
             /\ b \in LiveBindings' <=> Value(b)' # Nil
             /\ b \in Live <=> b \in LiveBindings
             /\ b \in Live' <=> b \in LiveBindings'
    BY KindsApart DEF Live, LiveLocks, LiveBindings
  <1> QED
    BY <1>1, <1>2, <1>3, <1>4

\* The allocator goes on beside a snapshot.
LEMMA AllocatorStepKeeps ==
    ASSUME SnapInv, AllocatorStep
    PROVE  SnapInv'
  <1>0. SnapSound /\ snap \in Snapshots /\ snap.phase \in Phases
    BY DEF SnapInv, SnapSound, Snapshots
  <1>1. CASE snap.phase = "done"
    <2>1. snap' = NoSnapshot /\ steady' = {}
      BY <1>1 DEF AllocatorStep
    <2> QED
      BY <2>1, NoSnapshotSound
  <1>2. CASE snap.phase # "done"
    <2>1. /\ snap' = [snap EXCEPT !.owed = @ \cap Live', !.moves = @ + (IF Idle THEN 1 ELSE 0)]
          /\ steady' = {x \in steady : Unchanged(x)}
      BY <1>2 DEF AllocatorStep
    <2>2. /\ snap' \in Snapshots /\ snap'.owed = snap.owed \cap Live'
          /\ snap'.phase = snap.phase /\ snap'.members = snap.members
          /\ snap'.locked = snap.locked /\ snap'.found = snap.found /\ snap'.todo = snap.todo
          /\ snap'.stale = snap.stale /\ snap'.truncated = snap.truncated
      <3>1. snap.moves + (IF Idle THEN 1 ELSE 0) \in Nat
        BY <1>0 DEF Snapshots
      <3>2. snap.owed \cap Live' \in SUBSET Scanned
        BY <1>0 DEF Snapshots
      <3> QED
        BY <1>0, <2>1, <3>1, <3>2 DEF Snapshots
    <2>3. /\ steady' \subseteq steady
          /\ \A k \in Key : <<"lock", k>> \in steady' =>
                /\ k \in Members(pool) <=> k \in Members(pool)'
                /\ Locked(k) <=> Locked(k)'
          /\ \A x \in steady' : x \in Live <=> x \in Live'
          /\ \A b \in steady' \ LockKeys :
                /\ b \in BindKeys \cup StrayKeys
                /\ Value(b)' = Value(b)
                /\ b \in LiveBindings <=> b \in LiveBindings'
      BY <1>0, <2>1, SteadySame, KindsApart
    <2>4. SnapSound'
      BY <1>0, <2>2, <2>3, MatchingLive DEF SnapSound
    <2>5. PoolAsRead'
      BY <2>2, <2>3 DEF SnapInv, PoolAsRead
    <2>6. FoundLive'
      BY <2>2, <2>3 DEF SnapInv, FoundLive
    <2>7. StaleIsOld'
      <3>1. \A b \in snap.stale : b \notin LockKeys
        BY <1>0, KindsApart DEF Snapshots
      <3> QED
        BY <2>2, <2>3, <3>1 DEF SnapInv, StaleIsOld, IsStale
    <2>8. ScanComplete'
      <3>1. Scanning' => steady' \cap Matching(snap.phase)' \subseteq snap'.found \cup snap'.owed
        <4>1. ASSUME Scanning'
              PROVE  /\ Matching(snap.phase) = Live \cap Sought(snap.phase)
                     /\ Matching(snap.phase)' = Live' \cap Sought(snap.phase)
          BY <1>0, <2>2, <4>1, MatchingLive DEF Scanning, ScanPhases
        <4>2. Scanning' => Scanning
          BY <2>2 DEF Scanning
        <4> QED
          BY <2>2, <2>3, <4>1, <4>2 DEF SnapInv, ScanComplete
      <3>2. Reading(snap.phase) => Sought(snap.phase) \cap LockKeys = {}
        BY <1>0, KindsApart DEF Reading, Sought
      <3>3. Reading(snap.phase)' /\ ~snap'.truncated =>
               steady' \cap LiveBindings' \cap Sought(snap.phase)' \subseteq snap'.found
        BY <2>2, <2>3, <3>2 DEF SnapInv, ScanComplete
      <3> QED
        BY <2>2, <3>1, <3>3 DEF ScanComplete
    <2>9. StaleComplete'
      <3>1. \A b \in LiveBindings' : b \notin LockKeys
        BY KindsApart DEF LiveBindings
      <3> QED
        BY <2>2, <2>3, <3>1 DEF SnapInv, StaleComplete, Treated, IsStale
    <2> QED
      BY <2>4, <2>5, <2>6, <2>7, <2>8, <2>9 DEF SnapInv
  <1> QED
    BY <1>1, <1>2

\* The allocator stands still while the collector moves.
LEMMA AllocatorSame ==
    ASSUME UNCHANGED sbvars
    PROVE  /\ Members(pool)' = Members(pool)
           /\ \A k \in Key : Locked(k)' <=> Locked(k)
           /\ \A b : Value(b)' = Value(b)
           /\ LiveBindings' = LiveBindings /\ Live' = Live
           /\ \A phase \in Phases : Matching(phase)' = Matching(phase)
  <1>1. /\ Members(pool)' = Members(pool)
        /\ \A k : Locked(k)' <=> Locked(k)
        /\ \A b : Value(b)' = Value(b)
    BY DEF sbvars, vars, Members, Locked, Value
  <1>2. LiveBindings' = LiveBindings /\ LiveLocks' = LiveLocks
    BY <1>1 DEF LiveBindings, LiveLocks
  <1>3. Live' = Live
    BY <1>2 DEF Live
  <1> QED
    BY <1>1, <1>2, <1>3, MatchingLive

\* The pool and its locks are read in one EVAL.
LEMMA TakeRawPoolKeeps ==
    ASSUME Members(pool) \subseteq Key, SnapInv, TakeRawPool
    PROVE  SnapInv'
  <1> DEFINE locked  == {k \in Members(pool) : Locked(k)}
             corrupt == CheckInvariants(pool, locked) # {}
             notable == Notable(SummarizePool(pool, lock))
             owed    == Matching("scan bindings")
  <1>0. UNCHANGED sbvars /\ steady' = LockKeys \cup BindKeys \cup StrayKeys
    BY DEF TakeRawPool
  <1>1. snap' = [NoSnapshot EXCEPT !.phase   = "scan bindings",
                                   !.members = Members(pool),
                                   !.locked  = locked,
                                   !.corrupt = corrupt,
                                   !.notable = notable,
                                   !.owed    = owed]
    BY DEF TakeRawPool
  <1>2. /\ "scan bindings" \in Phases /\ Sought("scan bindings") = BindKeys
        /\ owed = Live \cap BindKeys
    BY MatchingLive DEF Phases, ScanPhases, Sought
  <1>3. corrupt \in BOOLEAN
    OBVIOUS
  <1>4. notable \in BOOLEAN
    BY DEF Notable
  <1>5. locked \subseteq Members(pool) /\ \A k \in Members(pool) : Locked(k) <=> k \in locked
    OBVIOUS
  <1> HIDE DEF locked, corrupt, notable, owed
  <1>6. /\ snap' \in Snapshots
        /\ snap'.phase = "scan bindings" /\ snap'.members = Members(pool)
        /\ snap'.locked = locked /\ snap'.owed = owed
        /\ snap'.found = {} /\ snap'.todo = {} /\ snap'.stale = {}
    <2>1. owed \subseteq Scanned
      BY <1>2 DEF Scanned
    <2>2. snap' = [phase |-> "scan bindings", members |-> Members(pool), locked |-> locked,
                   corrupt |-> corrupt, notable |-> notable, owed |-> owed, found |-> {},
                   todo |-> {}, stale |-> {}, orphans |-> {}, truncated |-> FALSE,
                   health |-> "healthy", moves |-> 0]
      BY <1>1 DEF NoSnapshot
    <2> QED
      BY <1>2, <1>3, <1>4, <1>5, <2>1, <2>2 DEF Snapshots
  <1>7. SnapSound'
    <2>1. Matching(snap.phase)' = owed
      BY <1>0, <1>2, <1>6, AllocatorSame DEF owed
    <2> QED
      BY <1>0, <1>5, <1>6, <2>1 DEF SnapSound, Reading
  <1>8. PoolAsRead'
    BY <1>0, <1>5, <1>6, AllocatorSame DEF PoolAsRead
  <1>9. ScanComplete'
    <2>1. Matching(snap.phase)' = owed
      BY <1>0, <1>2, <1>6, AllocatorSame DEF owed
    <2> QED
      BY <1>6, <2>1 DEF ScanComplete, Reading
  <1> QED
    BY <1>6, <1>7, <1>8, <1>9 DEF SnapInv, FoundLive, StaleIsOld, StaleComplete, Treated

\* A step of the collector that takes no new snapshot forgets nothing it read.
LEMMA CollectorKeeps ==
    ASSUME SnapInv, UNCHANGED <<sbvars, steady>>, SnapSound',
           snap'.members = snap.members, snap'.locked = snap.locked,
           steady \cap snap'.found \subseteq Live,
           \A b \in (snap'.stale \ snap.stale) \cap steady : Value(b) # Nil /\ IsStale(Value(b)),
           ScanComplete',
           StaleComplete'
    PROVE  SnapInv'
  <1>1. PoolAsRead' /\ FoundLive'
    BY AllocatorSame DEF SnapInv, PoolAsRead, FoundLive
  <1>2. StaleIsOld'
    BY AllocatorSame DEF SnapInv, StaleIsOld, IsStale
  <1> QED
    BY <1>1, <1>2 DEF SnapInv

\* One more key of a scan.
LEMMA ScanReturnsKeeps ==
    ASSUME SnapInv, ScanReturns
    PROVE  SnapInv'
  <1>0. /\ SnapSound /\ snap \in Snapshots /\ snap.phase \in Phases /\ ScanComplete
        /\ Scanning /\ snap.phase \in ScanPhases /\ ~Reading(snap.phase)
        /\ UNCHANGED <<sbvars, steady>>
    BY DEF SnapInv, SnapSound, Snapshots, ScanReturns, Scanning, ScanPhases, Reading
  <1>1. PICK x \in Matching(snap.phase) \ snap.found :
             snap' = [snap EXCEPT !.found = @ \cup {x}, !.owed = @ \ {x}]
    BY DEF ScanReturns
  <1>2. x \in Live \cap Sought(snap.phase) /\ x \in Scanned
    BY <1>0, MatchingLive
  <1>3. /\ snap' \in Snapshots
        /\ snap'.found = snap.found \cup {x} /\ snap'.owed = snap.owed \ {x}
        /\ snap'.phase = snap.phase /\ snap'.members = snap.members
        /\ snap'.locked = snap.locked /\ snap'.todo = snap.todo
        /\ snap'.stale = snap.stale /\ snap'.truncated = snap.truncated
    BY <1>0, <1>1, <1>2 DEF Snapshots
  <1>4. Matching(snap.phase)' = Matching(snap.phase)
    BY <1>0, <1>3, AllocatorSame
  <1>5. SnapSound'
    BY <1>0, <1>2, <1>3, <1>4 DEF SnapSound
  <1>6. ScanComplete'
    BY <1>0, <1>3, <1>4 DEF ScanComplete, Reading
  <1>7. StaleComplete'
    <2>1. \A b : Treated(b)' => Treated(b)
      BY <1>0, <1>3 DEF Treated
    <2>2. \A b : IsStale(Value(b))' <=> IsStale(Value(b))
      BY <1>0, <1>3, AllocatorSame DEF IsStale
    <2> QED
      BY <1>0, <1>3, <2>1, <2>2, AllocatorSame DEF SnapInv, StaleComplete
  <1> QED
    BY <1>0, <1>2, <1>3, <1>5, <1>6, <1>7, CollectorKeeps DEF SnapInv, FoundLive

\* A scan of bindings ends.
LEMMA BindingScanEndsKeeps ==
    ASSUME SnapInv, BindingScanEnds
    PROVE  SnapInv'
  <1> DEFINE next == IF snap.phase = "scan bindings" THEN "read bindings" ELSE "read strays"
  <1>0. /\ SnapSound /\ snap \in Snapshots /\ ScanComplete /\ Scanning
        /\ snap.phase \in {"scan bindings", "scan strays"}
        /\ UNCHANGED <<sbvars, steady>>
    BY DEF SnapInv, SnapSound, Snapshots, BindingScanEnds, Scanning
  <1>1. PICK t \in BOOLEAN :
             /\ ScanMayEnd(t)
             /\ snap' = [snap EXCEPT !.phase = next, !.owed = {}, !.todo = snap.found,
                                     !.truncated = @ \/ t]
    BY DEF BindingScanEnds
  <1>2. /\ next \in Phases /\ next \in {"read bindings", "read strays"}
        /\ next \notin ScanPhases /\ snap.phase \in Phases /\ snap.phase \in ScanPhases
        /\ Sought(next) = Sought(snap.phase)
    BY <1>0 DEF Phases, Sought, ScanPhases
  <1>3. /\ snap' \in Snapshots
        /\ snap'.phase = next /\ snap'.owed = {} /\ snap'.todo = snap.found
        /\ snap'.found = snap.found /\ snap'.members = snap.members
        /\ snap'.locked = snap.locked /\ snap'.stale = snap.stale
        /\ snap'.truncated = (snap.truncated \/ t)
    <2> DEFINE cut == snap.truncated \/ t
    <2>1. /\ snap' = [snap EXCEPT !.phase = next, !.owed = {}, !.todo = snap.found,
                                  !.truncated = cut]
          /\ cut \in BOOLEAN /\ snap.found \in SUBSET Scanned
      BY <1>0, <1>1 DEF Snapshots
    <2> HIDE DEF cut, next
    <2>2. snap' \in Snapshots
      BY <1>0, <1>2, <2>1 DEF Snapshots
    <2>3. /\ snap'.phase = next /\ snap'.owed = {} /\ snap'.todo = snap.found
          /\ snap'.found = snap.found /\ snap'.members = snap.members
          /\ snap'.locked = snap.locked /\ snap'.stale = snap.stale
          /\ snap'.truncated = cut
      BY <1>0, <2>1 DEF Snapshots
    <2> QED
      BY <2>2, <2>3 DEF cut
  <1>4. SnapSound'
    BY <1>0, <1>2, <1>3 DEF SnapSound, Reading
  <1>5. ScanComplete'
    <2>1. ~snap'.truncated => snap.owed = {}
      BY <1>1, <1>3 DEF ScanMayEnd
    <2>2. steady \cap Live \cap Sought(snap.phase) \subseteq snap.found \cup snap.owed
      BY <1>0, <1>2, MatchingLive DEF ScanComplete
    <2>3. LiveBindings \subseteq Live
      BY DEF Live
    <2> QED
      BY <1>0, <1>2, <1>3, <2>1, <2>2, <2>3, AllocatorSame DEF ScanComplete, Scanning, Reading
  <1>6. StaleComplete'
    <2>1. ASSUME NEW b \in steady \cap LiveBindings, Treated(b)', ~snap'.truncated
          PROVE  Treated(b)
      <3>1. b \notin Sought(next)
        BY <1>0, <1>2, <1>3, <1>5, <2>1, AllocatorSame DEF ScanComplete, Treated, Reading
      <3>2. snap.phase = "scan strays" /\ b \in BindKeys
        BY <1>0, <1>3, <2>1, <3>1 DEF Treated, Sought, LiveBindings
      <3> QED
        BY <3>2, KindsApart DEF Treated, Reading
    <2>2. \A b : IsStale(Value(b))' <=> IsStale(Value(b))
      BY <1>0, <1>3, AllocatorSame DEF IsStale
    <2> QED
      BY <1>0, <1>3, <2>1, <2>2, AllocatorSame DEF SnapInv, StaleComplete
  <1> QED
    BY <1>0, <1>3, <1>4, <1>5, <1>6, CollectorKeeps DEF SnapInv, FoundLive

\* One binding is read.
LEMMA ReadBindingKeeps ==
    ASSUME SnapInv, ReadBinding
    PROVE  SnapInv'
  <1>0. /\ SnapSound /\ snap \in Snapshots /\ ScanComplete /\ Reading(snap.phase) /\ ~Scanning
        /\ snap.phase \in Phases /\ Sought(snap.phase) \subseteq BindKeys \cup StrayKeys
        /\ UNCHANGED <<sbvars, steady>>
    BY DEF SnapInv, SnapSound, Snapshots, ReadBinding, Reading, Scanning, Sought
  <1>1. PICK b \in snap.todo :
             snap' = [snap EXCEPT !.todo = @ \ {b},
                                  !.stale = IF IsStale(Value(b)) THEN @ \cup {b} ELSE @]
    BY DEF ReadBinding
  <1>2. b \in snap.found /\ b \in BindKeys \cup StrayKeys /\ b \in Sought(snap.phase)
    BY <1>0 DEF SnapSound
  <1>3. /\ snap' \in Snapshots /\ snap'.todo = snap.todo \ {b}
        /\ snap'.stale = IF IsStale(Value(b)) THEN snap.stale \cup {b} ELSE snap.stale
        /\ snap'.phase = snap.phase /\ snap'.owed = snap.owed
        /\ snap'.found = snap.found /\ snap'.members = snap.members
        /\ snap'.locked = snap.locked /\ snap'.truncated = snap.truncated
    BY <1>0, <1>1, <1>2 DEF Snapshots
  <1>4. Matching(snap.phase)' = Matching(snap.phase)
    BY <1>0, <1>3, AllocatorSame
  <1>5. SnapSound'
    BY <1>0, <1>3, <1>4 DEF SnapSound
  <1>6. ScanComplete'
    BY <1>0, <1>3, <1>4, AllocatorSame DEF ScanComplete, Scanning
  <1>7. StaleComplete'
    <2>1. \A x : Treated(x)' => Treated(x) \/ x = b
      BY <1>3 DEF Treated
    <2>2. \A x : IsStale(Value(x))' <=> IsStale(Value(x))
      BY <1>0, <1>3, AllocatorSame DEF IsStale
    <2> QED
      BY <1>0, <1>3, <2>1, <2>2, AllocatorSame DEF SnapInv, StaleComplete
  <1>8. b \in steady => Value(b) # Nil
    BY <1>2, KindsApart DEF SnapInv, FoundLive, Live, LiveLocks, LiveBindings
  <1> QED
    BY <1>0, <1>3, <1>5, <1>6, <1>7, <1>8, CollectorKeeps DEF SnapInv, FoundLive

\* On to the next scan.
LEMMA BindingsReadKeeps ==
    ASSUME SnapInv, BindingsRead
    PROVE  SnapInv'
  <1> DEFINE next == IF snap.phase = "read bindings" THEN "scan strays" ELSE "scan locks"
  <1>0. /\ SnapSound /\ snap \in Snapshots /\ ScanComplete /\ StaleComplete
        /\ snap.phase \in {"read bindings", "read strays"} /\ snap.todo = {}
        /\ snap' = [snap EXCEPT !.phase = next, !.found = {}, !.owed = Matching(next)]
        /\ UNCHANGED <<sbvars, steady>>
    BY DEF SnapInv, SnapSound, BindingsRead, GoTo
  <1>1. /\ next \in Phases /\ next \in ScanPhases /\ ~Reading(next)
        /\ Matching(next) \subseteq Sought(next) /\ Sought(next) \subseteq Scanned
    BY <1>0, MatchingLive DEF Phases, ScanPhases, Reading
  <1>2. /\ snap' \in Snapshots /\ snap'.phase = next
        /\ snap'.owed = Matching(next) /\ snap'.found = {} /\ snap'.todo = {}
        /\ snap'.members = snap.members /\ snap'.locked = snap.locked
        /\ snap'.stale = snap.stale /\ snap'.truncated = snap.truncated
    <2> DEFINE owed == Matching(next)
    <2>1. /\ snap' = [snap EXCEPT !.phase = next, !.found = {}, !.owed = owed]
          /\ owed \in SUBSET Scanned
      BY <1>0, <1>1
    <2> HIDE DEF owed, next
    <2>2. snap' \in Snapshots
      BY <1>0, <1>1, <2>1 DEF Snapshots
    <2>3. /\ snap'.phase = next /\ snap'.owed = owed /\ snap'.found = {} /\ snap'.todo = {}
          /\ snap'.members = snap.members /\ snap'.locked = snap.locked
          /\ snap'.stale = snap.stale /\ snap'.truncated = snap.truncated
      BY <1>0, <2>1 DEF Snapshots
    <2> QED
      BY <2>2, <2>3 DEF owed
  <1>3. Matching(snap.phase)' = Matching(next)
    BY <1>0, <1>1, <1>2, AllocatorSame
  <1>4. SnapSound'
    BY <1>0, <1>1, <1>2, <1>3 DEF SnapSound
  <1>5. ScanComplete'
    BY <1>1, <1>2, <1>3 DEF ScanComplete
  <1>6. StaleComplete'
    <2>1. ASSUME NEW x \in LiveBindings, Treated(x)'
          PROVE  Treated(x)
      <3>1. CASE x \in StrayKeys
        <4>1. snap.phase = "read strays"
          <5>1. snap'.phase \in {"read strays", "scan locks", "done"}
            BY <2>1, <3>1 DEF Treated, StrayKeys
          <5>2. snap.phase = "read bindings" => snap'.phase = "scan strays"
            BY <1>2
          <5> QED
            BY <1>0, <5>1, <5>2
        <4> QED
          BY <1>0, <4>1 DEF Treated
      <3>2. CASE x \notin StrayKeys
        BY <1>0, <3>2 DEF Treated
      <3> QED
        BY <3>1, <3>2
    <2>2. \A x : IsStale(Value(x))' <=> IsStale(Value(x))
      BY <1>0, <1>2, AllocatorSame DEF IsStale
    <2> QED
      BY <1>0, <1>2, <2>1, <2>2, AllocatorSame DEF StaleComplete
  <1> QED
    BY <1>0, <1>2, <1>4, <1>5, <1>6, CollectorKeeps

\* The snapshot is returned.
LEMMA ReportKeeps ==
    ASSUME SnapInv, Report
    PROVE  SnapInv'
  <1>0. /\ SnapSound /\ snap \in Snapshots /\ ScanComplete /\ StaleComplete
        /\ snap.phase = "scan locks" /\ snap.todo = {}
        /\ UNCHANGED <<sbvars, steady>>
    BY DEF SnapInv, SnapSound, Report, Reading
  <1>1. PICK t \in BOOLEAN :
             LET s == [snap EXCEPT !.orphans = Orphans(snap.found), !.truncated = @ \/ t]
             IN  snap' = [s EXCEPT !.phase = "done", !.owed = {}, !.found = {},
                                   !.moves = 0, !.health = Health(s)]
    BY DEF Report
  <1>2. Orphans(snap.found) \subseteq LockKeys \cup OtherLocks
    BY <1>0 DEF SnapSound, Sought, Orphans
  <1>3. \A s : Health(s) \in {"corrupt", "degraded", "healthy"}
    BY DEF Health
  <1>4. /\ snap' \in Snapshots /\ snap'.phase = "done"
        /\ snap'.owed = {} /\ snap'.found = {} /\ snap'.todo = {}
        /\ snap'.members = snap.members /\ snap'.locked = snap.locked
        /\ snap'.stale = snap.stale /\ snap'.truncated = (snap.truncated \/ t)
    <2> DEFINE cut == snap.truncated \/ t
               orphans == Orphans(snap.found)
               s == [snap EXCEPT !.orphans = orphans, !.truncated = cut]
               health == Health(s)
    <2>1. snap' = [s EXCEPT !.phase = "done", !.owed = {}, !.found = {},
                            !.moves = 0, !.health = health]
      BY <1>1
    <2>2. /\ cut \in BOOLEAN /\ orphans \in SUBSET (LockKeys \cup OtherLocks)
          /\ health \in {"corrupt", "degraded", "healthy"} /\ "done" \in Phases
      BY <1>0, <1>2, <1>3 DEF Snapshots, Phases
    <2> HIDE DEF cut, orphans, health
    <2>3. /\ s \in Snapshots
          /\ s.todo = snap.todo /\ s.members = snap.members /\ s.locked = snap.locked
          /\ s.stale = snap.stale /\ s.truncated = cut
      BY <1>0, <2>2 DEF Snapshots
    <2> HIDE DEF s
    <2>4. snap' \in Snapshots
      BY <2>1, <2>2, <2>3 DEF Snapshots
    <2>5. /\ snap'.phase = "done" /\ snap'.owed = {} /\ snap'.found = {}
          /\ snap'.todo = s.todo /\ snap'.members = s.members /\ snap'.locked = s.locked
          /\ snap'.stale = s.stale /\ snap'.truncated = s.truncated
      BY <2>1, <2>3 DEF Snapshots
    <2> QED
      BY <1>0, <2>3, <2>4, <2>5 DEF cut
  <1>5. SnapSound'
    BY <1>0, <1>4 DEF SnapSound
  <1>6. ScanComplete'
    BY <1>4 DEF ScanComplete, Scanning, Reading
  <1>7. StaleComplete'
    <2>1. \A x : Treated(x)' => Treated(x)
      BY <1>0, <1>4 DEF Treated, Reading
    <2>2. \A x : IsStale(Value(x))' <=> IsStale(Value(x))
      BY <1>0, <1>4, AllocatorSame DEF IsStale
    <2> QED
      BY <1>0, <1>4, <2>1, <2>2, AllocatorSame DEF StaleComplete
  <1> QED
    BY <1>0, <1>4, <1>5, <1>6, <1>7, CollectorKeeps

\* SnapInv is inductive beside the invariant of the scripts.
LEMMA CollectorNextKeeps ==
    ASSUME IInv, SnapInv, [CollectorNext]_dvars
    PROVE  IInv' /\ SnapInv'
  <1>1. IInv'
    <2>1. [Next]_vars
      BY DEF CollectorNext, CollectorStep, AllocatorStep, TakeRawPool, ScanReturns,
             BindingScanEnds, ReadBinding, BindingsRead, Report, SBNext, SoftBindCall,
             dvars, sbvars
    <2> QED
      BY <2>1, NextKeeps
  <1>2. CASE CollectorStep
    <2>1. Members(pool) \subseteq Key
      BY PoolShape DEF IInv, SInv, TypeOK
    <2> QED
      BY <1>1, <1>2, <2>1, TakeRawPoolKeeps, ScanReturnsKeeps, BindingScanEndsKeeps,
         ReadBindingKeeps, BindingsReadKeeps, ReportKeeps DEF CollectorStep
  <1>3. CASE AllocatorStep
    BY <1>1, <1>3, AllocatorStepKeeps
  <1>4. CASE UNCHANGED dvars
    <2>1. UNCHANGED <<sbvars, snap, steady>>
      BY <1>4 DEF dvars
    <2>2. SnapSound'
      BY <2>1, AllocatorSame DEF SnapInv, SnapSound, Snapshots
    <2>3. ScanComplete'
      BY <2>1, <2>2, AllocatorSame DEF SnapInv, SnapSound, Snapshots, ScanComplete, Scanning
    <2>4. StaleComplete'
      <3>1. \A x : Treated(x)' <=> Treated(x)
        BY <2>1 DEF Treated
      <3>2. \A x : IsStale(Value(x))' <=> IsStale(Value(x))
        BY <2>1, AllocatorSame DEF IsStale
      <3> QED
        BY <2>1, <3>1, <3>2, AllocatorSame DEF SnapInv, StaleComplete
    <2> QED
      BY <1>1, <2>1, <2>2, <2>3, <2>4, CollectorKeeps DEF SnapInv, FoundLive
  <1> QED
    BY <1>1, <1>2, <1>3, <1>4 DEF CollectorNext

\* IInv and SnapInv hold of every snapshot beside any scripts, soft-bind calls
\* and expiries.
THEOREM CollectorInductive == CollectorSpec => [](IInv /\ SnapInv)
  <1>1. CollectorInit => IInv /\ SnapInv
    BY InitIInv, NoSnapshotSound DEF CollectorInit, SBInit
  <1>2. IInv /\ SnapInv /\ [CollectorNext]_dvars => IInv' /\ SnapInv'
    BY CollectorNextKeeps
  <1> QED
    BY <1>1, <1>2, PTL DEF CollectorSpec

\* Reports name bindings and lock keys only; a scan owes what is there.
THEOREM CollectorTypeCorrect == CollectorSpec => []CollectorTypeOK
  <1>1. SnapInv => CollectorTypeOK
    BY DEF SnapInv, SnapSound, Snapshots, CollectorTypeOK
  <1> QED
    BY <1>1, CollectorInductive, PTL

\* What a report says of keys is what Report makes of the last scan.
LEMMA ReportFacts ==
    ASSUME SnapInv, Report
    PROVE  /\ snap'.orphans = Orphans(snap.found) /\ snap'.stale = snap.stale
           /\ snap'.health = "healthy" =>
                 /\ snap'.orphans = {} /\ snap'.stale = {}
                 /\ ~snap.truncated /\ snap.owed = {}
           /\ snap.phase = "scan locks" /\ snap.found \subseteq LockKeys \cup StrayKeys \cup OtherLocks
           /\ snap.owed \subseteq Scanned
  <1>0. snap \in Snapshots /\ SnapSound /\ snap.phase = "scan locks"
    BY DEF SnapInv, SnapSound, Report
  <1>1. PICK t \in BOOLEAN :
             /\ ScanMayEnd(t)
             /\ LET s == [snap EXCEPT !.orphans = Orphans(snap.found), !.truncated = @ \/ t]
                IN  snap' = [s EXCEPT !.phase = "done", !.owed = {}, !.found = {},
                                      !.moves = 0, !.health = Health(s)]
    BY DEF Report
  <1> DEFINE s == [snap EXCEPT !.orphans = Orphans(snap.found), !.truncated = @ \/ t]
  <1>2. /\ s.orphans = Orphans(snap.found) /\ s.truncated = (snap.truncated \/ t)
        /\ s.stale = snap.stale
        /\ snap'.orphans = s.orphans /\ snap'.stale = s.stale /\ snap'.health = Health(s)
    BY <1>0, <1>1 DEF Snapshots
  <1> HIDE DEF s
  <1>3. Health(s) = "healthy" => s.orphans = {} /\ ~s.truncated /\ s.stale = {}
    BY DEF Health
  <1>4. ~t => snap.owed = {}
    BY <1>1 DEF ScanMayEnd
  <1> QED
    BY <1>0, <1>2, <1>3, <1>4 DEF SnapSound, Sought, Snapshots

\* A report's mistakes are about keys that were changing while it was made.
THEOREM ReportsNoFalseAlarms ==
    ASSUME OtherLocks = {}
    PROVE  CollectorSpec => NoFalseAlarms
  <1>1. ASSUME SnapInv, Report
        PROVE  (snap'.orphans \cup snap'.stale) \cap Settled \subseteq Anomalies
    <2>0. /\ snap'.orphans = Orphans(snap.found) /\ snap'.stale = snap.stale
          /\ snap.found \subseteq LockKeys \cup StrayKeys /\ PoolAsRead /\ FoundLive /\ StaleIsOld
          /\ snap.stale \subseteq BindKeys \cup StrayKeys
      BY <1>1, ReportFacts DEF SnapInv, SnapSound, Snapshots
    <2>1. ASSUME NEW x \in Orphans(snap.found), x \in Settled
          PROVE  x \in Anomalies
      <3>1. /\ x \in LockKeys /\ x \in snap.found /\ x = <<"lock", x[2]>> /\ x[2] \in Key
            /\ x[2] \notin snap.members
        BY <2>0, <2>1, KindsApart DEF Orphans
      <3>2. x \in steady
        BY <2>1, <3>1, KindsApart DEF Settled
      <3>3. x \in LiveLocks
        BY <2>0, <3>1, <3>2, KindsApart DEF FoundLive, Live, LiveBindings
      <3>4. x[2] \notin Members(pool)
        BY <2>0, <3>1, <3>2 DEF PoolAsRead
      <3> QED
        BY <3>3, <3>4 DEF Anomalies
    <2>2. ASSUME NEW b \in snap.stale, b \in Settled
          PROVE  b \in Anomalies
      <3>1. b \in BindKeys \cup StrayKeys /\ b \notin LockKeys
        BY <2>0, KindsApart
      <3>2. b \in steady
        BY <2>2, <3>1 DEF Settled
      <3>3. Value(b) # Nil /\ IsStale(Value(b)) /\ b \in LiveBindings
        BY <2>0, <3>1, <3>2 DEF StaleIsOld, LiveBindings
      <3>4. <<"lock", Value(b)>> \in steady /\ Value(b) \in Key
        BY <1>1, <2>2, <3>1, <3>3, KindsApart DEF Settled, SnapInv, SnapSound
      <3> QED
        BY <2>0, <3>3, <3>4 DEF PoolAsRead, IsStale, Anomalies
    <2> QED
      BY <2>0, <2>1, <2>2
  <1>2. SnapInv /\ [CollectorNext]_dvars =>
           [Report => (snap'.orphans \cup snap'.stale) \cap Settled \subseteq Anomalies]_dvars
    BY <1>1
  <1> QED
    BY <1>2, CollectorInductive, PTL DEF CollectorSpec, NoFalseAlarms

\* "healthy" overlooks nothing that was there all the time.
THEOREM HealthyReportsHonest == CollectorSpec => HealthyIsHonest
  <1>1. ASSUME SnapInv, Report, snap'.health = "healthy"
        PROVE  Settled \cap Anomalies = {}
    <2>0. /\ Orphans(snap.found) = {} /\ snap.stale = {} /\ ~snap.truncated /\ snap.owed = {}
          /\ snap.phase = "scan locks" /\ PoolAsRead /\ ScanComplete /\ StaleComplete
          /\ steady \subseteq LockKeys \cup BindKeys \cup StrayKeys
      BY <1>1, ReportFacts DEF SnapInv, SnapSound
    <2>1. ASSUME NEW x \in LiveLocks, x[2] \notin Members(pool), x \in Settled
          PROVE  FALSE
      <3>1. x \in LockKeys /\ x = <<"lock", x[2]>> /\ x[2] \in Key
        BY KindsApart DEF LiveLocks
      <3>2. x \in steady
        BY <2>1, <3>1, KindsApart DEF Settled
      <3>3. x \in snap.found
        BY <2>0, <2>1, <3>2 DEF ScanComplete, Scanning, Matching
      <3>4. x[2] \notin snap.members
        BY <2>0, <2>1, <3>1, <3>2 DEF PoolAsRead
      <3>5. x \notin {<<"lock", k>> : k \in snap.members} /\ x \notin StrayKeys
        BY <3>1, <3>4, KindsApart
      <3> QED
        BY <2>0, <3>3, <3>5 DEF Orphans
    <2>2. ASSUME NEW b \in LiveBindings, b \in Settled,
                 Value(b) \notin Members(pool) \/ (~Shared /\ Locked(Value(b)))
          PROVE  FALSE
      <3>1. b \notin LockKeys /\ b \notin OtherLocks /\ Value(b) # Nil
        BY KindsApart DEF LiveBindings
      <3>2. b \in steady /\ <<"lock", Value(b)>> \in steady
        BY <2>2, <3>1 DEF Settled
      <3>3. Value(b) \in Key
        BY <2>0, <3>2, KindsApart
      <3>4. IsStale(Value(b))
        BY <2>0, <2>2, <3>2, <3>3 DEF PoolAsRead, IsStale
      <3>5. Treated(b)
        BY <2>0 DEF Treated, Reading
      <3> QED
        BY <2>0, <3>2, <3>4, <3>5 DEF StaleComplete
    <2> QED
      BY <2>1, <2>2 DEF Anomalies
  <1>2. SnapInv /\ [CollectorNext]_dvars =>
           [Report /\ snap'.health = "healthy" => Settled \cap Anomalies = {}]_dvars
    BY <1>1
  <1> QED
    BY <1>2, CollectorInductive, PTL DEF CollectorSpec, HealthyIsHonest

-----------------------------------------------------------------------------
(* check_invariants.                                                       *)

\* What a walk along the sequence t of free nodes is at after m rounds.
Ahead(t, m) == IF m < Len(t) THEN t[m + 1] ELSE Nil

\* One node more of the sequence.
LEMMA NextPrefix ==
    ASSUME NEW S, NEW t \in Seq(S), NEW m \in 1 .. Len(t)
    PROVE  Append(SubSeq(t, 1, m - 1), t[m]) = SubSeq(t, 1, m)
  <1>1. /\ SubSeq(t, 1, m - 1) \in Seq(S) /\ Len(SubSeq(t, 1, m - 1)) = m - 1
        /\ \A i \in 1 .. m - 1 : SubSeq(t, 1, m - 1)[i] = t[i]
    OBVIOUS
  <1>2. /\ SubSeq(t, 1, m) \in Seq(S) /\ Len(SubSeq(t, 1, m)) = m
        /\ \A i \in 1 .. m : SubSeq(t, 1, m)[i] = t[i]
    OBVIOUS
  <1> DEFINE a == SubSeq(t, 1, m - 1)
             b == SubSeq(t, 1, m)
             c == Append(a, t[m])
  <1> HIDE DEF a, b
  <1>3. t[m] \in S
    OBVIOUS
  <1>4. c \in Seq(S) /\ Len(c) = m /\ \A i \in 1 .. m : c[i] = IF i = m THEN t[m] ELSE a[i]
    BY <1>1, <1>3 DEF a
  <1> HIDE DEF c
  <1>5. c = b
    BY <1>1, <1>2, <1>4, SeqEqual DEF a, b
  <1> QED
    BY <1>5 DEF a, b, c

\* f is a walk, round by round.
Rounds(p, first, link, n, f) ==
    f = [i \in 0 .. n |-> IF i = 0 THEN [path |-> <<>>, at |-> first]
                          ELSE WalkRound(p, link, f[i - 1])]

\* A walk is what its rounds lead to, and there are such rounds.
LEMMA WalkInRounds ==
    ASSUME NEW p, NEW first, NEW link, NEW n \in Nat, n = Cardinality(Members(p)) + 1
    PROVE  \E f : Rounds(p, first, link, n, f) /\ Walk(p, first, link) = f[n]
  <1> DEFINE walk == CHOOSE f : Rounds(p, first, link, n, f)
  <1>1. Walk(p, first, link) = walk[n]
    BY Zenon DEF Walk, Rounds
  <1>2. \E f : Rounds(p, first, link, n, f)
    <2> DEFINE T == {m \in 0 .. n : \E f : Rounds(p, first, link, m, f)}
    <2>1. 0 \in T
      <3> DEFINE f == [i \in 0 .. 0 |-> [path |-> <<>>, at |-> first]]
      <3>1. Rounds(p, first, link, 0, f)
        BY DEF Rounds
      <3> HIDE DEF f
      <3> QED
        BY <3>1
    <2>2. ASSUME NEW m \in 1 .. n, m - 1 \in T PROVE m \in T
      <3>1. PICK f : Rounds(p, first, link, m - 1, f)
        BY <2>2
      <3> DEFINE g == [i \in 0 .. m |-> IF i = m THEN WalkRound(p, link, f[m - 1]) ELSE f[i]]
                 h == [i \in 0 .. m |-> IF i = 0 THEN [path |-> <<>>, at |-> first]
                                        ELSE WalkRound(p, link, g[i - 1])]
      <3>2. ASSUME NEW i \in 0 .. m PROVE g[i] = h[i]
        <4>1. CASE i = m
          BY <4>1
        <4>2. CASE i # m
          <5>1. i \in 0 .. m - 1 /\ g[i] = f[i]
            BY <4>2
          <5>2. f[i] = IF i = 0 THEN [path |-> <<>>, at |-> first]
                       ELSE WalkRound(p, link, f[i - 1])
            BY <3>1, <5>1 DEF Rounds
          <5>3. i # 0 => g[i - 1] = f[i - 1]
            BY <4>2
          <5> QED
            BY <5>1, <5>2, <5>3
        <4> QED
          BY <4>1, <4>2
      <3>3. g = h
        BY <3>2
      <3>4. Rounds(p, first, link, m, g)
        BY <3>3 DEF Rounds
      <3> HIDE DEF g
      <3> QED
        BY <3>4
    <2> HIDE DEF T
    <2>3. \A m \in 0 .. n : m \in T
      BY <2>1, <2>2, CountUp
    <2> QED
      BY <2>3 DEF T
  <1> HIDE DEF walk
  <1>3. Rounds(p, first, link, n, walk)
    BY <1>2, Zenon DEF walk
  <1> QED
    BY <1>1, <1>3

\* What a walk has done so far, whatever the pool is like: it noted distinct
\* free nodes, each where the link of the one before led it.
WalkedAlong(p, first, link, w) ==
    /\ w.path \in Seq(FreeNodes(p))
    /\ \A i, j \in 1 .. Len(w.path) : w.path[i] = w.path[j] => i = j
    /\ w.path = <<>> => w.at = first
    /\ w.path # <<>> => w.path[1] = first /\ w.at = link[w.path[Len(w.path)]]
    /\ \A i \in 1 .. Len(w.path) - 1 : w.path[i + 1] = link[w.path[i]]

\* A round notes one node more.
LEMMA RoundNotesOne ==
    ASSUME NEW p, NEW first, NEW link, NEW w, WalkedAlong(p, first, link, w),
           w.at \in FreeNodes(p) \ ToSet(w.path), NEW v, v = WalkRound(p, link, w)
    PROVE  WalkedAlong(p, first, link, v) /\ Len(v.path) = Len(w.path) + 1
  <1> DEFINE s == w.path
             x == w.at
             r == Append(s, x)
  <1>1. v.path = r /\ v.at = link[x]
    BY DEF WalkRound
  <1>2. /\ s \in Seq(FreeNodes(p)) /\ Len(s) \in Nat /\ DOMAIN s = 1 .. Len(s)
        /\ \A i, j \in 1 .. Len(s) : s[i] = s[j] => i = j
        /\ s = <<>> => x = first
        /\ s # <<>> => s[1] = first /\ x = link[s[Len(s)]]
        /\ \A i \in 1 .. Len(s) - 1 : s[i + 1] = link[s[i]]
    BY DEF WalkedAlong
  <1>3. x \in FreeNodes(p) /\ \A i \in 1 .. Len(s) : s[i] # x
    BY <1>2 DEF ToSet
  <1> HIDE DEF s, x
  <1>4. /\ r \in Seq(FreeNodes(p)) /\ Len(r) = Len(s) + 1 /\ r[Len(s) + 1] = x
        /\ \A i \in 1 .. Len(s) : r[i] = s[i]
    BY <1>2, <1>3
  <1> HIDE DEF r
  <1>5. \A i, j \in 1 .. Len(r) : r[i] = r[j] => i = j
    <2> TAKE i, j \in 1 .. Len(r)
    <2>1. /\ i \in 1 .. Len(s) \/ i = Len(s) + 1
          /\ j \in 1 .. Len(s) \/ j = Len(s) + 1
      BY <1>2, <1>4
    <2> QED
      BY <1>2, <1>3, <1>4, <2>1
  <1>6. r # <<>> /\ r[1] = first
    BY <1>2, <1>4
  <1>7. \A i \in 1 .. Len(r) - 1 : r[i + 1] = link[r[i]]
    <2> TAKE i \in 1 .. Len(r) - 1
    <2>1. CASE i = Len(s)
      BY <1>2, <1>4, <2>1
    <2>2. CASE i # Len(s)
      <3>1. i \in 1 .. Len(s) /\ i + 1 \in 1 .. Len(s) /\ i \in 1 .. Len(s) - 1
        BY <1>2, <1>4, <2>2
      <3> QED
        BY <1>2, <1>4, <3>1
    <2> QED
      BY <2>1, <2>2
  <1> QED
    BY <1>1, <1>4, <1>5, <1>6, <1>7 DEF WalkedAlong, s

\* Distinct free nodes are no more than there are members.
LEMMA DistinctShort ==
    ASSUME NEW p, IsFiniteSet(Members(p)), NEW s \in Seq(FreeNodes(p)),
           \A i, j \in 1 .. Len(s) : s[i] = s[j] => i = j
    PROVE  Len(s) \in Nat /\ Len(s) <= Cardinality(Members(p))
  <1>0. s \in [1 .. Len(s) -> Members(p)] /\ Len(s) \in Nat
    <2>1. s \in Seq(Members(p))
      BY DEF FreeNodes
    <2> QED
      BY <2>1
  <1>1. IsFiniteSet(1 .. Len(s)) /\ Cardinality(1 .. Len(s)) = Len(s)
    <2>1. Len(s) \in Int /\ 1 \in Int
      BY <1>0
    <2>2. IsFiniteSet(1 .. Len(s)) /\ Cardinality(1 .. Len(s)) = IF 1 > Len(s) THEN 0 ELSE Len(s) - 1 + 1
      BY <2>1, FS_Interval
    <2> QED
      BY <1>0, <2>2
  <1>2. Cardinality(Members(p)) \in Nat
    BY FS_CardinalityType
  <1>3. ASSUME Cardinality(Members(p)) < Len(s) PROVE FALSE
    <2>1. \E x, y \in 1 .. Len(s) : x # y /\ s[x] = s[y]
      BY <1>0, <1>1, <1>3, FS_PigeonHole
    <2> QED
      BY <2>1
  <1> QED
    BY <1>0, <1>2, <1>3

\* The rounds of a walk are enough for it to stop, whatever the pool is like.
LEMMA WalkStops ==
    ASSUME NEW p, IsFiniteSet(Members(p)), NEW first, NEW link,
           NEW w, w = Walk(p, first, link)
    PROVE  WalkedAlong(p, first, link, w) /\ w.at \notin FreeNodes(p) \ ToSet(w.path)
  <1> DEFINE n == Cardinality(Members(p)) + 1
             Going(v) == v.at \in FreeNodes(p) \ ToSet(v.path)
             Good(v, i) == WalkedAlong(p, first, link, v) /\ (Going(v) => Len(v.path) = i)
  <1>0. n \in Nat /\ n = Cardinality(Members(p)) + 1 /\ Cardinality(Members(p)) \in Nat
    BY FS_CardinalityType
  <1> HIDE DEF n
  <1>1. PICK walk : Rounds(p, first, link, n, walk) /\ Walk(p, first, link) = walk[n]
    BY <1>0, WalkInRounds
  <1> DEFINE T == {i \in 0 .. n : Good(walk[i], i)}
  <1>2. 0 \in T
    <2>1. walk[0] = [path |-> <<>>, at |-> first]
      BY <1>0, <1>1 DEF Rounds
    <2> DEFINE v == walk[0]
    <2>2. v.path = <<>> /\ v.at = first
      BY <2>1
    <2> HIDE DEF v
    <2>3. Len(v.path) = 0 /\ v.path \in Seq(FreeNodes(p))
      BY <2>2
    <2>4. WalkedAlong(p, first, link, v)
      BY <2>2, <2>3 DEF WalkedAlong
    <2>5. Good(v, 0)
      BY <2>3, <2>4
    <2> HIDE DEF Good
    <2> QED
      BY <1>0, <2>5 DEF v
  <1>3. ASSUME NEW i \in 1 .. n, i - 1 \in T PROVE i \in T
    <2> DEFINE u == walk[i - 1]
               v == walk[i]
    <2>1. v = WalkRound(p, link, u) /\ Good(u, i - 1)
      BY <1>0, <1>1, <1>3 DEF Rounds
    <2> HIDE DEF u, v
    <2>2. CASE Going(u)
      <3>1. WalkedAlong(p, first, link, v) /\ Len(v.path) = Len(u.path) + 1
        BY <2>1, <2>2, RoundNotesOne
      <3> QED
        BY <1>0, <2>1, <2>2, <3>1 DEF v
    <2>3. CASE ~Going(u)
      <3>1. v = u
        BY <2>1, <2>3 DEF WalkRound
      <3> QED
        BY <2>1, <2>3, <3>1 DEF v
    <2> QED
      BY <2>2, <2>3
  <1> HIDE DEF T
  <1>4. \A i \in 0 .. n : i \in T
    BY <1>0, <1>2, <1>3, CountUp
  <1>5. Good(w, n)
    BY <1>0, <1>1, <1>4 DEF T
  <1>6. ASSUME Going(w) PROVE FALSE
    <2>1. Len(w.path) \in Nat /\ Len(w.path) <= Cardinality(Members(p)) /\ Len(w.path) = n
      BY <1>5, <1>6, DistinctShort DEF WalkedAlong
    <2> QED
      BY <1>0, <2>1
  <1> QED
    BY <1>5, <1>6

\* A walk along a sequence of free nodes notes them all and comes to nothing.
LEMMA WalkAlong ==
    ASSUME NEW p \in Pool, IsFiniteSet(Members(p)),
           NEW t \in Seq(FreeNodes(p)), Len(t) <= Cardinality(Members(p)),
           \A i, j \in 1 .. Len(t) : t[i] = t[j] => i = j,
           NEW first, first = Ahead(t, 0),
           NEW link, \A i \in 1 .. Len(t) : link[t[i]] = Ahead(t, i)
    PROVE  Walk(p, first, link) = [path |-> t, at |-> Nil]
  <1> DEFINE n == Cardinality(Members(p)) + 1
             upto(i) == IF i < Len(t) THEN i ELSE Len(t)
             State(i) == [path |-> SubSeq(t, 1, upto(i)), at |-> Ahead(t, upto(i))]
  <1>0. n \in Nat /\ Len(t) \in Nat /\ Len(t) <= n
    BY FS_CardinalityType
  <1>1. PICK walk : Rounds(p, first, link, n, walk) /\ Walk(p, first, link) = walk[n]
    BY <1>0, WalkInRounds
  <1>2. \A i \in 0 .. n : walk[i] = State(i)
    <2> DEFINE T == {i \in 0 .. n : walk[i] = State(i)}
    <2>1. 0 \in T
      <3>1. walk[0] = [path |-> <<>>, at |-> first]
        BY <1>0, <1>1 DEF Rounds
      <3>2. upto(0) = 0 /\ SubSeq(t, 1, 0) = <<>>
        BY <1>0
      <3> QED
        BY <1>0, <3>1, <3>2
    <2>2. ASSUME NEW i \in 1 .. n, i - 1 \in T PROVE i \in T
      <3>1. walk[i] = WalkRound(p, link, State(i - 1))
        BY <1>0, <1>1, <2>2 DEF Rounds
      <3>2. ASSUME i <= Len(t) PROVE walk[i] = State(i)
        <4>1. upto(i) = i /\ upto(i - 1) = i - 1 /\ i \in 1 .. Len(t)
          BY <1>0, <3>2
        <4> DEFINE w == SubSeq(t, 1, i - 1)
        <4>0. Ahead(t, i - 1) = t[i]
          BY <1>0, <4>1 DEF Ahead
        <4>2. State(i - 1).at = t[i] /\ State(i - 1).path = w
          <5>1. State(i - 1) = [path |-> w, at |-> Ahead(t, i - 1)]
            BY <4>1
          <5> HIDE DEF State, w
          <5> QED
            BY <4>0, <5>1
        <4>3. Len(w) = i - 1 /\ DOMAIN w = 1 .. i - 1 /\ \A j \in 1 .. i - 1 : w[j] = t[j]
          BY <1>0, <4>1
        <4>4. t[i] \notin ToSet(w) /\ t[i] \in FreeNodes(p)
          BY <1>0, <4>1, <4>3 DEF ToSet
        <4>5. Append(w, t[i]) = SubSeq(t, 1, i) /\ link[t[i]] = Ahead(t, i)
          BY <4>1, NextPrefix
        <4>7. State(i) = [path |-> SubSeq(t, 1, i), at |-> Ahead(t, i)]
          BY <4>1
        <4> HIDE DEF State, w, upto
        <4>6. WalkRound(p, link, State(i - 1)) = [path |-> SubSeq(t, 1, i), at |-> Ahead(t, i)]
          BY <4>2, <4>4, <4>5 DEF WalkRound
        <4> QED
          BY <3>1, <4>6, <4>7
      <3>3. ASSUME ~(i <= Len(t)) PROVE walk[i] = State(i)
        <4>1. upto(i) = Len(t) /\ upto(i - 1) = Len(t)
          BY <1>0, <3>3
        <4>0. Ahead(t, Len(t)) = Nil
          BY <1>0 DEF Ahead
        <4>2. State(i - 1).at = Nil /\ State(i) = State(i - 1)
          BY <4>0, <4>1
        <4>3. Nil \notin FreeNodes(p)
          BY PoolShape, KeysAreValid DEF FreeNodes
        <4> HIDE DEF State
        <4> QED
          BY <3>1, <4>2, <4>3 DEF WalkRound
      <3>4. walk[i] = State(i)
        BY <3>2, <3>3
      <3>5. i \in 0 .. n
        BY <1>0
      <3> HIDE DEF State, n
      <3> QED
        BY <3>4, <3>5
    <2> HIDE DEF T
    <2>3. \A i \in 0 .. n : i \in T
      BY <1>0, <2>1, <2>2, CountUp
    <2> QED
      BY <2>3 DEF T
  <1>3. State(n) = [path |-> t, at |-> Nil]
    <2>1. upto(n) = Len(t) /\ Ahead(t, Len(t)) = Nil
      BY <1>0 DEF Ahead
    <2>2. SubSeq(t, 1, Len(t)) = t
      OBVIOUS
    <2> QED
      BY <2>1, <2>2
  <1> QED
    BY <1>0, <1>1, <1>2, <1>3

\* The two link fields carry the sentinel together, so both views agree.
LEMMA FreeNodesFree ==
    ASSUME NEW p \in Pool, WellFormed(p)
    PROVE  FreeNodes(p) = Free(p)
  BY DEF FreeNodes, Markers, Free, WellFormed, NoHalfAllocated

\* A sequence turned round, and turned round again.
LEMMA TurnedRound ==
    ASSUME NEW S, NEW s \in Seq(S)
    PROVE  /\ Reverse(s) \in Seq(S) /\ Len(Reverse(s)) = Len(s)
           /\ \A i \in 1 .. Len(s) : /\ Len(s) - i + 1 \in 1 .. Len(s)
                                    /\ Len(s) - (Len(s) - i + 1) + 1 = i
                                    /\ Reverse(s)[i] = s[Len(s) - i + 1]
           /\ Reverse(Reverse(s)) = s
  <1>1. \A u \in Seq(S) : /\ Reverse(u) \in Seq(S) /\ Len(Reverse(u)) = Len(u)
                          /\ \A i \in 1 .. Len(u) : Reverse(u)[i] = u[Len(u) - i + 1]
    BY DEF Reverse
  <1>2. \A i \in 1 .. Len(s) : /\ Len(s) - i + 1 \in 1 .. Len(s)
                               /\ Len(s) - (Len(s) - i + 1) + 1 = i
    OBVIOUS
  <1> DEFINE t == Reverse(s)
             u == Reverse(t)
  <1>3. t \in Seq(S) /\ Len(t) = Len(s) /\ \A i \in 1 .. Len(s) : t[i] = s[Len(s) - i + 1]
    BY <1>1
  <1> HIDE DEF t
  <1>4. u \in Seq(S) /\ Len(u) = Len(s) /\ \A i \in 1 .. Len(s) : u[i] = t[Len(s) - i + 1]
    BY <1>1, <1>3
  <1> HIDE DEF u
  <1>5. \A i \in 1 .. Len(s) : u[i] = s[i]
    BY <1>2, <1>3, <1>4
  <1>6. u = s
    BY <1>4, <1>5, SeqEqual
  <1> QED
    BY <1>2, <1>3, <1>6 DEF t, u

\* Forward, the walk meets the whole list; backward, its reverse.
LEMMA WalksMeetTheList ==
    ASSUME NEW p \in Pool, WellFormed(p), IsFiniteSet(Members(p)), NEW s, Lists(s, p)
    PROVE  /\ WalkForward(p) = [path |-> s, at |-> Nil]
           /\ WalkBackward(p) = [path |-> Reverse(s), at |-> Nil]
  <1>0. /\ s \in Seq(Free(p)) /\ Len(s) \in Nat /\ \A m \in 1 .. Len(s) : s[m] \in Free(p)
        /\ Chain(s, p) /\ Onward(p, s) = Nil /\ Nil \notin Free(p)
        /\ Free(p) \subseteq Members(p) /\ FreeNodes(p) = Free(p)
    BY PoolShape, KeysAreValid, FreeNodesFree DEF Lists, Chain, Free
  <1>1. Len(s) <= Cardinality(Members(p))
    BY <1>0, ChainShort
  <1>2. \A i, j \in 1 .. Len(s) : s[i] = s[j] => i = j
    BY <1>0, ChainDistinct
  <1>3. \A j \in 1 .. Len(s) : p.entry[s[j]].next = Ahead(s, j)
    <2> TAKE j \in 1 .. Len(s)
    <2>1. CASE j = Len(s)
      BY <1>0, <2>1 DEF Onward, Ahead
    <2>2. CASE j # Len(s)
      BY <1>0, <2>2 DEF Chain, Ahead
    <2> QED
      BY <2>1, <2>2
  <1>4. p.head = Ahead(s, 0)
    BY <1>0 DEF Chain, Onward, Ahead
  <1>5. WalkForward(p) = [path |-> s, at |-> Nil]
    <2> DEFINE link == [k \in Members(p) |-> p.entry[k].next]
    <2>1. \A i \in 1 .. Len(s) : link[s[i]] = Ahead(s, i)
      BY <1>0, <1>3
    <2> HIDE DEF link
    <2>2. Walk(p, p.head, link) = [path |-> s, at |-> Nil]
      BY <1>0, <1>1, <1>2, <1>4, <2>1, WalkAlong
    <2> QED
      BY <2>2 DEF WalkForward, link
  <1> DEFINE t == Reverse(s)
  <1>6. /\ t \in Seq(Free(p)) /\ Len(t) = Len(s)
        /\ \A i \in 1 .. Len(s) : t[i] = s[Len(s) - i + 1] /\ Len(s) - i + 1 \in 1 .. Len(s)
    BY <1>0, TurnedRound
  <1> HIDE DEF t
  <1>7. \A i, j \in 1 .. Len(t) : t[i] = t[j] => i = j
    <2> TAKE i, j \in 1 .. Len(t)
    <2> HAVE t[i] = t[j]
    <2>1. Len(s) - i + 1 = Len(s) - j + 1
      <3>1. /\ Len(s) - i + 1 \in 1 .. Len(s) /\ Len(s) - j + 1 \in 1 .. Len(s)
            /\ s[Len(s) - i + 1] = s[Len(s) - j + 1]
        BY <1>6
      <3> QED
        BY <1>2, <3>1
    <2> QED
      BY <1>0, <1>6, <2>1
  <1>8. \A i \in 1 .. Len(t) : p.entry[t[i]].prev = Ahead(t, i)
    <2> TAKE i \in 1 .. Len(t)
    <2> DEFINE j == Len(s) - i + 1
    <2>1. /\ j \in 1 .. Len(s) /\ t[i] = s[j] /\ (j = 1 => ~(i < Len(t)))
          /\ (j # 1 => j - 1 \in 1 .. Len(s) /\ i < Len(t) /\ i + 1 \in 1 .. Len(s)
                       /\ Len(s) - (i + 1) + 1 = j - 1)
      BY <1>0, <1>6
    <2> HIDE DEF j
    <2>2. CASE j = 1
      <3>1. s[j] = p.head /\ ~(i < Len(t))
        BY <1>0, <2>1, <2>2 DEF Chain
      <3>2. p.entry[s[j]].prev = Nil
        BY <1>0, <2>1, <3>1 DEF WellFormed, EndsAgree
      <3> QED
        BY <2>1, <3>1, <3>2 DEF Ahead
    <2>3. CASE j # 1
      <3>1. j - 1 \in 1 .. Len(s) /\ p.entry[s[j - 1]].next = s[j]
        <4>1. (j - 1) + 1 = j /\ j - 1 \in 1 .. Len(s) - 1
          BY <1>0, <2>1, <2>3
        <4> QED
          BY <1>0, <2>1, <2>3, <4>1 DEF Chain
      <3>2. p.entry[s[j]].prev = s[j - 1]
        <4>1. s[j - 1] \in Free(p) /\ s[j] # Nil
          BY <1>0, <2>1, <3>1
        <4> QED
          BY <3>1, <4>1 DEF WellFormed, LinksMutual
      <3>3. t[i + 1] = s[j - 1]
        BY <1>6, <2>1, <2>3
      <3> QED
        BY <2>1, <2>3, <3>2, <3>3 DEF Ahead
    <2> QED
      BY <2>2, <2>3
  <1>9. p.tail = Ahead(t, 0)
    <2>1. CASE s = <<>>
      BY <1>0, <1>4, <1>6, <2>1 DEF Ahead, WellFormed, EndsAgree
    <2>2. CASE s # <<>>
      <3>1. 1 \in 1 .. Len(s) /\ Len(s) \in 1 .. Len(s) /\ Len(s) - 1 + 1 = Len(s)
        BY <1>0, <2>2
      <3>2. t[1] = s[Len(s)] /\ p.entry[s[Len(s)]].next = Nil
        BY <1>0, <1>3, <1>6, <3>1 DEF Ahead
      <3>3. s[Len(s)] = p.tail
        BY <1>0, <3>1, <3>2 DEF WellFormed, EndsAgree
      <3> QED
        BY <1>0, <1>6, <3>1, <3>2, <3>3 DEF Ahead
    <2> QED
      BY <2>1, <2>2
  <1>10. WalkBackward(p) = [path |-> t, at |-> Nil]
    <2> DEFINE link == [k \in Members(p) |-> p.entry[k].prev]
    <2>1. \A i \in 1 .. Len(t) : link[t[i]] = Ahead(t, i)
      BY <1>0, <1>6, <1>8
    <2> HIDE DEF link
    <2>2. Walk(p, p.tail, link) = [path |-> t, at |-> Nil]
      BY <1>0, <1>1, <1>6, <1>7, <1>9, <2>1, WalkAlong
    <2> QED
      BY <2>2 DEF WalkBackward, link
  <1> QED
    BY <1>5, <1>10 DEF t

\* A sound list none of whose nodes is locked gives check_invariants nothing to
\* report.
LEMMA SoundListPasses ==
    ASSUME NEW p \in Pool, WellFormed(p), IsFiniteSet(Members(p)),
           NEW locked, Free(p) \cap locked = {}
    PROVE  CheckInvariants(p, locked) = {}
  <1> DEFINE s == GetFreeList(p)
  <1>1. Lists(s, p)
    BY WalkLists
  <1>2. WalkForward(p) = [path |-> s, at |-> Nil] /\ WalkBackward(p) = [path |-> Reverse(s), at |-> Nil]
    BY <1>1, WalksMeetTheList
  <1>3. /\ s \in Seq(Free(p)) /\ Len(s) \in Nat /\ {s[i] : i \in 1 .. Len(s)} = Free(p)
        /\ Nil \notin Free(p) /\ Free(p) \subseteq Members(p) /\ FreeNodes(p) = Free(p)
    BY <1>1, ListComplete, PoolShape, KeysAreValid, FreeNodesFree DEF Lists, Chain, Free
  <1> HIDE DEF s
  <1>4. ToSet(s) = Free(p) /\ ToSet(Reverse(s)) = Free(p)
    <2>1. DOMAIN s = 1 .. Len(s)
      BY <1>3
    <2>2. /\ Len(Reverse(s)) = Len(s) /\ DOMAIN Reverse(s) = 1 .. Len(s)
          /\ \A i \in 1 .. Len(s) : Reverse(s)[i] = s[Len(s) - i + 1] /\ Len(s) - i + 1 \in 1 .. Len(s)
      <3>1. /\ Reverse(s) \in Seq(Free(p)) /\ Len(Reverse(s)) = Len(s)
            /\ \A i \in 1 .. Len(s) : Len(s) - i + 1 \in 1 .. Len(s) /\ Reverse(s)[i] = s[Len(s) - i + 1]
        BY <1>3, TurnedRound, Zenon
      <3>2. DOMAIN Reverse(s) = 1 .. Len(Reverse(s))
        BY <3>1
      <3> QED
        BY <3>1, <3>2, Zenon
    <2>3. ASSUME NEW x \in Free(p) PROVE x \in ToSet(Reverse(s))
      <3>1. PICK i \in 1 .. Len(s) : s[i] = x
        BY <1>3
      <3>2. Len(s) - i + 1 \in 1 .. Len(s) /\ Len(s) - (Len(s) - i + 1) + 1 = i
        BY <1>3, TurnedRound
      <3> QED
        BY <2>2, <3>1, <3>2 DEF ToSet
    <2>4. ASSUME NEW x \in ToSet(Reverse(s)) PROVE x \in Free(p)
      BY <1>3, <2>2, <2>4 DEF ToSet
    <2> QED
      BY <1>3, <2>1, <2>3, <2>4 DEF ToSet
  <1>5. Listing(WalkForward(p)) = Reverse(Listing(WalkBackward(p)))
    <2>1. Listing(WalkForward(p)) = s
      BY <1>2, <1>3 DEF Listing
    <2>2. Listing(WalkBackward(p)) = Reverse(s)
      <3>1. Reverse(s) \in Seq(Free(p))
        BY <1>3, TurnedRound
      <3>2. Reverse(s) \o <<>> = Reverse(s)
        BY <3>1
      <3> QED
        BY <1>2, <3>2 DEF Listing
    <2>3. Reverse(Reverse(s)) = s
      BY <1>3, TurnedRound
    <2> QED
      BY <2>1, <2>2, <2>3
  <1>6. ~Cyclic(WalkForward(p)) /\ ~Cyclic(WalkBackward(p))
    BY <1>2, <1>3, <1>4 DEF Cyclic
  <1>7. ToSet(WalkForward(p).path) = FreeNodes(p)
    BY <1>2, <1>3, <1>4
  <1>8. Members(p) = {} => EmptyViolations(p) = {}
    BY <1>3 DEF EmptyViolations, WellFormed, EndsAgree
  <1>9. EntryViolations(p, locked) = {}
    <2>1. p.head = Nil <=> p.tail = Nil
      BY DEF WellFormed, EndsAgree
    <2>2. /\ p.head # Nil => p.head \in Members(p)
          /\ p.tail # Nil => p.tail \in Members(p)
          /\ p.head \in FreeNodes(p) => p.entry[p.head].prev = Nil
          /\ p.tail \in FreeNodes(p) => p.entry[p.tail].next = Nil
      BY <1>3 DEF WellFormed, EndsAgree
    <2>3. \A k \in FreeNodes(p) : Allocated \notin {p.entry[k].prev, p.entry[k].next}
      BY <1>3 DEF WellFormed, NoHalfAllocated, Free
    <2> QED
      BY <1>3, <2>1, <2>2, <2>3 DEF EntryViolations
  <1> QED
    BY <1>5, <1>6, <1>7, <1>8, <1>9 DEF CheckInvariants

\* A mark names the key it stands for.
LEMMA MarksDiffer ==
    ASSUME NEW x, NEW y, Mark(x) = Mark(y)
    PROVE  x = y
  BY Zenon DEF Mark

\* One element more, joined on.
LEMMA JoinOne ==
    ASSUME NEW S, NEW s \in Seq(S), NEW x \in S
    PROVE  s \o <<x>> = Append(s, x)
  OBVIOUS

\* The list a walk returns that met no cycle: its path, and a mark if it stopped
\* at anything.
LEMMA ListingShape ==
    ASSUME NEW S, NEW w, w.path \in Seq(S), ~Cyclic(w)
    PROVE  Listing(w) = IF w.at = Nil THEN w.path ELSE Append(w.path, Mark(w.at))
  <1> DEFINE s == w.path
             m == Mark(w.at)
             U == S \cup {m}
  <1>1. /\ s \in Seq(S) /\ m \in U
        /\ Listing(w) = IF w.at = Nil THEN s \o <<>> ELSE s \o <<m>>
    BY DEF Listing
  <1> HIDE DEF s, m
  <1>2. s \in Seq(U)
    BY <1>1
  <1> HIDE DEF U
  <1>3. s \o <<m>> = Append(s, m)
    BY <1>1, <1>2, JoinOne
  <1>4. s \o <<>> = s
    BY <1>1
  <1> QED
    BY <1>1, <1>3, <1>4 DEF s, m

\* Two walks whose lists mirror each other have both come to nothing, or have
\* both stopped at the same key before they met a free node.
LEMMA ListingsMirror ==
    ASSUME NEW S, \A x : Mark(x) \notin S,
           NEW f, f.path \in Seq(S), ~Cyclic(f),
           NEW b, b.path \in Seq(S), ~Cyclic(b),
           Listing(f) = Reverse(Listing(b))
    PROVE  \/ f.at = Nil /\ b.at = Nil /\ b.path = Reverse(f.path)
           \/ f.at # Nil /\ b.at = f.at /\ f.path = <<>> /\ b.path = <<>>
  <1> DEFINE s  == f.path
             t  == b.path
             lf == Listing(f)
             lb == Listing(b)
             mf == Mark(f.at)
             mb == Mark(b.at)
             U  == S \cup {mf, mb}
  <1>1. /\ s \in Seq(S) /\ t \in Seq(S) /\ Len(s) \in Nat /\ Len(t) \in Nat
        /\ mf \notin S /\ mb \notin S /\ (mf = mb => f.at = b.at)
    BY MarksDiffer
  <1>2. /\ f.at = Nil => lf = s
        /\ f.at # Nil => /\ lf \in Seq(S \cup {mf}) /\ Len(lf) = Len(s) + 1
                         /\ lf[Len(s) + 1] = mf
                         /\ \A i \in 1 .. Len(s) : lf[i] = s[i]
    <2>1. lf = IF f.at = Nil THEN s ELSE Append(s, mf)
      BY ListingShape
    <2>2. s \in Seq(S \cup {mf}) /\ mf \in S \cup {mf}
      BY <1>1
    <2> HIDE DEF lf, mf, s
    <2> QED
      BY <2>1, <2>2
  <1>3. /\ b.at = Nil => lb = t
        /\ b.at # Nil => /\ lb \in Seq(S \cup {mb}) /\ Len(lb) = Len(t) + 1
                         /\ lb[Len(t) + 1] = mb
                         /\ \A i \in 1 .. Len(t) : lb[i] = t[i]
    <2>1. lb = IF b.at = Nil THEN t ELSE Append(t, mb)
      BY ListingShape
    <2>2. t \in Seq(S \cup {mb}) /\ mb \in S \cup {mb}
      BY <1>1
    <2> HIDE DEF lb, mb, t
    <2> QED
      BY <2>1, <2>2
  <1>4. lf = Reverse(lb)
    OBVIOUS
  <1> HIDE DEF s, t, lf, lb, mf, mb
  <1>5. lb \in Seq(U) /\ Len(lb) \in Nat
    <2>1. CASE b.at = Nil
      BY <1>1, <1>3, <2>1
    <2>2. CASE b.at # Nil
      <3>1. lb \in Seq(S \cup {mb})
        BY <1>3, <2>2
      <3> QED
        BY <3>1
    <2> QED
      BY <2>1, <2>2
  <1> HIDE DEF U
  <1>6. /\ Len(lf) = Len(lb) /\ Reverse(lf) = lb
        /\ \A i \in 1 .. Len(lb) : /\ Len(lb) - i + 1 \in 1 .. Len(lb)
                                   /\ lf[i] = lb[Len(lb) - i + 1]
    BY <1>4, <1>5, TurnedRound
  <1>7. CASE f.at = Nil
    <2>1. lf = s
      BY <1>2, <1>7
    <2>2. b.at = Nil
      <3> SUFFICES ASSUME b.at # Nil PROVE FALSE
        OBVIOUS
      <3>1. Len(lb) = Len(t) + 1 /\ lb[Len(lb)] = mb /\ 1 \in 1 .. Len(lb) /\ Len(lb) - 1 + 1 = Len(lb)
        BY <1>1, <1>3
      <3>2. lf[1] = mb
        BY <1>6, <3>1
      <3>3. s[1] \in S
        BY <1>1, <1>6, <2>1, <3>1
      <3> QED
        BY <1>1, <2>1, <3>2, <3>3
    <2> QED
      BY <1>3, <1>6, <1>7, <2>1, <2>2 DEF s, t
  <1>8. CASE f.at # Nil
    <2>1. /\ Len(lb) = Len(s) + 1 /\ lf[Len(lb)] = mf /\ Len(lb) \in 1 .. Len(lb)
          /\ Len(lb) - Len(lb) + 1 = 1
      BY <1>1, <1>2, <1>6, <1>8
    <2>2. lb[1] = mf
      BY <1>6, <2>1
    <2>3. b.at # Nil
      <3> SUFFICES ASSUME b.at = Nil PROVE FALSE
        OBVIOUS
      <3>1. lb = t
        BY <1>3
      <3>2. t[1] \in S
        BY <1>1, <2>1, <3>1
      <3> QED
        BY <1>1, <2>2, <3>1, <3>2
    <2>4. Len(t) = 0
      <3> SUFFICES ASSUME Len(t) # 0 PROVE FALSE
        OBVIOUS
      <3>1. 1 \in 1 .. Len(t) /\ t[1] \in S
        BY <1>1
      <3>2. lb[1] = t[1]
        BY <1>3, <2>3, <3>1
      <3> QED
        BY <1>1, <2>2, <3>1, <3>2
    <2>5. Len(s) = 0 /\ lb[1] = mb
      BY <1>1, <1>3, <2>1, <2>3, <2>4
    <2>6. s = <<>> /\ t = <<>>
      BY <1>1, <2>4, <2>5
    <2> QED
      BY <1>1, <1>8, <2>2, <2>5, <2>6 DEF s, t
  <1> QED
    BY <1>7, <1>8

\* A sequence of all free nodes that the links run through from head to tail,
\* both ways, is a sound list.
LEMMA ListIsSound ==
    ASSUME NEW p \in Pool, NEW s \in Seq(FreeNodes(p)),
           {s[i] : i \in 1 .. Len(s)} = FreeNodes(p),
           \A i, j \in 1 .. Len(s) : s[i] = s[j] => i = j,
           \A k \in FreeNodes(p) : Allocated \notin {p.entry[k].prev, p.entry[k].next},
           p.head = Ahead(s, 0), \A i \in 1 .. Len(s) : p.entry[s[i]].next = Ahead(s, i),
           p.tail = (IF Len(s) = 0 THEN Nil ELSE s[Len(s)]),
           \A i \in 1 .. Len(s) : p.entry[s[i]].prev = IF i = 1 THEN Nil ELSE s[i - 1]
    PROVE  WellFormed(p)
  <1>1. NoHalfAllocated(p) /\ Free(p) = FreeNodes(p)
    <2>1. ASSUME NEW k \in Markers(p)
          PROVE  p.entry[k].prev = Allocated /\ p.entry[k].next = Allocated
      BY DEF Markers
    <2>2. ASSUME NEW k \in FreeNodes(p)
          PROVE  p.entry[k].prev # Allocated /\ p.entry[k].next # Allocated
      OBVIOUS
    <2>3. FreeNodes(p) = Members(p) \ Markers(p) /\ Markers(p) \subseteq Members(p)
      BY DEF FreeNodes, Markers
    <2>4. NoHalfAllocated(p)
      BY <2>1, <2>2, <2>3 DEF NoHalfAllocated
    <2>5. Free(p) = FreeNodes(p)
      BY <2>1, <2>2, <2>3 DEF Free
    <2> QED
      BY <2>4, <2>5
  <1>2. /\ Len(s) \in Nat /\ Nil \notin Free(p) /\ \A i \in 1 .. Len(s) : s[i] \in Free(p)
        /\ \A k \in Free(p) : \E i \in 1 .. Len(s) : s[i] = k
    <2>1. Nil \notin Free(p)
      BY PoolShape, KeysAreValid DEF Free
    <2>2. Len(s) \in Nat /\ \A i \in 1 .. Len(s) : s[i] \in FreeNodes(p)
      OBVIOUS
    <2>3. ASSUME NEW k \in FreeNodes(p) PROVE \E i \in 1 .. Len(s) : s[i] = k
      <3>1. k \in {s[i] : i \in 1 .. Len(s)}
        OBVIOUS
      <3> QED
        BY <3>1
    <2> QED
      BY <1>1, <2>1, <2>2, <2>3
  <1>0. Len(s) \in Nat /\ \A i \in 1 .. Len(s) : s[i] \in Free(p) /\ s[i] # Nil
    BY <1>2
  <1>3. ASSUME NEW i \in 1 .. Len(s)
        PROVE  /\ i = 1 => p.head = s[i] /\ p.entry[s[i]].prev = Nil
               /\ i # 1 => /\ i - 1 \in 1 .. Len(s) /\ p.entry[s[i]].prev = s[i - 1]
                           /\ p.entry[s[i - 1]].next = s[i] /\ s[i] # p.head
               /\ i = Len(s) => p.tail = s[i] /\ p.entry[s[i]].next = Nil
               /\ i # Len(s) => /\ i + 1 \in 1 .. Len(s) /\ p.entry[s[i]].next = s[i + 1]
                                /\ p.entry[s[i + 1]].prev = s[i] /\ s[i] # p.tail
    <2>1. /\ 1 \in 1 .. Len(s) /\ Len(s) \in 1 .. Len(s) /\ Len(s) # 0 /\ 0 < Len(s)
          /\ p.head = s[1] /\ p.tail = s[Len(s)]
      BY <1>0 DEF Ahead
    <2>2. i # 1 => i - 1 \in 1 .. Len(s) /\ i - 1 < Len(s) /\ (i - 1) + 1 = i
      BY <1>0
    <2>3. i # Len(s) => i + 1 \in 1 .. Len(s) /\ i < Len(s) /\ (i + 1) - 1 = i /\ i + 1 # 1
      BY <1>0
    <2>4. i # 1 => /\ p.entry[s[i]].prev = s[i - 1] /\ p.entry[s[i - 1]].next = s[i]
                   /\ s[i] # p.head
      <3> SUFFICES ASSUME i # 1 PROVE /\ p.entry[s[i]].prev = s[i - 1]
                                      /\ p.entry[s[i - 1]].next = s[i] /\ s[i] # p.head
        OBVIOUS
      <3>1. p.entry[s[i - 1]].next = Ahead(s, i - 1) /\ Ahead(s, i - 1) = s[i]
        BY <2>2 DEF Ahead
      <3> QED
        BY <2>1, <3>1
    <2>5. i # Len(s) => /\ p.entry[s[i]].next = s[i + 1] /\ p.entry[s[i + 1]].prev = s[i]
                        /\ s[i] # p.tail
      <3> SUFFICES ASSUME i # Len(s) PROVE /\ p.entry[s[i]].next = s[i + 1]
                                           /\ p.entry[s[i + 1]].prev = s[i] /\ s[i] # p.tail
        OBVIOUS
      <3>1. p.entry[s[i]].next = Ahead(s, i) /\ Ahead(s, i) = s[i + 1]
        BY <2>3 DEF Ahead
      <3>2. p.entry[s[i + 1]].prev = s[i]
        BY <2>3
      <3> QED
        BY <2>1, <3>1, <3>2
    <2>6. i = 1 => p.entry[s[i]].prev = Nil
      OBVIOUS
    <2>7. i = Len(s) => p.entry[s[i]].next = Nil
      BY <1>2 DEF Ahead
    <2> QED
      BY <2>1, <2>2, <2>3, <2>4, <2>5, <2>6, <2>7
  <1>4. EndsAgree(p)
    <2>1. CASE Len(s) = 0
      <3>1. Free(p) = {} /\ p.head = Nil /\ p.tail = Nil
        BY <1>2, <2>1 DEF Ahead
      <3> QED
        BY <3>1 DEF EndsAgree
    <2>2. CASE Len(s) # 0
      <3>1. 1 \in 1 .. Len(s) /\ Len(s) \in 1 .. Len(s)
        BY <1>2, <2>2
      <3>2. p.head = s[1] /\ p.tail = s[Len(s)]
        BY <1>3, <3>1
      <3>3. p.head \in Free(p) /\ p.tail \in Free(p) /\ p.head # Nil /\ p.tail # Nil
        BY <1>0, <3>1, <3>2
      <3>4. ASSUME NEW k \in Free(p)
            PROVE  /\ p.entry[k].prev = Nil <=> k = p.head
                   /\ p.entry[k].next = Nil <=> k = p.tail
        <4>1. PICK i \in 1 .. Len(s) : s[i] = k
          BY <1>2
        <4>2. ASSUME i # 1 PROVE p.entry[k].prev # Nil /\ k # p.head
          <5>1. i - 1 \in 1 .. Len(s) /\ p.entry[s[i]].prev = s[i - 1] /\ s[i] # p.head
            BY <1>3, <4>2
          <5>2. s[i - 1] # Nil
            BY <1>0, <5>1
          <5> QED
            BY <4>1, <5>1, <5>2
        <4>3. ASSUME i # Len(s) PROVE p.entry[k].next # Nil /\ k # p.tail
          <5>1. i + 1 \in 1 .. Len(s) /\ p.entry[s[i]].next = s[i + 1] /\ s[i] # p.tail
            BY <1>3, <4>3
          <5>2. s[i + 1] # Nil
            BY <1>0, <5>1
          <5> QED
            BY <4>1, <5>1, <5>2
        <4>4. i = 1 => p.entry[k].prev = Nil /\ k = p.head
          BY <1>3, <4>1
        <4>5. i = Len(s) => p.entry[k].next = Nil /\ k = p.tail
          BY <1>3, <4>1
        <4> QED
          BY <4>2, <4>3, <4>4, <4>5
      <3> QED
        BY <3>3, <3>4 DEF EndsAgree
    <2> QED
      BY <2>1, <2>2
  <1>5. LinksMutual(p)
    <2>1. ASSUME NEW k \in Free(p)
          PROVE  /\ p.entry[k].next # Nil => /\ p.entry[k].next \in Free(p)
                                             /\ p.entry[p.entry[k].next].prev = k
                 /\ p.entry[k].prev # Nil => /\ p.entry[k].prev \in Free(p)
                                             /\ p.entry[p.entry[k].prev].next = k
      <3>1. PICK i \in 1 .. Len(s) : s[i] = k
        BY <1>2
      <3>2. ASSUME p.entry[k].next # Nil
            PROVE  p.entry[k].next \in Free(p) /\ p.entry[p.entry[k].next].prev = k
        <4>1. i # Len(s)
          BY <1>3, <3>1, <3>2
        <4>2. /\ i + 1 \in 1 .. Len(s) /\ p.entry[s[i]].next = s[i + 1]
              /\ p.entry[s[i + 1]].prev = s[i]
          BY <1>3, <4>1
        <4> QED
          BY <1>0, <3>1, <4>2, Zenon
      <3>3. ASSUME p.entry[k].prev # Nil
            PROVE  p.entry[k].prev \in Free(p) /\ p.entry[p.entry[k].prev].next = k
        <4>1. i # 1
          BY <1>3, <3>1, <3>3
        <4>2. /\ i - 1 \in 1 .. Len(s) /\ p.entry[s[i]].prev = s[i - 1]
              /\ p.entry[s[i - 1]].next = s[i]
          BY <1>3, <4>1
        <4> QED
          BY <1>0, <3>1, <4>2, Zenon
      <3> QED
        BY <3>2, <3>3
    <2> QED
      BY <2>1 DEF LinksMutual
  <1>6. Acyclic(p)
    <2>1. ASSUME NEW S \in SUBSET Free(p), S # {} PROVE \E k \in S : p.entry[k].next \notin S
      <3> DEFINE T == {m \in Nat : m < Len(s) /\ s[Len(s) - m] \in S}
      <3>1. T \subseteq Nat /\ T # {}
        <4>1. PICK k \in S : TRUE
          BY <2>1
        <4>2. PICK i \in 1 .. Len(s) : s[i] = k
          BY <1>2
        <4>3. Len(s) - i \in Nat /\ Len(s) - i < Len(s) /\ Len(s) - (Len(s) - i) = i
          BY <1>0
        <4> QED
          BY <4>1, <4>2, <4>3
      <3>2. PICK m \in T : \A x \in T : m <= x
        <4> HIDE DEF T
        <4> QED
          BY <3>1, LeastNumber
      <3>0. m \in Nat /\ m < Len(s)
        BY <3>2
      <3>3. PICK i \in 1 .. Len(s) : i = Len(s) - m
        BY <1>0, <3>0
      <3>4. s[i] \in S
        BY <3>2, <3>3
      <3>5. p.entry[s[i]].next \notin S
        <4>1. CASE i = Len(s)
          BY <1>2, <1>3, <4>1
        <4>2. CASE i # Len(s)
          <5>1. p.entry[s[i]].next = s[i + 1]
            BY <1>3, <4>2
          <5>2. m - 1 \in Nat /\ m - 1 < Len(s) /\ Len(s) - (m - 1) = i + 1 /\ ~(m <= m - 1)
            <6> DEFINE n == Len(s)
            <6>1. n \in Nat /\ m \in Nat /\ m < n /\ i = n - m /\ i # n
              BY <1>2, <3>0, <3>3, <4>2
            <6> HIDE DEF n
            <6>2. m - 1 \in Nat /\ m - 1 < n /\ n - (m - 1) = i + 1 /\ ~(m <= m - 1)
              BY <6>1
            <6> QED
              BY <6>2 DEF n
          <5>3. m - 1 \notin T
            BY <3>2, <5>2
          <5>4. ASSUME s[i + 1] \in S PROVE FALSE
            <6> DEFINE x == m - 1
            <6>1. x \in Nat /\ x < Len(s) /\ Len(s) - x = i + 1 /\ x \notin T
              BY <5>2, <5>3
            <6> HIDE DEF x
            <6>2. s[Len(s) - x] \in S
              BY <5>4, <6>1
            <6> QED
              BY <6>1, <6>2
          <5> QED
            BY <5>1, <5>4
        <4> QED
          BY <4>1, <4>2
      <3> QED
        BY <3>4, <3>5
    <2> QED
      BY <2>1 DEF Acyclic
  <1> QED
    BY <1>1, <1>4, <1>5, <1>6 DEF WellFormed

\* What check_invariants has checked when it reports nothing.
Passed(p, locked) ==
    /\ ~Cyclic(WalkForward(p)) /\ ~Cyclic(WalkBackward(p))
    /\ Listing(WalkForward(p)) = Reverse(Listing(WalkBackward(p)))
    /\ ToSet(WalkForward(p).path) = FreeNodes(p)
    /\ Members(p) = {} => p.head = Nil /\ p.tail = Nil
    /\ FreeNodes(p) \cap locked = {}
    /\ p.head # Nil => p.head \in Members(p)
    /\ p.tail # Nil => p.tail \in Members(p)
    /\ \A k \in FreeNodes(p) : Allocated \notin {p.entry[k].prev, p.entry[k].next}

\* Nothing reported: every one of its checks passed.
LEMMA NothingReported ==
    ASSUME NEW p, NEW locked, CheckInvariants(p, locked) = {}
    PROVE  Passed(p, locked)
  <1> DEFINE f == WalkForward(p)
             b == WalkBackward(p)
  <1>1. /\ {v \in {"forward cycle"} : Cyclic(f)} = {}
        /\ {v \in {"backward cycle"} : Cyclic(b)} = {}
        /\ {v \in {"walks differ"} : Listing(f) # Reverse(Listing(b))} = {}
        /\ {v \in {"free set differs"} : ToSet(f.path) # FreeNodes(p)} = {}
        /\ Members(p) = {} => EmptyViolations(p) = {}
        /\ Members(p) # {} => EntryViolations(p, locked) = {}
    BY Zenon DEF CheckInvariants
  <1> HIDE DEF f, b
  <1>2. /\ ~Cyclic(f) /\ ~Cyclic(b) /\ Listing(f) = Reverse(Listing(b))
        /\ ToSet(f.path) = FreeNodes(p)
    BY <1>1
  <1>3. CASE Members(p) = {}
    <2>1. {v \in {"empty pool has non-empty pointers"} : p.head # Nil \/ p.tail # Nil} = {}
      BY <1>1, <1>3 DEF EmptyViolations
    <2>2. p.head = Nil /\ p.tail = Nil
      BY <2>1
    <2>3. FreeNodes(p) = {}
      BY <1>3 DEF FreeNodes
    <2> QED
      BY <1>2, <2>2, <2>3 DEF Passed, f, b
  <1>4. CASE Members(p) # {}
    <2>1. /\ {v \in {"head missing"} : p.head # Nil /\ p.head \notin Members(p)} = {}
          /\ {v \in {"tail missing"} : p.tail # Nil /\ p.tail \notin Members(p)} = {}
          /\ {v \in {"free entry locked"} : FreeNodes(p) \cap locked # {}} = {}
          /\ {v \in {"half-allocated"} : \E k \in FreeNodes(p) :
                 Allocated \in {p.entry[k].prev, p.entry[k].next}} = {}
      BY <1>1, <1>4, Zenon DEF EntryViolations
    <2>2. /\ p.head # Nil => p.head \in Members(p)
          /\ p.tail # Nil => p.tail \in Members(p)
      BY <2>1
    <2>3. FreeNodes(p) \cap locked = {}
      BY <2>1
    <2>4. \A k \in FreeNodes(p) : Allocated \notin {p.entry[k].prev, p.entry[k].next}
      BY <2>1
    <2> QED
      BY <1>2, <1>4, <2>2, <2>3, <2>4, Zenon DEF Passed, f, b
  <1> QED
    BY <1>3, <1>4

\* The node a walk that came to nothing was led to after the i-th.
LEMMA LedOn ==
    ASSUME NEW p, NEW first, NEW link, NEW w, WalkedAlong(p, first, link, w), w.at = Nil
    PROVE  /\ first = Ahead(w.path, 0)
           /\ \A i \in 1 .. Len(w.path) : link[w.path[i]] = Ahead(w.path, i)
  <1> DEFINE s == w.path
  <1>1. /\ s \in Seq(FreeNodes(p)) /\ Len(s) \in Nat /\ (s = <<>> => Nil = first)
        /\ s # <<>> => s[1] = first /\ Nil = link[s[Len(s)]]
        /\ \A i \in 1 .. Len(s) - 1 : s[i + 1] = link[s[i]]
    BY DEF WalkedAlong
  <1> HIDE DEF s
  <1>2. first = Ahead(s, 0)
    BY <1>1 DEF Ahead
  <1>3. ASSUME NEW i \in 1 .. Len(s) PROVE link[s[i]] = Ahead(s, i)
    <2>1. CASE i = Len(s)
      BY <1>1, <2>1 DEF Ahead
    <2>2. CASE i # Len(s)
      BY <1>1, <2>2 DEF Ahead
    <2> QED
      BY <2>1, <2>2
  <1> QED
    BY <1>2, <1>3 DEF s

\* When every check passed, the two walks went through one sound list, or they
\* both stopped at once.
LEMMA PassedIsSound ==
    ASSUME NEW p \in Pool, IsFiniteSet(Members(p)), NEW locked, Passed(p, locked),
           \A x : Mark(x) \notin Key
    PROVE  WellFormed(p) \/ Overlooked(p)
  <1> DEFINE f  == WalkForward(p)
             b  == WalkBackward(p)
             fl == [k \in Members(p) |-> p.entry[k].next]
             bl == [k \in Members(p) |-> p.entry[k].prev]
             s  == f.path
             t  == b.path
  <1>1. WalkedAlong(p, p.head, fl, f) /\ WalkedAlong(p, p.tail, bl, b)
    <2> HIDE DEF fl, bl
    <2>1. f = Walk(p, p.head, fl) /\ b = Walk(p, p.tail, bl)
      BY DEF WalkForward, WalkBackward, fl, bl
    <2> HIDE DEF f, b
    <2> QED
      BY <2>1, WalkStops
  <1>2. /\ s \in Seq(FreeNodes(p)) /\ t \in Seq(FreeNodes(p))
        /\ Len(s) \in Nat /\ Len(t) \in Nat /\ DOMAIN s = 1 .. Len(s)
        /\ \A i, j \in 1 .. Len(s) : s[i] = s[j] => i = j
        /\ s = <<>> => f.at = p.head
        /\ t = <<>> => b.at = p.tail
    BY <1>1 DEF WalkedAlong
  <1>3. FreeNodes(p) \subseteq Members(p) /\ Members(p) \subseteq Key
    BY PoolShape DEF FreeNodes
  <1>4. /\ ~Cyclic(f) /\ ~Cyclic(b) /\ Listing(f) = Reverse(Listing(b))
        /\ ToSet(s) = FreeNodes(p) /\ (p.head # Nil => p.head \in Members(p))
        /\ \A k \in FreeNodes(p) : Allocated \notin {p.entry[k].prev, p.entry[k].next}
    BY DEF Passed
  <1> HIDE DEF f, b, fl, bl
  <1>5. \/ f.at = Nil /\ b.at = Nil /\ t = Reverse(s)
        \/ f.at # Nil /\ b.at = f.at /\ s = <<>> /\ t = <<>>
    <2>1. \A x : Mark(x) \notin FreeNodes(p)
      BY <1>3
    <2> QED
      BY <1>2, <1>4, <2>1, ListingsMirror
  <1>6. CASE f.at # Nil /\ b.at = f.at /\ s = <<>> /\ t = <<>>
    <2>1. FreeNodes(p) = {}
      BY <1>4, <1>6 DEF ToSet
    <2> QED
      BY <1>2, <1>4, <1>6, <2>1 DEF Overlooked
  <1>7. CASE f.at = Nil /\ b.at = Nil /\ t = Reverse(s)
    <2>1. /\ p.head = Ahead(s, 0) /\ p.tail = Ahead(t, 0)
          /\ \A i \in 1 .. Len(s) : fl[s[i]] = Ahead(s, i)
          /\ \A i \in 1 .. Len(t) : bl[t[i]] = Ahead(t, i)
      BY <1>1, <1>7, LedOn
    <2> HIDE DEF s, t
    <2>2. /\ Len(t) = Len(s)
          /\ \A i \in 1 .. Len(s) : Len(s) - i + 1 \in 1 .. Len(s) /\ t[i] = s[Len(s) - i + 1]
      BY <1>2, <1>7, TurnedRound
    <2>3. /\ \A i \in 1 .. Len(s) : s[i] \in Members(p)
          /\ \A i \in 1 .. Len(t) : t[i] \in Members(p)
      BY <1>2, <1>3
    <2>4. \A i \in 1 .. Len(s) : p.entry[s[i]].next = Ahead(s, i)
      BY <2>1, <2>3 DEF fl
    <2>5. \A i \in 1 .. Len(t) : p.entry[t[i]].prev = Ahead(t, i)
      BY <2>1, <2>3 DEF bl
    <2>6. {s[i] : i \in 1 .. Len(s)} = FreeNodes(p)
      BY <1>2, <1>4 DEF ToSet
    <2>7. p.tail = IF Len(s) = 0 THEN Nil ELSE s[Len(s)]
      <3>1. CASE Len(s) = 0
        BY <2>1, <2>2, <3>1 DEF Ahead
      <3>2. CASE Len(s) # 0
        <4>1. 1 \in 1 .. Len(s) /\ Len(s) - 1 + 1 = Len(s) /\ 0 < Len(s)
          BY <1>2, <3>2
        <4>2. t[1] = s[Len(s)] /\ p.tail = t[0 + 1]
          BY <2>1, <2>2, <4>1 DEF Ahead
        <4> QED
          BY <3>2, <4>2
      <3> QED
        BY <3>1, <3>2
    <2>8. ASSUME NEW i \in 1 .. Len(s)
          PROVE  p.entry[s[i]].prev = IF i = 1 THEN Nil ELSE s[i - 1]
      <3> DEFINE j == Len(s) - i + 1
      <3>1. /\ j \in 1 .. Len(s) /\ Len(s) - j + 1 = i /\ (i = 1 => j = Len(s))
            /\ i # 1 => j < Len(s) /\ j + 1 \in 1 .. Len(s) /\ Len(s) - (j + 1) + 1 = i - 1
        BY <1>2
      <3> HIDE DEF j
      <3>2. t[j] = s[i] /\ p.entry[s[i]].prev = Ahead(t, j)
        BY <2>2, <2>5, <3>1
      <3>3. CASE i = 1
        BY <2>2, <3>1, <3>2, <3>3 DEF Ahead
      <3>4. CASE i # 1
        <4>1. Ahead(t, j) = t[j + 1]
          BY <2>2, <3>1, <3>4 DEF Ahead
        <4>2. t[j + 1] = s[i - 1]
          BY <2>2, <3>1, <3>4
        <4> QED
          BY <3>2, <3>4, <4>1, <4>2
      <3> QED
        BY <3>3, <3>4
    <2>9. WellFormed(p)
      BY <1>2, <1>4, <2>1, <2>4, <2>6, <2>7, <2>8, ListIsSound
    <2> QED
      BY <2>9
  <1> QED
    BY <1>5, <1>6, <1>7

\* Nothing is reported of a pool without free nodes whose ends agree on a member.
LEMMA OverlookedPasses ==
    ASSUME NEW p \in Pool, IsFiniteSet(Members(p)), NEW locked, Overlooked(p)
    PROVE  CheckInvariants(p, locked) = {}
  <1> DEFINE f  == WalkForward(p)
             b  == WalkBackward(p)
             fl == [k \in Members(p) |-> p.entry[k].next]
             bl == [k \in Members(p) |-> p.entry[k].prev]
  <1>1. WalkedAlong(p, p.head, fl, f) /\ WalkedAlong(p, p.tail, bl, b)
    <2> HIDE DEF fl, bl
    <2>1. f = Walk(p, p.head, fl) /\ b = Walk(p, p.tail, bl)
      BY DEF WalkForward, WalkBackward, fl, bl
    <2> HIDE DEF f, b
    <2> QED
      BY <2>1, WalkStops
  <1>2. /\ FreeNodes(p) = {} /\ p.head = p.tail /\ p.head \in Members(p) /\ p.head # Nil
        /\ Members(p) # {}
    BY PoolShape, KeysAreValid DEF Overlooked
  <1> HIDE DEF f, b, fl, bl
  <1>3. f.path = <<>> /\ b.path = <<>>
    <2>1. \A s \in Seq({}) : s = <<>>
      OBVIOUS
    <2>2. f.path \in Seq({}) /\ b.path \in Seq({})
      BY <1>1, <1>2 DEF WalkedAlong
    <2> QED
      BY <2>1, <2>2
  <1>4. f.at = p.head /\ b.at = p.head
    BY <1>1, <1>2, <1>3 DEF WalkedAlong
  <1>5. ~Cyclic(f) /\ ~Cyclic(b) /\ ToSet(f.path) = FreeNodes(p)
    BY <1>2, <1>3 DEF Cyclic, ToSet
  <1>6. Listing(f) = Reverse(Listing(b))
    <2> DEFINE m == Mark(p.head)
               l == Append(<<>>, m)
    <2>1. Listing(f) = l /\ Listing(b) = l
      <3>1. f.path \in Seq({}) /\ b.path \in Seq({})
        BY <1>3
      <3> QED
        BY <1>2, <1>3, <1>4, <1>5, <3>1, ListingShape
    <2> HIDE DEF m
    <2>2. l \in Seq({m}) /\ Len(l) = 1
      OBVIOUS
    <2> HIDE DEF l
    <2>3. /\ Reverse(l) \in Seq({m}) /\ Len(Reverse(l)) = 1
          /\ \A i \in 1 .. 1 : Reverse(l)[i] \in {m} /\ l[i] \in {m}
      BY <2>2, TurnedRound
    <2>4. l = Reverse(l)
      BY <2>2, <2>3, SeqEqual
    <2> QED
      BY <2>1, <2>4
  <1>7. EntryViolations(p, locked) = {}
    <2>1. p.head # Nil /\ p.tail # Nil /\ p.head \in Members(p) /\ p.tail \in Members(p)
      BY <1>2
    <2> QED
      BY <1>2, <2>1 DEF EntryViolations
  <1> QED
    BY <1>2, <1>5, <1>6, <1>7 DEF CheckInvariants, f, b

\* check_invariants reports nothing if and only if the pool is a sound list and
\* no free node is locked, but for one damage it takes for sound: no free node at
\* all, and both ends at one allocated key.  For keys that do not look like the
\* marks the walks leave (diagnostics/invariants.py skips what starts with "<").
THEOREM DiagnosticsExact ==
    ASSUME NEW p \in Pool, IsFiniteSet(Members(p)), NEW locked, \A x : Mark(x) \notin Key
    PROVE  CheckInvariants(p, locked) = {}
             <=> (WellFormed(p) \/ Overlooked(p)) /\ FreeNodes(p) \cap locked = {}
  <1>1. ASSUME CheckInvariants(p, locked) = {}
        PROVE  (WellFormed(p) \/ Overlooked(p)) /\ FreeNodes(p) \cap locked = {}
    <2>1. Passed(p, locked)
      BY <1>1, NothingReported
    <2>2. FreeNodes(p) \cap locked = {}
      BY <2>1 DEF Passed
    <2> QED
      BY <2>1, <2>2, PassedIsSound
  <1>2. ASSUME WellFormed(p), FreeNodes(p) \cap locked = {}
        PROVE  CheckInvariants(p, locked) = {}
    BY <1>2, FreeNodesFree, SoundListPasses
  <1> QED
    BY <1>1, <1>2, OverlookedPasses

\* A "corrupt" verdict never comes from the allocator's own scripts: whatever
\* ran, between any two rounds, check_invariants finds nothing.
THEOREM DiagnosticsClean == Spec => []DiagnosticsFindNothing
  <1>1. IInv /\ FinitePool => DiagnosticsFindNothing
    BY SoundListPasses
    DEF IInv, SInv, TypeOK, ListWellFormed, FreeKeysUnlocked, FinitePool, DiagnosticsFindNothing
  <1> QED
    BY <1>1, PoolStaysFinite, PTL
=============================================================================
